----------------------------- MODULE Dns_proofs -----------------------------
(***************************************************************************)
(* freeaddrinfo gives every list back to the allocator it came from, for   *)
(* any number of threads, addresses and slots: the first part, which is    *)
(* about AddrLists alone.  The invariant says where a list can be: with    *)
(* the game, in a thread's call, and if it was built here, in the table as *)
(* long as the game has it, unless the table was full.                     *)
(*                                                                         *)
(* The lookups use the address lists as AddrLists says, and nothing else   *)
(* in the forwarder or the launcher touches them: what is proved there     *)
(* holds of the whole.  The rest is about the queries and the cache.       *)
(***************************************************************************)
EXTENDS Dns, TLAPS

Busy(t) == mem[t].at # "out"

\* The list a thread handles is nobody else's, and of the right kind.
Alone(t) ==
    Busy(t) =>
        /\ mem[t].list \in Addresses /\ heap[mem[t].list] # "free"
        /\ mem[t].list \notin held
        /\ \A s \in 1..Slots : table[s] # mem[t].list
        /\ \A u \in Threads \ {t} : Busy(u) => mem[u].list # mem[t].list
        /\ mem[t].at \in {"remember", "freeHere"} => heap[mem[t].list] = "ours"
        /\ mem[t].at = "freeSystem" => heap[mem[t].list] = "system" \/ mem[t].list \in dropped

\* The table has lists that were built here and that the game has, once each.
Tabled(s) ==
    table[s] # None =>
        /\ heap[table[s]] = "ours" /\ table[s] \in held
        /\ \A r \in 1..Slots \ {s} : table[r] # table[s]

\* The game has no freed list, and those built here are in the table.
Held(a) ==
    a \in held => /\ heap[a] # "free"
                  /\ heap[a] = "ours" => a \in dropped \/ \E s \in 1..Slots : table[s] = a

ListsInv ==
    /\ ListsTypeOK
    /\ \A t \in Threads : Alone(t)
    /\ \A s \in 1..Slots : Tabled(s)
    /\ \A a \in Addresses : Held(a)
    /\ \A a \in dropped : heap[a] # "free"
------------------------------------------------------------------------------

\* A step of a thread's call changes its own record only.
LEMMA StepMem ==
    ASSUME mem \in [Threads -> MemType], NEW t \in Threads, NEW r \in MemType,
           mem' = [mem EXCEPT ![t] = r]
    PROVE  /\ mem' \in [Threads -> MemType]
           /\ mem'[t] = r
           /\ \A u \in Threads \ {t} : mem'[u] = mem[u]
  OBVIOUS

\* The records a call goes through.
LEMMA Records ==
    /\ NoMem \in MemType /\ NoMem.at = "out"
    /\ \A a \in Addresses : \A step \in {"remember", "freeHere", "freeSystem"} :
           /\ Handling(step, a) \in MemType
           /\ Handling(step, a).at = step /\ Handling(step, a).list = a
  BY ListsAssumption DEF NoMem, Handling, MemType

\* Initially nobody has a list.
LEMMA ListsInitInv == ListsInit => ListsInv
<1> SUFFICES ASSUME ListsInit PROVE ListsInv
  OBVIOUS
<1>1. ListsTypeOK
  BY Records DEF ListsInit, ListsTypeOK
<1>2. \A t \in Threads : ~Busy(t)
  BY Records DEF ListsInit, Busy
<1> QED
  BY <1>1, <1>2 DEF ListsInit, ListsInv, Alone, Tabled, Held

\* The new list's address was free: no one has it.
LEMMA BuildInv ==
    ASSUME ListsInv, NEW t \in Threads, Build(t) PROVE ListsInv'
<1>1. PICK a \in Addresses :
          /\ mem[t].at = "out" /\ heap[a] = "free"
          /\ heap' = [heap EXCEPT ![a] = "ours"]
          /\ mem' = [mem EXCEPT ![t] = Handling("remember", a)]
          /\ UNCHANGED <<table, held, dropped>>
  BY DEF Build
<1>2. /\ mem' \in [Threads -> MemType]
      /\ mem'[t].at = "remember" /\ mem'[t].list = a
      /\ \A u \in Threads \ {t} : mem'[u] = mem[u]
  BY <1>1, StepMem, Records DEF ListsInv, ListsTypeOK
<1>3. ListsTypeOK'
  BY <1>1, <1>2 DEF ListsInv, ListsTypeOK
<1>4. /\ a \notin held /\ a \notin dropped
      /\ \A s \in 1..Slots : table[s] # a
      /\ \A u \in Threads : Busy(u) => mem[u].list # a
  BY <1>1, ListsAssumption DEF ListsInv, ListsTypeOK, Alone, Tabled, Held
<1>5. heap'[a] = "ours" /\ \A b \in Addresses \ {a} : heap'[b] = heap[b]
  BY <1>1 DEF ListsInv, ListsTypeOK
<1>6. ASSUME NEW u \in Threads PROVE Alone(u)'
  BY <1>1, <1>2, <1>4, <1>5 DEF ListsInv, ListsTypeOK, Alone, Busy
<1>7. ASSUME NEW s \in 1..Slots PROVE Tabled(s)'
  BY <1>1, <1>4, <1>5 DEF ListsInv, ListsTypeOK, Tabled
<1>8. ASSUME NEW b \in Addresses PROVE Held(b)'
  BY <1>1, <1>4, <1>5 DEF ListsInv, ListsTypeOK, Held
<1>9. \A b \in dropped' : heap'[b] # "free"
  BY <1>1, <1>4, <1>5 DEF ListsInv, ListsTypeOK
<1> QED
  BY <1>3, <1>6, <1>7, <1>8, <1>9 DEF ListsInv

\* The list goes to the game, into the first free slot or without one.
LEMMA RememberInv ==
    ASSUME ListsInv, NEW t \in Threads, Remember(t) PROVE ListsInv'
<1> DEFINE a == mem[t].list
           s == mem[t].slot
<1>1. /\ mem[t].at = "remember" /\ heap' = heap
      /\ mem[t] \in MemType /\ s \in 1..Slots + 1 /\ a \in Addresses
      /\ heap[a] = "ours" /\ a \notin held /\ \A r \in 1..Slots : table[r] # a
      /\ \A u \in Threads \ {t} : Busy(u) => mem[u].list # a
  BY DEF Remember, ListsInv, ListsTypeOK, MemType, Alone, Busy
<1>2. CASE s <= Slots /\ table[s] # None /\ mem' = [mem EXCEPT ![t].slot = s + 1]
           /\ UNCHANGED <<table, held, dropped>>
  <2>1. s + 1 \in 1..Slots + 1
    BY <1>1, <1>2, ListsAssumption
  <2>2. PICK r \in MemType : r.at = "remember" /\ r.list = a /\ r = [mem[t] EXCEPT !.slot = s + 1]
    BY <1>1, <2>1 DEF MemType
  <2>3. mem' = [mem EXCEPT ![t] = r]
    BY <1>2, <2>2
  <2>4. /\ mem' \in [Threads -> MemType] /\ mem'[t] = r
        /\ \A u \in Threads \ {t} : mem'[u] = mem[u]
    BY <2>3, StepMem DEF ListsInv, ListsTypeOK
  <2>5. \A u \in Threads : mem'[u].at = mem[u].at /\ mem'[u].list = mem[u].list
    BY <1>1, <2>2, <2>4
  <2> QED
    BY <1>1, <1>2, <2>4, <2>5 DEF ListsInv, ListsTypeOK, Alone, Tabled, Held, Busy
<1>3. ASSUME held' = held \cup {a}, mem' = [mem EXCEPT ![t] = NoMem]
      PROVE  /\ mem' \in [Threads -> MemType] /\ mem'[t].at = "out"
             /\ \A u \in Threads \ {t} : mem'[u] = mem[u]
  BY <1>3, StepMem, Records DEF ListsInv, ListsTypeOK
<1>4. CASE /\ s <= Slots /\ table[s] = None /\ table' = [table EXCEPT ![s] = a]
           /\ held' = held \cup {a} /\ mem' = [mem EXCEPT ![t] = NoMem] /\ UNCHANGED dropped
  <2>1. s \in 1..Slots
    BY <1>1, <1>4, ListsAssumption
  <2>2. table'[s] = a /\ \A r \in 1..Slots \ {s} : table'[r] = table[r]
    BY <1>4, <2>1 DEF ListsInv, ListsTypeOK
  <2>3. ListsTypeOK'
    BY <1>1, <1>3, <1>4, <2>1 DEF ListsInv, ListsTypeOK
  <2>4. ASSUME NEW u \in Threads PROVE Alone(u)'
    <3>1. CASE u = t
      BY <1>3, <1>4, <3>1 DEF Alone, Busy
    <3>2. CASE u # t
      <4>1. mem'[u] = mem[u] /\ Alone(u)
        BY <1>3, <1>4, <3>2 DEF ListsInv
      <4> QED
        BY <1>1, <1>3, <1>4, <2>2, <3>2, <4>1 DEF Alone, Busy
    <3> QED
      BY <3>1, <3>2
  <2>5. ASSUME NEW r \in 1..Slots PROVE Tabled(r)'
    BY <1>1, <1>4, <2>1, <2>2 DEF ListsInv, Tabled
  <2>6. ASSUME NEW b \in Addresses PROVE Held(b)'
    <3>1. CASE b = a
      BY <1>1, <2>1, <2>2, <3>1 DEF Held
    <3>2. CASE b # a
      <4>1. Held(b) /\ b \in Addresses /\ (b \in held' => b \in held)
        BY <1>4, <3>2 DEF ListsInv
      <4>2. \A r \in 1..Slots : table[r] = b => table'[r] = b
        BY <1>4, <2>2, ListsAssumption
      <4> QED
        BY <1>1, <1>4, <4>1, <4>2 DEF Held
    <3> QED
      BY <3>1, <3>2
  <2> QED
    BY <1>1, <1>4, <2>3, <2>4, <2>5, <2>6 DEF ListsInv
<1>5. CASE /\ s > Slots /\ dropped' = dropped \cup {a}
           /\ held' = held \cup {a} /\ mem' = [mem EXCEPT ![t] = NoMem] /\ UNCHANGED table
  <2>1. ListsTypeOK'
    BY <1>1, <1>3, <1>5 DEF ListsInv, ListsTypeOK
  <2>2. ASSUME NEW u \in Threads PROVE Alone(u)'
    BY <1>1, <1>3, <1>5 DEF ListsInv, Alone, Busy
  <2>3. ASSUME NEW r \in 1..Slots PROVE Tabled(r)'
    BY <1>1, <1>5 DEF ListsInv, Tabled
  <2>4. ASSUME NEW b \in Addresses PROVE Held(b)'
    BY <1>1, <1>5 DEF ListsInv, Held
  <2>5. \A b \in dropped' : heap'[b] # "free"
    BY <1>1, <1>5 DEF ListsInv
  <2> QED
    BY <2>1, <2>2, <2>3, <2>4, <2>5 DEF ListsInv
<1> QED
  BY <1>2, <1>4, <1>5 DEF Remember

\* As Build, with the list at once in the game's hands.
LEMMA SystemListInv ==
    ASSUME ListsInv, NEW t \in Threads, SystemList(t) PROVE ListsInv'
<1>1. PICK a \in Addresses :
          /\ heap[a] = "free" /\ heap' = [heap EXCEPT ![a] = "system"]
          /\ held' = held \cup {a} /\ UNCHANGED <<table, mem, dropped>>
  BY DEF SystemList
<1>2. ListsTypeOK'
  BY <1>1 DEF ListsInv, ListsTypeOK
<1>3. /\ a \notin held /\ a \notin dropped
      /\ \A s \in 1..Slots : table[s] # a
      /\ \A u \in Threads : Busy(u) => mem[u].list # a
  BY <1>1, ListsAssumption DEF ListsInv, ListsTypeOK, Alone, Tabled, Held
<1>4. heap'[a] = "system" /\ \A b \in Addresses \ {a} : heap'[b] = heap[b]
  BY <1>1 DEF ListsInv, ListsTypeOK
<1>5. ASSUME NEW u \in Threads PROVE Alone(u)'
  BY <1>1, <1>3, <1>4 DEF ListsInv, ListsTypeOK, Alone, Busy
<1>6. ASSUME NEW s \in 1..Slots PROVE Tabled(s)'
  BY <1>1, <1>3, <1>4 DEF ListsInv, ListsTypeOK, Tabled
<1>7. ASSUME NEW b \in Addresses PROVE Held(b)'
  BY <1>1, <1>3, <1>4 DEF ListsInv, ListsTypeOK, Held
<1>8. \A b \in dropped' : heap'[b] # "free"
  BY <1>1, <1>3, <1>4 DEF ListsInv, ListsTypeOK
<1> QED
  BY <1>2, <1>5, <1>6, <1>7, <1>8 DEF ListsInv

\* The list leaves the game's hands and its only slot, if it has one.
LEMMA FreeInv ==
    ASSUME ListsInv, NEW t \in Threads, Free(t) PROVE ListsInv'
<1>1. PICK a \in held :
          /\ mem[t].at = "out" /\ held' = held \ {a} /\ UNCHANGED <<heap, dropped>>
          /\ \/ /\ \E s \in 1..Slots : table[s] = a /\ table' = [table EXCEPT ![s] = None]
                /\ mem' = [mem EXCEPT ![t] = Handling("freeHere", a)]
             \/ /\ \A s \in 1..Slots : table[s] # a
                /\ mem' = [mem EXCEPT ![t] = Handling("freeSystem", a)]
                /\ UNCHANGED table
  BY DEF Free
<1>2. /\ a \in Addresses /\ Held(a) /\ a # None
      /\ \A u \in Threads : Busy(u) => mem[u].list # a
  BY <1>1, ListsAssumption DEF ListsInv, ListsTypeOK, Alone
<1>3. ASSUME NEW step \in {"freeHere", "freeSystem"},
             mem' = [mem EXCEPT ![t] = Handling(step, a)]
      PROVE  /\ mem' \in [Threads -> MemType]
             /\ mem'[t].at = step /\ mem'[t].list = a
             /\ \A u \in Threads \ {t} : mem'[u] = mem[u]
  BY <1>2, <1>3, StepMem, Records DEF ListsInv, ListsTypeOK
<1>4. CASE /\ \E s \in 1..Slots : table[s] = a /\ table' = [table EXCEPT ![s] = None]
           /\ mem' = [mem EXCEPT ![t] = Handling("freeHere", a)]
  <2>1. PICK s \in 1..Slots : table[s] = a /\ table' = [table EXCEPT ![s] = None]
    BY <1>4
  <2>2. table'[s] = None /\ \A r \in 1..Slots \ {s} : table'[r] = table[r] /\ table[r] # a
    BY <1>2, <2>1 DEF ListsInv, ListsTypeOK, Tabled
  <2>3. /\ mem' \in [Threads -> MemType]
        /\ mem'[t].at = "freeHere" /\ mem'[t].list = a
        /\ \A u \in Threads \ {t} : mem'[u] = mem[u]
    BY <1>3, <1>4
  <2>4. heap[a] = "ours"
    BY <1>2, <2>1 DEF ListsInv, Tabled
  <2>5. ListsTypeOK'
    BY <1>1, <2>1, <2>3 DEF ListsInv, ListsTypeOK
  <2>6. ASSUME NEW u \in Threads PROVE Alone(u)'
    <3>1. CASE u = t
      BY <1>1, <1>2, <2>2, <2>3, <2>4, <3>1 DEF Alone, Busy
    <3>2. CASE u # t
      <4>1. mem'[u] = mem[u] /\ Alone(u)
        BY <2>3, <3>2 DEF ListsInv
      <4> QED
        BY <1>1, <1>2, <2>2, <2>3, <3>2, <4>1, ListsAssumption DEF Alone, Busy
    <3> QED
      BY <3>1, <3>2
  <2>7. ASSUME NEW r \in 1..Slots PROVE Tabled(r)'
    BY <1>1, <2>2 DEF ListsInv, Tabled
  <2>8. ASSUME NEW b \in Addresses PROVE Held(b)'
    BY <1>1, <2>1, <2>2 DEF ListsInv, Held
  <2> QED
    BY <1>1, <2>5, <2>6, <2>7, <2>8 DEF ListsInv
<1>5. CASE /\ \A s \in 1..Slots : table[s] # a
           /\ mem' = [mem EXCEPT ![t] = Handling("freeSystem", a)]
           /\ UNCHANGED table
  <2>1. /\ mem' \in [Threads -> MemType]
        /\ mem'[t].at = "freeSystem" /\ mem'[t].list = a
        /\ \A u \in Threads \ {t} : mem'[u] = mem[u]
    BY <1>3, <1>5
  <2>2. heap[a] = "system" \/ a \in dropped
    BY <1>1, <1>2, <1>5 DEF ListsInv, ListsTypeOK, Held
  <2>3. ListsTypeOK'
    BY <1>1, <1>5, <2>1 DEF ListsInv, ListsTypeOK
  <2>4. ASSUME NEW u \in Threads PROVE Alone(u)'
    <3>1. CASE u = t
      BY <1>1, <1>2, <1>5, <2>1, <2>2, <3>1 DEF Alone, Busy, Held
    <3>2. CASE u # t
      BY <1>1, <1>2, <1>5, <2>1, <3>2 DEF ListsInv, Alone, Busy
    <3> QED
      BY <3>1, <3>2
  <2>5. ASSUME NEW r \in 1..Slots PROVE Tabled(r)'
    BY <1>1, <1>5 DEF ListsInv, Tabled
  <2>6. ASSUME NEW b \in Addresses PROVE Held(b)'
    BY <1>1, <1>5 DEF ListsInv, Held
  <2> QED
    BY <1>1, <2>3, <2>4, <2>5, <2>6 DEF ListsInv
<1> QED
  BY <1>1, <1>4, <1>5

\* The freed address is nobody else's.
LEMMA ReleaseInv ==
    ASSUME ListsInv, NEW t \in Threads, Release(t) PROVE ListsInv'
<1> DEFINE a == mem[t].list
<1>1. /\ mem[t].at \in {"freeHere", "freeSystem"}
      /\ heap' = [heap EXCEPT ![a] = "free"] /\ dropped' = dropped \ {a}
      /\ mem' = [mem EXCEPT ![t] = NoMem] /\ UNCHANGED <<table, held>>
  BY DEF Release
<1>2. /\ a \in Addresses /\ a \notin held /\ \A s \in 1..Slots : table[s] # a
      /\ \A u \in Threads \ {t} : Busy(u) => mem[u].list # a
  BY <1>1 DEF ListsInv, Alone, Busy
<1>3. /\ mem' \in [Threads -> MemType] /\ mem'[t].at = "out"
      /\ \A u \in Threads \ {t} : mem'[u] = mem[u]
  BY <1>1, StepMem, Records DEF ListsInv, ListsTypeOK
<1>4. \A b \in Addresses \ {a} : heap'[b] = heap[b] /\ (b \in dropped' <=> b \in dropped)
  BY <1>1 DEF ListsInv, ListsTypeOK
<1>5. ListsTypeOK'
  BY <1>1, <1>2, <1>3 DEF ListsInv, ListsTypeOK
<1>6. ASSUME NEW u \in Threads PROVE Alone(u)'
  <2>1. CASE u = t
    BY <1>3, <2>1 DEF Alone, Busy
  <2>2. CASE u # t
    <3>1. mem'[u] = mem[u] /\ Alone(u)
      BY <1>3, <2>2 DEF ListsInv
    <3> QED
      BY <1>1, <1>2, <1>3, <1>4, <2>2, <3>1 DEF Alone, Busy
  <2> QED
    BY <2>1, <2>2
<1>7. ASSUME NEW s \in 1..Slots PROVE Tabled(s)'
  BY <1>1, <1>2, <1>4 DEF ListsInv, ListsTypeOK, Tabled
<1>8. ASSUME NEW b \in Addresses PROVE Held(b)'
  BY <1>1, <1>2, <1>4 DEF ListsInv, Held
<1>9. \A b \in dropped' : heap'[b] # "free"
  BY <1>1, <1>4 DEF ListsInv, ListsTypeOK
<1> QED
  BY <1>5, <1>6, <1>7, <1>8, <1>9 DEF ListsInv

\* The invariant holds whatever the threads do.
LEMMA ListsStepInv == ListsInv /\ [ListsNext]_listVars => ListsInv'
<1>1. ASSUME ListsInv, UNCHANGED listVars PROVE ListsInv'
  BY <1>1 DEF listVars, ListsInv, ListsTypeOK, Alone, Tabled, Held, Busy
<1> QED
  BY <1>1, BuildInv, RememberInv, SystemListInv, FreeInv, ReleaseInv DEF ListsNext

\* The invariant says what freeaddrinfo relies on.
LEMMA ListsInvRight == ListsInv => RightAllocator
  BY DEF ListsInv, RightAllocator, Alone, Busy

\* For any number of threads, addresses and slots: freeaddrinfo gives every list
\* to the allocator it came from, unless the table was full when it was built.
THEOREM ListsRightAllocator == ListsSpec => []RightAllocator
<1>1. ListsInit => ListsInv
  BY ListsInitInv
<1>2. ListsInv /\ [ListsNext]_listVars => ListsInv'
  BY ListsStepInv
<1>3. ListsInv => RightAllocator
  BY ListsInvRight
<1> QED
  BY <1>1, <1>2, <1>3, PTL DEF ListsSpec
------------------------------------------------------------------------------
(* The lookups use the lists. *)

\* Every step is one of the lists' or leaves them as they are.
LEMMA DnsStepLists == [Next]_vars => [ListsNext]_listVars
<1> SUFFICES ASSUME [Next]_vars PROVE [ListsNext]_listVars
  OBVIOUS
<1>1. ASSUME NEW t \in Threads, StartLookup(t) PROVE UNCHANGED listVars
  BY <1>1 DEF StartLookup
<1>2. ASSUME NEW t \in Threads, Lookup(t) PROVE [ListsNext]_listVars
  <2>1. CASE Send(t)
    BY <2>1 DEF Send
  <2>2. CASE PollTimesOut(t)
    BY <2>2 DEF PollTimesOut
  <2>3. CASE Receive(t) \/ Reply(t)
    BY <2>3 DEF Receive, Reply
  <2>4. CASE MakeList(t)
    BY <2>4 DEF MakeList, ListsNext
  <2>5. CASE RememberList(t)
    BY <2>5 DEF RememberList, ListsNext
  <2>6. CASE LockSystem(t)
    BY <2>6 DEF LockSystem
  <2>7. CASE SystemAnswers(t)
    BY <2>7 DEF SystemAnswers, ListsNext
  <2> QED
    BY <1>2, <2>1, <2>2, <2>3, <2>4, <2>5, <2>6, <2>7 DEF Lookup
<1>3. ASSUME NEW t \in Threads, FreeList(t) PROVE [ListsNext]_listVars
  BY <1>3 DEF FreeList, ListsNext
<1>4. CASE Forwarder
  BY <1>4 DEF Forwarder, Serve, ServeEnds, Consult, Resolve, Store, Answer
<1>5. CASE Stop \/ Tick
  BY <1>5 DEF Stop, Tick
<1>6. CASE UNCHANGED vars
  BY <1>6 DEF vars
<1> QED
  BY <1>1, <1>2, <1>3, <1>4, <1>5, <1>6 DEF Next

\* Lookups on any number of threads, with a forwarder that answers, stops or
\* dies, keep the address lists as their own specification says.
THEOREM DnsImplementsLists == Spec => ListsSpec
<1>1. Init => ListsInit
  BY DEF Init
<1> QED
  BY <1>1, DnsStepLists, PTL DEF Spec, ListsSpec

\* The game's freeaddrinfo gives every list a lookup returned to the allocator
\* it came from, unless the table was full.
THEOREM DnsRightAllocator == Spec => []RightAllocator
  BY DnsImplementsLists, ListsRightAllocator, PTL
------------------------------------------------------------------------------
(* What a lookup reads, and what the cache answers. *)

\* A lookup has a number; one that sends and polls has a port, an id and answers.
Asking(t) ==
    /\ ~At(t, "out") => lookups[t] \in 1..size.lookups
    /\ Open(t) => call[t].name \in Names /\ call[t].port \in Ports /\ call[t].id \in Ids
    /\ At(t, "parse") => call[t].reply \in AnswerType
    /\ answers[t] # {} => Open(t)

\* A query or an answer belongs to the lookup of `t`.
Own(x, t) == x.from = t /\ x.number = lookups[t]

\* Whatever is under way to a lookup's port with its id belongs to it, unless that
\* was not so when it began.
Matched(t) ==
    ~call[t].alike =>
        /\ Open(t) =>
              /\ \A r \in answers[t] : r.id = call[t].id => Own(r, t)
              /\ \A q \in Questions : q.port = call[t].port /\ q.id = call[t].id => Own(q, t)
        /\ At(t, "parse") => Own(call[t].reply, t)

\* Open sockets have different ports.
Apart == \A t, u \in Threads : Open(t) /\ Open(u) /\ t # u => call[t].port # call[u].port

MatchInv == Apart /\ \A t \in Threads : Matched(t)

\* A worker read the time before what it stores and sends was said.
Working(w) ==
    /\ work[w].at # "idle" => work[w].query \in QueryType
    /\ work[w].at = "resolve" => work[w].now <= clock
    /\ work[w].at = "store" => work[w].life > 0 /\ work[w].now + work[w].life <= work[w].until
    /\ work[w].at = "reply" => work[w].now < work[w].until

CallsInv ==
    /\ call \in [Threads -> CallType]
    /\ lookups \in [Threads -> 0..size.lookups]
    /\ answers \in [Threads -> SUBSET AnswerType]
    /\ \A t \in Threads : Asking(t)

ForwarderInv ==
    /\ inbox \subseteq QueryType /\ tasks \subseteq QueryType
    /\ work \in [Workers -> WorkType]
    /\ cache \in [Names -> [expires : Nat, kind : Kinds, until : Nat]]
    /\ clock \in 0..size.time
    /\ \A w \in Workers : Working(w)
    /\ \A n \in Names : cache[n].expires <= cache[n].until

RestInv ==
    /\ size \in Sizes /\ lock \in Threads \cup {None}
    /\ server \in {"serving", "closed", "dead"} /\ running \in BOOLEAN

DnsInv == ListsInv /\ CallsInv /\ MatchInv /\ ForwarderInv /\ RestInv

\* The bounds are numbers.
LEMMA SizeType ==
    ASSUME size \in Sizes
    PROVE  size.lookups \in Nat /\ size.attempts \in Nat /\ size.time \in Nat
  BY DnsAssumption DEF Size

LEMMA DnsInitInv == Init => DnsInv
<1> SUFFICES ASSUME Init PROVE DnsInv
  OBVIOUS
<1>1. ListsInv
  BY ListsInitInv DEF Init
<1>2. size.lookups \in Nat /\ size.attempts \in Nat /\ size.time \in Nat
  BY SizeType DEF Init
<1>3. CallsInv
  BY <1>2 DEF Init, CallsInv, CallType, NoCall, Asking, Open, At
<1>6. MatchInv
  BY DEF Init, MatchInv, Apart, Matched, NoCall, Open, At
<1>4. ForwarderInv
  BY <1>2 DEF Init, ForwarderInv, WorkType, Kinds, NoWork, NoEntry, Working
<1>5. RestInv
  BY DEF Init, RestInv
<1> QED
  BY <1>1, <1>3, <1>4, <1>5, <1>6 DEF DnsInv

\* The bounds stay, and with them the types.
LEMMA SizeStays ==
    ASSUME [Next]_vars
    PROVE  /\ size' = size /\ QueryType' = QueryType /\ AnswerType' = AnswerType
           /\ CallType' = CallType /\ WorkType' = WorkType
<1>1. size' = size
  BY DEF Next, vars, dnsVars, StartLookup, Lookup, Send, PollTimesOut, Receive, Reply, MakeList,
         RememberList, LockSystem, SystemAnswers, FreeList, Forwarder, Serve, ServeEnds, Consult,
         Resolve, Store, Answer, Stop, Tick
<1>2. QueryType' = QueryType /\ AnswerType' = AnswerType
  BY <1>1 DEF QueryType, AnswerType
<1> QED
  BY <1>1, <1>2 DEF CallType, WorkType

\* A thread's own step: where it goes, and what becomes of its answers.
LEMMA CallStep ==
    ASSUME DnsInv, [Next]_vars, NEW t \in Threads, NEW c \in CallType, NEW rest \in SUBSET answers[t],
           call' = [call EXCEPT ![t] = c],
           answers' = [answers EXCEPT ![t] = rest],
           lookups' = lookups,
           c.at # "out" => ~At(t, "out"),
           c.at \in {"send", "poll"} => c.name \in Names /\ c.port \in Ports /\ c.id \in Ids,
           c.at = "parse" => c.reply \in AnswerType,
           rest # {} => c.at \in {"send", "poll"}
    PROVE  CallsInv'
<1>1. size' = size /\ CallType' = CallType /\ AnswerType' = AnswerType
  BY SizeStays
<1>2. call' \in [Threads -> CallType] /\ call'[t] = c /\ \A u \in Threads \ {t} : call'[u] = call[u]
  BY DEF DnsInv, CallsInv
<1>3. answers[t] \in SUBSET AnswerType
  BY DEF DnsInv, CallsInv
<1>4. /\ answers' \in [Threads -> SUBSET AnswerType] /\ answers'[t] = rest
      /\ \A u \in Threads \ {t} : answers'[u] = answers[u]
  BY <1>3 DEF DnsInv, CallsInv
<1>5. ASSUME NEW u \in Threads PROVE Asking(u)'
  <2>1. Asking(u) /\ Asking(t)
    BY DEF DnsInv, CallsInv
  <2>2. CASE u = t
    BY <1>1, <1>2, <1>4, <2>1, <2>2 DEF Asking, Open, At
  <2>3. CASE u # t
    BY <1>1, <1>2, <1>4, <2>1, <2>3 DEF Asking, Open, At
  <2> QED
    BY <2>2, <2>3
<1> QED
  BY <1>1, <1>2, <1>4, <1>5 DEF DnsInv, CallsInv

\* A step that leaves the answers alone is one that takes none.
LEMMA NoneTaken ==
    ASSUME DnsInv, NEW t \in Threads
    PROVE  /\ {} \in SUBSET answers[t] /\ answers[t] \in SUBSET answers[t]
           /\ answers' = answers => answers' = [answers EXCEPT ![t] = answers[t]]
           /\ ~Open(t) => answers[t] = {}
  BY DEF DnsInv, CallsInv, Asking

\* Goes and Ends are such steps.
LEMMA GoesStep ==
    ASSUME DnsInv, [Next]_vars, NEW t \in Threads, ~At(t, "out"),
           NEW step \in {"send", "build", "remember", "system", "asking"},
           NEW rest \in SUBSET answers[t],
           Goes(t, step), lookups' = lookups,
           step = "send" => At(t, "poll"),
           answers' = [answers EXCEPT ![t] = rest],
           rest # {} => step = "send"
    PROVE  CallsInv'
<1> DEFINE c == [call[t] EXCEPT !.at = step]
<1>1. call[t] \in CallType /\ Asking(t)
  BY DEF DnsInv, CallsInv
<1>2. c = [at |-> step, name |-> call[t].name, attempt |-> call[t].attempt, port |-> call[t].port,
           id |-> call[t].id, alike |-> call[t].alike, reply |-> call[t].reply,
           result |-> call[t].result]
  BY <1>1 DEF CallType
<1>3. step \in {"out", "send", "poll", "parse", "build", "remember", "system", "asking"}
  OBVIOUS
<1>4. c \in CallType
  BY <1>1, <1>2, <1>3 DEF CallType
<1>5. c.at = step /\ c.name = call[t].name /\ c.port = call[t].port /\ c.id = call[t].id
  BY <1>2
<1>6. call' = [call EXCEPT ![t] = c]
  BY DEF Goes
<1> HIDE DEF c
<1>7. c.at \in {"send", "poll"} => c.name \in Names /\ c.port \in Ports /\ c.id \in Ids
  BY <1>1, <1>5 DEF Asking, Open
<1>8. c.at # "parse" /\ (rest # {} => c.at \in {"send", "poll"})
  BY <1>5
<1> QED
  BY <1>4, <1>6, <1>7, <1>8, CallStep

LEMMA EndsStep ==
    ASSUME DnsInv, [Next]_vars, NEW t \in Threads,
           NEW result \in {"none", "found", "noname", "failed"},
           Ends(t, result), lookups' = lookups, answers' = answers, ~Open(t)
    PROVE  CallsInv'
<1>1. PICK c : c = [NoCall EXCEPT !.result = result]
  OBVIOUS
<1>2. c = [at |-> "out", name |-> None, attempt |-> 0, port |-> None, id |-> None, alike |-> FALSE,
           reply |-> NoReply, result |-> result]
  BY <1>1 DEF NoCall
<1>3. 0 \in 0..size.attempts
  BY SizeType DEF DnsInv, RestInv
<1>4. c \in CallType
  BY <1>2, <1>3 DEF CallType
<1>5. c.at = "out"
  BY <1>2
<1>6. call' = [call EXCEPT ![t] = c]
  BY <1>1 DEF Ends
<1>7. answers' = [answers EXCEPT ![t] = {}]
  BY NoneTaken
<1> QED
  BY <1>4, <1>5, <1>6, <1>7, NoneTaken, CallStep

\* A step inside a lookup, past its socket.
LEMMA PastSocket ==
    ASSUME DnsInv, [Next]_vars, NEW t \in Threads, ~At(t, "out"), ~Open(t),
           NEW step \in {"build", "remember", "system", "asking"},
           Goes(t, step), lookups' = lookups, answers' = answers
    PROVE  CallsInv'
<1>1. answers[t] = {} /\ answers' = [answers EXCEPT ![t] = {}] /\ {} \in SUBSET answers[t]
  BY NoneTaken
<1>2. step \in {"send", "build", "remember", "system", "asking"} /\ step # "send"
  OBVIOUS
<1> QED
  BY <1>1, <1>2, GoesStep

\* A new lookup.
LEMMA StartStep ==
    ASSUME DnsInv, [Next]_vars, NEW t \in Threads, StartLookup(t) PROVE CallsInv'
<1>1. /\ size' = size /\ CallType' = CallType /\ AnswerType' = AnswerType
      /\ size.lookups \in Nat /\ size.attempts \in Nat
  BY SizeStays, SizeType DEF DnsInv, RestInv
<1>2. PICK c : /\ call' = [call EXCEPT ![t] = c] /\ c \in CallType
               /\ c.at \in {"send", "system"}
               /\ c.at = "send" => c.name \in Names /\ c.port \in Ports /\ c.id \in Ids
  <2>1. ASSUME NEW n \in Names, Opens(t, n)
        PROVE  \E c : /\ call' = [call EXCEPT ![t] = c] /\ c \in CallType
                      /\ c.at \in {"send", "system"}
                      /\ c.at = "send" => c.name \in Names /\ c.port \in Ports /\ c.id \in Ids
    <3>1. PICK port \in size.ports, id \in size.ids :
              call' = [call EXCEPT ![t] = [NoCall EXCEPT !.at = "send", !.name = n, !.port = port,
                                                         !.id = id, !.alike = UnderWay(port, id)]]
      BY <2>1 DEF Opens
    <3>2. PICK a \in BOOLEAN : a = UnderWay(port, id)
      BY Zenon DEF UnderWay
    <3>3. call' = [call EXCEPT ![t] = [NoCall EXCEPT !.at = "send", !.name = n, !.port = port,
                                                     !.id = id, !.alike = a]]
      BY <3>1, <3>2, Zenon
    <3>4. PICK c : c = [NoCall EXCEPT !.at = "send", !.name = n, !.port = port, !.id = id,
                                      !.alike = a]
      OBVIOUS
    <3>5. c = [at |-> "send", name |-> n, attempt |-> 0, port |-> port, id |-> id, alike |-> a,
               reply |-> NoReply, result |-> "none"]
      BY <3>4 DEF NoCall
    <3>6. port \in Ports /\ id \in Ids /\ 0 \in 0..size.attempts
      BY <1>1, DnsAssumption DEF DnsInv, RestInv, Size
    <3>7. c \in CallType
      BY <3>5, <3>6 DEF CallType
    <3>8. c.at = "send" /\ c.name = n /\ c.port = port /\ c.id = id
      BY <3>5
    <3>9. call' = [call EXCEPT ![t] = c]
      BY <3>3, <3>4
    <3> QED
      BY <3>6, <3>7, <3>8, <3>9
  <2>2. ASSUME NEW n \in Names,
               call' = [call EXCEPT ![t] = [NoCall EXCEPT !.at = "system", !.name = n]]
        PROVE  \E c : /\ call' = [call EXCEPT ![t] = c] /\ c \in CallType
                      /\ c.at \in {"send", "system"}
                      /\ c.at = "send" => c.name \in Names /\ c.port \in Ports /\ c.id \in Ids
    <3>1. PICK c : c = [NoCall EXCEPT !.at = "system", !.name = n]
      OBVIOUS
    <3>2. c = [at |-> "system", name |-> n, attempt |-> 0, port |-> None, id |-> None,
               alike |-> FALSE, reply |-> NoReply, result |-> "none"]
      BY <3>1 DEF NoCall
    <3>3. c \in CallType
      BY <1>1, <3>2 DEF CallType
    <3> QED
      BY <2>2, <3>1, <3>2, <3>3
  <2> QED
    BY <2>1, <2>2 DEF StartLookup
<1>3. /\ answers' = answers /\ answers[t] = {}
      /\ lookups[t] < size.lookups /\ lookups' = [lookups EXCEPT ![t] = @ + 1]
  BY NoneTaken DEF StartLookup, Open, At
<1>4. /\ lookups' \in [Threads -> 0..size.lookups] /\ lookups'[t] \in 1..size.lookups
      /\ \A u \in Threads \ {t} : lookups'[u] = lookups[u]
  BY <1>1, <1>3 DEF DnsInv, CallsInv
<1>5. /\ call' \in [Threads -> CallType] /\ call'[t] = c
      /\ \A u \in Threads \ {t} : call'[u] = call[u]
  BY <1>2 DEF DnsInv, CallsInv
<1>6. ASSUME NEW u \in Threads PROVE Asking(u)'
  <2>1. CASE u = t
    BY <1>1, <1>2, <1>3, <1>4, <1>5, <2>1 DEF Asking, Open, At
  <2>2. CASE u # t
    <3>1. Asking(u) /\ call'[u] = call[u] /\ lookups'[u] = lookups[u] /\ answers'[u] = answers[u]
      BY <1>3, <1>4, <1>5, <2>2 DEF DnsInv, CallsInv
    <3> QED
      BY <1>1, <3>1 DEF Asking, Open, At
  <2> QED
    BY <2>1, <2>2
<1> QED
  BY <1>1, <1>3, <1>4, <1>5, <1>6 DEF DnsInv, CallsInv

\* The datagram that is read: the reply, or one attempt less.
LEMMA ReceiveStep ==
    ASSUME DnsInv, [Next]_vars, NEW t \in Threads, Receive(t) PROVE CallsInv'
<1>1. PICK r \in answers[t] :
          IF r.id = call[t].id
          THEN /\ call' = [call EXCEPT ![t].at = "parse", ![t].reply = r]
               /\ answers' = [answers EXCEPT ![t] = {}]
          ELSE /\ Goes(t, "send")
               /\ answers' = [answers EXCEPT ![t] = @ \ {r}]
  BY DEF Receive
<1>2. At(t, "poll") /\ ~At(t, "out") /\ lookups' = lookups
  BY DEF Receive, At
<1>3. r \in AnswerType /\ call[t] \in CallType
  BY DEF DnsInv, CallsInv
<1>4. CASE r.id = call[t].id
  <2>1. PICK c : c = [call[t] EXCEPT !.at = "parse", !.reply = r]
    OBVIOUS
  <2>2. c = [at |-> "parse", name |-> call[t].name, attempt |-> call[t].attempt,
             port |-> call[t].port, id |-> call[t].id, alike |-> call[t].alike, reply |-> r,
             result |-> call[t].result]
    BY <1>3, <2>1 DEF CallType
  <2>3. c \in CallType
    BY <1>3, <2>2 DEF CallType
  <2>4. c.at = "parse" /\ c.reply \in AnswerType
    BY <1>3, <2>2
  <2>5. call' = [call EXCEPT ![t] = c] /\ answers' = [answers EXCEPT ![t] = {}]
    BY <1>1, <1>4, <2>1
  <2> QED
    BY <1>2, <2>3, <2>4, <2>5, NoneTaken, CallStep
<1>5. CASE r.id # call[t].id
  <2>1. PICK rest \in SUBSET answers[t] : rest = answers[t] \ {r}
    OBVIOUS
  <2>2. answers' = [answers EXCEPT ![t] = rest] /\ Goes(t, "send")
    BY <1>1, <1>5, <2>1
  <2> QED
    BY <1>2, <2>2, GoesStep
<1> QED
  BY <1>4, <1>5

\* A datagram back, to the thread that has the port open.
LEMMA DeliverStep ==
    ASSUME DnsInv, [Next]_vars, NEW port, NEW r \in AnswerType, Deliver(port, r),
           call' = call, lookups' = lookups
    PROVE  CallsInv'
<1>1. size' = size /\ CallType' = CallType /\ AnswerType' = AnswerType
  BY SizeStays
<1>2. answers' \in [Threads -> SUBSET AnswerType]
  BY DEF Deliver, DnsInv, CallsInv
<1>3. ASSUME NEW u \in Threads PROVE Asking(u)'
  <2>1. Asking(u) /\ (answers'[u] = answers[u] \/ Open(u))
    BY DEF Deliver, DnsInv, CallsInv
  <2> QED
    BY <1>1, <2>1 DEF Asking, Open, At
<1> QED
  BY <1>1, <1>2, <1>3 DEF DnsInv, CallsInv

\* What the forwarder sends.
LEMMA AnswerRecord ==
    ASSUME DnsInv, NEW w \in Workers, Answer(w)
    PROVE  \E q \in Questions, r \in AnswerType :
               /\ r.id = q.id /\ r.from = q.from /\ r.number = q.number
               /\ Deliver(q.port, r) \/ answers' = answers
<1> DEFINE q == work[w].query
           r == [kind |-> work[w].kind, id |-> q.id, from |-> q.from, number |-> q.number]
<1>1. q \in QueryType /\ work[w].kind \in Kinds /\ work[w].at # "idle"
  BY DEF Answer, DnsInv, ForwarderInv, Working, WorkType
<1>2. r \in AnswerType
  BY <1>1 DEF QueryType, AnswerType
<1>3. q \in Questions
  BY <1>1 DEF Questions
<1>4. Deliver(q.port, r) \/ answers' = answers
  BY DEF Answer
<1>5. r.id = q.id /\ r.from = q.from /\ r.number = q.number
  OBVIOUS
<1> HIDE DEF q, r
<1> QED
  BY <1>2, <1>3, <1>4, <1>5

\* The threads and the answers they read.
LEMMA CallsStepInv == DnsInv /\ [Next]_vars => CallsInv'
<1> SUFFICES ASSUME DnsInv, [Next]_vars PROVE CallsInv'
  OBVIOUS
<1> USE DEF At
<1>1. /\ size' = size /\ CallType' = CallType /\ AnswerType' = AnswerType
      /\ size.lookups \in Nat /\ size.attempts \in Nat
  BY SizeStays, SizeType DEF DnsInv, RestInv
<1>2. ASSUME call' = call, answers' = answers, lookups' = lookups PROVE CallsInv'
  BY <1>1, <1>2 DEF DnsInv, CallsInv, Asking, Open
<1>3. ASSUME NEW t \in Threads, Send(t) PROVE CallsInv'
  <2>1. CASE /\ call[t].attempt < size.attempts /\ answers' = answers
             /\ call' = [call EXCEPT ![t].at = "poll", ![t].attempt = @ + 1]
    <3>1. /\ call[t] \in CallType /\ call[t].name \in Names /\ call[t].at = "send"
          /\ call[t].port \in Ports /\ call[t].id \in Ids /\ lookups' = lookups
      BY <1>3 DEF Send, DnsInv, CallsInv, Asking, Open
    <3>2. PICK c : c = [call[t] EXCEPT !.at = "poll", !.attempt = @ + 1]
      OBVIOUS
    <3>3. c = [at |-> "poll", name |-> call[t].name, attempt |-> call[t].attempt + 1,
               port |-> call[t].port, id |-> call[t].id, alike |-> call[t].alike,
               reply |-> call[t].reply, result |-> call[t].result]
      BY <3>1, <3>2 DEF CallType
    <3>4. call[t].attempt + 1 \in 0..size.attempts
      BY <1>1, <2>1, <3>1 DEF CallType
    <3>5. c \in CallType
      BY <3>1, <3>3, <3>4 DEF CallType
    <3>6. c.at = "poll" /\ c.name \in Names /\ c.port \in Ports /\ c.id \in Ids
      BY <3>1, <3>3
    <3>7. call' = [call EXCEPT ![t] = c]
      BY <2>1, <3>2
    <3>8. answers' = [answers EXCEPT ![t] = answers[t]]
      BY <2>1, NoneTaken
    <3> QED
      BY <3>1, <3>5, <3>6, <3>7, <3>8, NoneTaken, CallStep
  <2>2. CASE GiveUp(t)
    <3>1. At(t, "send") /\ lookups' = lookups
      BY <1>3 DEF Send
    <3>2. Goes(t, "system") /\ answers' = [answers EXCEPT ![t] = {}]
      BY <2>2 DEF GiveUp
    <3> QED
      BY <3>1, <3>2, NoneTaken, GoesStep
  <2> QED
    BY <1>3, <2>1, <2>2 DEF Send
<1>4. ASSUME NEW t \in Threads, PollTimesOut(t) PROVE CallsInv'
  <2>1. At(t, "poll") /\ Goes(t, "send") /\ lookups' = lookups /\ answers' = answers
    BY <1>4 DEF PollTimesOut
  <2> QED
    BY <2>1, NoneTaken, GoesStep
<1>5. ASSUME NEW t \in Threads, Reply(t) PROVE CallsInv'
  <2>1. /\ call[t].at = "parse" /\ lookups' = lookups /\ answers' = answers
        /\ Goes(t, "build") \/ Ends(t, "noname") \/ Goes(t, "system")
    BY <1>5 DEF Reply
  <2> QED
    BY <2>1, PastSocket, EndsStep DEF Open
<1>6. ASSUME NEW t \in Threads, MakeList(t) PROVE CallsInv'
  BY <1>6, PastSocket DEF MakeList, Open
<1>7. ASSUME NEW t \in Threads, RememberList(t) PROVE CallsInv'
  BY <1>2, <1>7, EndsStep DEF RememberList, Open
<1>8. ASSUME NEW t \in Threads, LockSystem(t) PROVE CallsInv'
  BY <1>8, PastSocket DEF LockSystem, Open
<1>9. ASSUME NEW t \in Threads, SystemAnswers(t) PROVE CallsInv'
  BY <1>9, EndsStep DEF SystemAnswers, Open
<1>10. ASSUME NEW w \in Workers, Answer(w) PROVE CallsInv'
  <2>1. call' = call /\ lookups' = lookups
    BY <1>10 DEF Answer
  <2> QED
    BY <1>2, <1>10, <2>1, AnswerRecord, DeliverStep
<1>11. CASE \/ Serve \/ ServeEnds \/ Stop \/ Tick \/ UNCHANGED vars
            \/ \E t \in Threads : FreeList(t)
            \/ \E w \in Workers : Consult(w) \/ Resolve(w) \/ Store(w)
  BY <1>2, <1>11 DEF Serve, ServeEnds, Stop, Tick, vars, dnsVars, FreeList, Consult, Resolve, Store
<1>12. size.workers \subseteq Workers
  BY DnsAssumption DEF DnsInv, RestInv, Size
<1> QED
  BY <1>3, <1>4, <1>5, <1>6, <1>7, <1>8, <1>9, <1>10, <1>11, <1>12, StartStep, ReceiveStep
     DEF Next, Lookup, Forwarder
------------------------------------------------------------------------------
(* Whose answer a lookup takes. *)

\* Steps that open no socket, send nothing, deliver nothing and take no reply.
LEMMA QuietMatch ==
    ASSUME MatchInv, Questions' \subseteq Questions, lookups' = lookups,
           \A u \in Threads : Open(u)' => /\ Open(u) /\ answers'[u] \subseteq answers[u]
                                          /\ call'[u].port = call[u].port /\ call'[u].id = call[u].id
                                          /\ call'[u].alike = call[u].alike,
           \A u \in Threads : At(u, "parse")' => call'[u] = call[u]
    PROVE  MatchInv'
<1>1. Apart'
  BY DEF MatchInv, Apart
<1>2. ASSUME NEW u \in Threads PROVE Matched(u)'
  <2>1. Matched(u)
    BY DEF MatchInv
  <2>2. CASE At(u, "parse")'
    <3>1. At(u, "parse") /\ call'[u] = call[u] /\ ~Open(u)'
      BY <2>2 DEF At, Open
    <3> QED
      BY <2>1, <3>1 DEF Matched, Own
  <2>3. CASE Open(u)' /\ ~At(u, "parse")'
    BY <2>1, <2>3 DEF Matched, Own
  <2>4. CASE ~Open(u)' /\ ~At(u, "parse")'
    BY <2>4 DEF Matched
  <2> QED
    BY <2>2, <2>3, <2>4
<1> QED
  BY <1>1, <1>2 DEF MatchInv

\* A thread that moves on, out of its socket or back to its next attempt.
LEMMA QuietCall ==
    ASSUME DnsInv, NEW t \in Threads, NEW c, call' = [call EXCEPT ![t] = c],
           UNCHANGED <<inbox, tasks, work, lookups>>, c.at # "parse",
           NEW rest \in SUBSET answers[t], answers' = [answers EXCEPT ![t] = rest],
           c.at \in {"send", "poll"} => /\ Open(t) /\ c.port = call[t].port /\ c.id = call[t].id
                                        /\ c.alike = call[t].alike
    PROVE  MatchInv'
<1>1. Questions' = Questions
  BY DEF Questions
<1>2. call'[t] = c /\ \A u \in Threads \ {t} : call'[u] = call[u]
  BY DEF DnsInv, CallsInv
<1>3. answers'[t] \subseteq answers[t] /\ \A u \in Threads \ {t} : answers'[u] = answers[u]
  BY DEF DnsInv, CallsInv
<1>4. ASSUME NEW u \in Threads
      PROVE  /\ Open(u)' => /\ Open(u) /\ answers'[u] \subseteq answers[u]
                            /\ call'[u].port = call[u].port /\ call'[u].id = call[u].id
                            /\ call'[u].alike = call[u].alike
             /\ At(u, "parse")' => call'[u] = call[u]
  <2>1. CASE u = t
    BY <1>2, <1>3, <2>1 DEF Open, At
  <2>2. CASE u # t
    BY <1>2, <1>3, <2>2 DEF Open, At
  <2> QED
    BY <2>1, <2>2
<1>5. MatchInv
  BY DEF DnsInv
<1> QED
  BY <1>1, <1>4, <1>5, QuietMatch

LEMMA QuietGoes ==
    ASSUME DnsInv, NEW t \in Threads, NEW step, Goes(t, step), step # "parse", step # "poll",
           step = "send" => Open(t), UNCHANGED <<inbox, tasks, work, lookups>>,
           NEW rest \in SUBSET answers[t], answers' = [answers EXCEPT ![t] = rest]
    PROVE  MatchInv'
<1>1. PICK c : c = [call[t] EXCEPT !.at = step]
  OBVIOUS
<1>2. call[t] \in CallType
  BY DEF DnsInv, CallsInv
<1>3. c.at = step /\ c.port = call[t].port /\ c.id = call[t].id /\ c.alike = call[t].alike
  BY <1>1, <1>2 DEF CallType
<1>4. call' = [call EXCEPT ![t] = c]
  BY <1>1 DEF Goes
<1> QED
  BY <1>3, <1>4, QuietCall

LEMMA QuietEnds ==
    ASSUME DnsInv, NEW t \in Threads, NEW result, Ends(t, result),
           UNCHANGED <<inbox, tasks, work, lookups, answers>>
    PROVE  MatchInv'
<1>1. PICK c : c = [NoCall EXCEPT !.result = result]
  OBVIOUS
<1>2. c.at = "out"
  BY <1>1 DEF NoCall
<1>3. call' = [call EXCEPT ![t] = c]
  BY <1>1 DEF Ends
<1> QED
  BY <1>2, <1>3, QuietCall, NoneTaken

\* A new socket hears of earlier lookups only what was under way to its port; of
\* another open socket's lookup nothing changes.
LEMMA StartMatch ==
    ASSUME DnsInv, NEW t \in Threads, StartLookup(t) PROVE MatchInv'
<1>1. /\ At(t, "out") /\ answers' = answers /\ answers[t] = {} /\ Questions' = Questions
      /\ UNCHANGED <<inbox, tasks, work>>
      /\ \A u \in Threads \ {t} : lookups'[u] = lookups[u]
  BY NoneTaken DEF StartLookup, forwarderVars, Questions, Open, At, DnsInv, CallsInv
<1>2. ASSUME NEW n \in Names, Opens(t, n) PROVE MatchInv'
  <2>1. PICK port \in size.ports, id \in size.ids :
            /\ \A u \in Threads : Open(u) => call[u].port # port
            /\ call' = [call EXCEPT ![t] = [NoCall EXCEPT !.at = "send", !.name = n, !.port = port,
                                                       !.id = id, !.alike = UnderWay(port, id)]]
    BY <1>2 DEF Opens
  <2>2. PICK c : c = [NoCall EXCEPT !.at = "send", !.name = n, !.port = port, !.id = id,
                                    !.alike = UnderWay(port, id)]
    OBVIOUS
  <2>3. c.at = "send" /\ c.port = port /\ c.id = id
    BY <2>2 DEF NoCall
  <2>4. c.alike = UnderWay(port, id)
    BY <2>2 DEF NoCall
  <2>5. call'[t] = c /\ \A u \in Threads \ {t} : call'[u] = call[u]
    BY <2>1, <2>2 DEF DnsInv, CallsInv
  <2>6. Apart'
    BY <2>1, <2>3, <2>5 DEF DnsInv, MatchInv, Apart, Open, At
  <2>7. ASSUME NEW u \in Threads PROVE Matched(u)'
    <3>1. CASE u = t
      <4>1. ~UnderWay(port, id) =>
                \A q \in Questions' : ~(q.port = port /\ q.id = id)
        BY <1>1 DEF UnderWay
      <4>2. ~At(t, "parse")' /\ answers'[t] = {}
        BY <1>1, <2>3, <2>5 DEF At
      <4>3. ~call'[t].alike => ~UnderWay(port, id)
        BY <2>4, <2>5, Zenon
      <4> QED
        BY <2>3, <2>5, <3>1, <4>1, <4>2, <4>3 DEF Matched
    <3>2. CASE u # t
      <4>1. /\ Matched(u) /\ call'[u] = call[u] /\ lookups'[u] = lookups[u]
            /\ answers'[u] = answers[u]
        BY <1>1, <2>5, <3>2 DEF DnsInv, MatchInv
      <4> QED
        BY <1>1, <4>1 DEF Matched, Own, Open, At
    <3> QED
      BY <3>1, <3>2
  <2> QED
    BY <2>6, <2>7 DEF MatchInv
<1>3. ASSUME NEW n \in Names,
             call' = [call EXCEPT ![t] = [NoCall EXCEPT !.at = "system", !.name = n]]
      PROVE  MatchInv'
  <2>1. PICK c : c = [NoCall EXCEPT !.at = "system", !.name = n]
    OBVIOUS
  <2>2. c.at = "system"
    BY <2>1 DEF NoCall
  <2>3. call'[t] = c /\ \A u \in Threads \ {t} : call'[u] = call[u]
    BY <1>3, <2>1 DEF DnsInv, CallsInv
  <2>4. Apart'
    BY <2>2, <2>3 DEF DnsInv, MatchInv, Apart, Open, At
  <2>5. ASSUME NEW u \in Threads PROVE Matched(u)'
    <3>1. CASE u = t
      BY <2>2, <2>3, <3>1 DEF Matched, Open, At
    <3>2. CASE u # t
      <4>1. /\ Matched(u) /\ call'[u] = call[u] /\ lookups'[u] = lookups[u]
            /\ answers'[u] = answers[u]
        BY <1>1, <2>3, <3>2 DEF DnsInv, MatchInv
      <4> QED
        BY <1>1, <4>1 DEF Matched, Own, Open, At
    <3> QED
      BY <3>1, <3>2
  <2> QED
    BY <2>4, <2>5 DEF MatchInv
<1> QED
  BY <1>2, <1>3 DEF StartLookup

\* A query carries its own thread's port, which no other open socket has.
LEMMA SendMatch ==
    ASSUME DnsInv, NEW t \in Threads, Send(t) PROVE MatchInv'
<1>1. At(t, "send") /\ UNCHANGED <<lookups, tasks, work>>
  BY DEF Send, forwarderVars
<1>2. CASE /\ call' = [call EXCEPT ![t].at = "poll", ![t].attempt = @ + 1] /\ answers' = answers
           /\ inbox' \subseteq inbox \cup {Question(t)}
  <2>1. Questions' \subseteq Questions \cup {Question(t)}
    BY <1>1, <1>2 DEF Questions
  <2>2. call[t] \in CallType
    BY DEF DnsInv, CallsInv
  <2>3. /\ call'[t].at = "poll" /\ call'[t].port = call[t].port /\ call'[t].id = call[t].id
        /\ call'[t].alike = call[t].alike
        /\ \A u \in Threads \ {t} : call'[u] = call[u]
    BY <1>2, <2>2 DEF DnsInv, CallsInv, CallType
  <2>4. ASSUME NEW u \in Threads
        PROVE  /\ Open(u)' <=> Open(u)
               /\ At(u, "parse")' <=> At(u, "parse")
               /\ call'[u].port = call[u].port /\ call'[u].id = call[u].id
               /\ call'[u].alike = call[u].alike
               /\ At(u, "parse") => call'[u] = call[u]
    BY <1>1, <2>3 DEF Open, At
  <2>5. Apart'
    BY <2>4 DEF DnsInv, MatchInv, Apart
  <2>6. ASSUME NEW u \in Threads PROVE Matched(u)'
    <3>1. Matched(u) /\ Apart /\ Open(t)
      BY <1>1 DEF DnsInv, MatchInv, Open
    <3>2. Question(t).port = call[t].port /\ (u = t => Own(Question(t), u))
      BY DEF Question, Own
    <3>3. Open(u) /\ u # t => call[u].port # Question(t).port
      BY <3>1, <3>2 DEF Apart
    <3>4. (\A x : Own(x, u)' <=> Own(x, u)) /\ answers' = answers
      BY <1>1, <1>2 DEF Own
    <3>5. ASSUME ~call[u].alike, Open(u)
          PROVE  \A q \in Questions' : q.port = call[u].port /\ q.id = call[u].id => Own(q, u)
      BY <2>1, <3>1, <3>2, <3>3, <3>5 DEF Matched
    <3>6. ASSUME ~call[u].alike, Open(u)
          PROVE  \A r \in answers[u] : r.id = call[u].id => Own(r, u)
      BY <3>1, <3>6 DEF Matched
    <3>7. ASSUME ~call[u].alike, At(u, "parse") PROVE Own(call[u].reply, u)
      BY <3>1, <3>7 DEF Matched
    <3> SUFFICES ASSUME ~call'[u].alike
                 PROVE  /\ Open(u)' =>
                              /\ \A r \in answers'[u] : r.id = call'[u].id => Own(r, u)'
                              /\ \A q \in Questions' : q.port = call'[u].port /\ q.id = call'[u].id
                                                         => Own(q, u)'
                        /\ At(u, "parse")' => Own(call[u].reply, u)'
      BY Zenon DEF Matched
    <3>8. ~call[u].alike
      BY <2>4, Zenon
    <3>9. CASE Open(u)'
      <4>1. Open(u) /\ ~At(u, "parse")'
        BY <2>4, <3>9 DEF Open, At
      <4> QED
        BY <2>4, <3>4, <3>5, <3>6, <3>8, <4>1
    <3>10. CASE ~Open(u)'
      <4>1. ASSUME At(u, "parse")' PROVE Own(call[u].reply, u)'
        <5>1. At(u, "parse")
          BY <2>4, <4>1
        <5>2. call'[u] = call[u] /\ Own(call[u].reply, u)
          BY <2>4, <3>7, <3>8, <5>1
        <5> QED
          BY <3>4, <5>2
      <4> QED
        BY <3>10, <4>1
    <3> QED
      BY <3>9, <3>10
  <2> QED
    BY <2>5, <2>6 DEF MatchInv
<1>3. CASE GiveUp(t) /\ UNCHANGED inbox
  <2>1. Goes(t, "system") /\ answers' = [answers EXCEPT ![t] = {}]
    BY <1>3 DEF GiveUp
  <2> QED
    BY <1>1, <1>3, <2>1, NoneTaken, QuietGoes
<1> QED
  BY <1>2, <1>3 DEF Send

\* The reply is an answer with the query's id that came to the socket.
LEMMA ReceiveMatch ==
    ASSUME DnsInv, NEW t \in Threads, Receive(t) PROVE MatchInv'
<1>1. PICK r \in answers[t] :
          IF r.id = call[t].id
          THEN /\ call' = [call EXCEPT ![t].at = "parse", ![t].reply = r]
               /\ answers' = [answers EXCEPT ![t] = {}]
          ELSE /\ Goes(t, "send")
               /\ answers' = [answers EXCEPT ![t] = @ \ {r}]
  BY DEF Receive
<1>2. At(t, "poll") /\ Open(t) /\ UNCHANGED <<inbox, tasks, work, lookups>>
  BY DEF Receive, forwarderVars, Open
<1>3. CASE r.id # call[t].id
  <2>1. PICK rest \in SUBSET answers[t] : rest = answers[t] \ {r}
    OBVIOUS
  <2>2. answers' = [answers EXCEPT ![t] = rest] /\ Goes(t, "send")
    BY <1>1, <1>3, <2>1
  <2> QED
    BY <1>2, <2>2, QuietGoes
<1>4. CASE r.id = call[t].id
  <2>1. call[t] \in CallType
    BY DEF DnsInv, CallsInv
  <2>2. /\ call'[t].at = "parse" /\ call'[t].alike = call[t].alike /\ call'[t].reply = r
        /\ \A u \in Threads \ {t} : call'[u] = call[u] /\ answers'[u] = answers[u]
    BY <1>1, <1>4, <2>1 DEF DnsInv, CallsInv, CallType
  <2>3. Questions' = Questions
    BY <1>2 DEF Questions
  <2>4. Apart'
    BY <2>2 DEF DnsInv, MatchInv, Apart, Open, At
  <2>5. ASSUME NEW u \in Threads PROVE Matched(u)'
    <3>1. Matched(u) /\ lookups' = lookups
      BY <1>2 DEF DnsInv, MatchInv
    <3>2. CASE u = t
      <4>1. ~call[t].alike => Own(r, t)
        BY <1>2, <1>4, <3>1, <3>2 DEF Matched
      <4>2. ~Open(t)'
        BY <2>2 DEF Open, At
      <4> QED
        BY <2>2, <3>1, <3>2, <4>1, <4>2 DEF Matched, Own
    <3>3. CASE u # t
      BY <2>2, <2>3, <3>1, <3>3 DEF Matched, Own, Open, At
    <3> QED
      BY <3>2, <3>3
  <2> QED
    BY <2>4, <2>5 DEF MatchInv
<1> QED
  BY <1>3, <1>4

\* An answer carries its query's id to its query's port.
LEMMA AnswerMatch ==
    ASSUME DnsInv, NEW w \in Workers, Answer(w) PROVE MatchInv'
<1>1. PICK q \in Questions, r \in AnswerType :
          /\ r.id = q.id /\ r.from = q.from /\ r.number = q.number
          /\ Deliver(q.port, r) \/ answers' = answers
  BY AnswerRecord
<1>2. call' = call /\ lookups' = lookups /\ work' = [work EXCEPT ![w] = NoWork]
      /\ inbox' = inbox /\ tasks' = tasks
  BY DEF Answer
<1>3. Questions' \subseteq Questions
  <2>1. \A v \in Workers : work'[v].at # "idle" => work'[v] = work[v]
    BY <1>2 DEF NoWork, DnsInv, ForwarderInv
  <2> QED
    BY <1>2, <2>1 DEF Questions
<1>4. Apart'
  BY <1>2 DEF DnsInv, MatchInv, Apart, Open, At
<1>5. ASSUME NEW u \in Threads PROVE Matched(u)'
  <2>1. Matched(u) /\ (Open(u)' <=> Open(u)) /\ (At(u, "parse")' <=> At(u, "parse"))
    BY <1>2 DEF DnsInv, MatchInv, Open, At
  <2>2. (\A x : Own(x, u)' <=> Own(x, u)) /\ (Own(q, u) => Own(r, u))
    BY <1>1, <1>2 DEF Own
  <2>3. \A x \in answers'[u] : x \in answers[u] \/ (x = r /\ Open(u) /\ call[u].port = q.port)
    BY <1>1 DEF Deliver
  <2>4. ASSUME ~call[u].alike, Open(u)
        PROVE  /\ \A x \in answers'[u] : x.id = call[u].id => Own(x, u)
               /\ \A x \in Questions' : x.port = call[u].port /\ x.id = call[u].id => Own(x, u)
    BY <1>1, <1>3, <2>1, <2>2, <2>3, <2>4 DEF Matched
  <2>5. ASSUME ~call[u].alike, At(u, "parse") PROVE Own(call[u].reply, u)
    BY <2>1, <2>5 DEF Matched
  <2> QED
    BY <1>2, <2>1, <2>2, <2>4, <2>5 DEF Matched
<1> QED
  BY <1>4, <1>5 DEF MatchInv

\* Every step keeps that answers match their questions.
LEMMA MatchStepInv == DnsInv /\ [Next]_vars => MatchInv'
<1> SUFFICES ASSUME DnsInv, [Next]_vars PROVE MatchInv'
  OBVIOUS
<1>1. ASSUME NEW t \in Threads, PollTimesOut(t) PROVE MatchInv'
  <2>1. /\ Open(t) /\ Goes(t, "send") /\ UNCHANGED <<inbox, tasks, work, lookups>>
        /\ answers' = answers
    BY <1>1 DEF PollTimesOut, forwarderVars, Open
  <2> QED
    BY <2>1, NoneTaken, QuietGoes
<1>2. ASSUME NEW t \in Threads, Reply(t) \/ MakeList(t) \/ LockSystem(t) PROVE MatchInv'
  <2>1. /\ UNCHANGED <<inbox, tasks, work, lookups, answers>>
        /\ Ends(t, "noname") \/ \E step \in {"build", "system", "remember", "asking"} : Goes(t, step)
    BY <1>2 DEF Reply, MakeList, LockSystem, forwarderVars
  <2>2. ASSUME NEW step \in {"build", "system", "remember", "asking"}, Goes(t, step)
        PROVE  MatchInv'
    <3>1. step # "send" /\ step # "poll" /\ step # "parse"
      OBVIOUS
    <3> QED
      BY <2>1, <2>2, <3>1, NoneTaken, QuietGoes
  <2> QED
    BY <2>1, <2>2, QuietEnds
<1>3. ASSUME call' = call, answers' = answers, lookups' = lookups, Questions' \subseteq Questions
      PROVE  MatchInv'
  BY <1>3, QuietMatch DEF DnsInv, Open, At
<1>4. ASSUME NEW t \in Threads, RememberList(t) \/ SystemAnswers(t) \/ FreeList(t) PROVE MatchInv'
  <2>1. /\ UNCHANGED <<inbox, tasks, work, lookups, answers>>
        /\ call' = call \/ \E result \in {"found", "failed"} : Ends(t, result)
    BY <1>4 DEF RememberList, SystemAnswers, FreeList, dnsVars, forwarderVars
  <2>2. Questions' = Questions
    BY <2>1 DEF Questions
  <2> QED
    BY <1>3, <2>1, <2>2, QuietEnds
<1>5. CASE Serve \/ ServeEnds \/ Stop \/ Tick \/ UNCHANGED vars
  <2>1. call' = call /\ answers' = answers /\ lookups' = lookups /\ work' = work
    BY <1>5 DEF Serve, ServeEnds, Stop, Tick, vars, dnsVars, forwarderVars
  <2>2. inbox' \cup tasks' \subseteq inbox \cup tasks
    BY <1>5 DEF Serve, ServeEnds, Stop, Tick, vars, dnsVars, forwarderVars
  <2>3. Questions' \subseteq Questions
    BY <2>1, <2>2 DEF Questions
  <2> QED
    BY <1>3, <2>1, <2>3
<1>6. ASSUME NEW w \in Workers, Consult(w) \/ Resolve(w) \/ Store(w) PROVE MatchInv'
  <2>1. call' = call /\ answers' = answers /\ lookups' = lookups /\ inbox' = inbox
    BY <1>6 DEF Consult, Resolve, Store
  <2>2. /\ tasks' \subseteq tasks
        /\ \A v \in Workers \ {w} : work'[v] = work[v]
        /\ work'[w].at # "idle" =>
               work'[w].query \in tasks \/ (work[w].at # "idle" /\ work'[w].query = work[w].query)
    <3>1. work \in [Workers -> WorkType] /\ work[w] \in WorkType
      BY DEF DnsInv, ForwarderInv
    <3>2. CASE Consult(w)
      BY <3>1, <3>2 DEF Consult
    <3>3. CASE Resolve(w)
      <4>1. tasks' = tasks /\ work[w].at # "idle"
        BY <3>3 DEF Resolve
      <4>2. CASE work' = [work EXCEPT ![w] = NoWork]
        BY <3>1, <4>1, <4>2 DEF NoWork
      <4>3. CASE \E answer \in Upstream :
                work' = [work EXCEPT ![w].at = "store", ![w].kind = answer.kind,
                                     ![w].life = Kept(answer.life),
                                     ![w].until = clock + Kept(answer.life)]
        <5>1. PICK answer \in Upstream :
                work' = [work EXCEPT ![w].at = "store", ![w].kind = answer.kind,
                                     ![w].life = Kept(answer.life),
                                     ![w].until = clock + Kept(answer.life)]
          BY <4>3
        <5>2. \A v \in Workers \ {w} : work'[v] = work[v]
          BY <3>1, <5>1
        <5>3. work'[w].query = work[w].query
          BY <3>1, <5>1 DEF WorkType
        <5> QED
          BY <4>1, <5>2, <5>3
      <4> QED
        BY <3>3, <4>2, <4>3 DEF Resolve
    <3>4. CASE Store(w)
      BY <3>1, <3>4 DEF Store, WorkType
    <3> QED
      BY <1>6, <3>2, <3>3, <3>4
  <2>3. Questions' \subseteq Questions
    BY <2>1, <2>2 DEF Questions
  <2> QED
    BY <1>3, <2>1, <2>3
<1>7. size.workers \subseteq Workers
  BY DnsAssumption DEF DnsInv, RestInv, Size
<1> QED
  BY <1>1, <1>2, <1>4, <1>5, <1>6, <1>7, StartMatch, SendMatch, ReceiveMatch, AnswerMatch
     DEF Next, Lookup, Forwarder

\* A worker's own step.
LEMMA WorkStep ==
    ASSUME DnsInv, [Next]_vars, NEW w \in Workers, NEW r \in WorkType,
           work' = [work EXCEPT ![w] = r], inbox' = inbox, tasks' \subseteq tasks, clock' = clock,
           r.at # "idle" => r.query \in QueryType,
           r.at = "resolve" => r.now <= clock,
           r.at = "store" => r.life > 0 /\ r.now + r.life <= r.until,
           r.at = "reply" => r.now < r.until,
           cache' \in [Names -> [expires : Nat, kind : Kinds, until : Nat]],
           \A n \in Names : cache'[n].expires <= cache'[n].until
    PROVE  ForwarderInv'
<1>1. size' = size /\ QueryType' = QueryType /\ WorkType' = WorkType
  BY SizeStays
<1>2. /\ work' \in [Workers -> WorkType] /\ work'[w] = r
      /\ \A v \in Workers \ {w} : work'[v] = work[v]
  BY DEF DnsInv, ForwarderInv
<1>3. ASSUME NEW v \in Workers PROVE Working(v)'
  BY <1>1, <1>2 DEF DnsInv, ForwarderInv, Working
<1> QED
  BY <1>1, <1>2, <1>3 DEF DnsInv, ForwarderInv

\* What the forwarder keeps, and when it may have been said.
LEMMA ForwarderStepInv == DnsInv /\ [Next]_vars => ForwarderInv'
<1> SUFFICES ASSUME DnsInv, [Next]_vars PROVE ForwarderInv'
  OBVIOUS
<1>1. /\ size' = size /\ QueryType' = QueryType /\ WorkType' = WorkType
      /\ size.lookups \in Nat /\ size.time \in Nat /\ clock \in Nat
  BY SizeStays, SizeType DEF DnsInv, RestInv, ForwarderInv
<1>2. ASSUME work' = work, cache' = cache, clock' = clock, inbox' \subseteq QueryType,
             tasks' \subseteq QueryType
      PROVE  ForwarderInv'
  BY <1>1, <1>2 DEF DnsInv, ForwarderInv, Working
<1>3. inbox \subseteq QueryType /\ tasks \subseteq QueryType
  BY DEF DnsInv, ForwarderInv
<1>4. ASSUME NEW t \in Threads, Send(t) PROVE ForwarderInv'
  <2>1. PICK q : q = Question(t)
    OBVIOUS
  <2>2. q \in QueryType
    BY <1>1, <1>4, <2>1 DEF Send, At, Open, DnsInv, CallsInv, Asking, QueryType, Question
  <2>3. inbox' \in {inbox, inbox \cup {q}} /\ UNCHANGED <<work, cache, clock, tasks>>
    BY <1>4, <2>1 DEF Send, forwarderVars
  <2> QED
    BY <1>2, <1>3, <2>2, <2>3
<1>5. ASSUME NEW t \in Threads,
             StartLookup(t) \/ PollTimesOut(t) \/ Receive(t) \/ Reply(t) \/ MakeList(t)
                 \/ RememberList(t) \/ LockSystem(t) \/ SystemAnswers(t) \/ FreeList(t)
      PROVE  ForwarderInv'
  BY <1>2, <1>3, <1>5 DEF StartLookup, PollTimesOut, Receive, Reply, MakeList, RememberList, LockSystem,
     SystemAnswers, FreeList, dnsVars, forwarderVars
<1>6. CASE Serve \/ ServeEnds \/ Stop \/ UNCHANGED vars
  BY <1>2, <1>3, <1>6 DEF Serve, ServeEnds, Stop, vars, dnsVars, forwarderVars
<1>7. CASE Tick
  <2>1. clock' = clock + 1 /\ clock' \in 0..size.time /\ UNCHANGED <<inbox, tasks, work, cache>>
    BY <1>1, <1>7 DEF Tick, forwarderVars
  <2>2. ASSUME NEW w \in Workers PROVE Working(w)'
    BY <1>1, <2>1 DEF DnsInv, ForwarderInv, Working, WorkType
  <2> QED
    BY <1>1, <2>1, <2>2 DEF DnsInv, ForwarderInv
<1>8. ASSUME NEW w \in Workers, Consult(w) PROVE ForwarderInv'
  <2>1. PICK q \in tasks :
            /\ work' = [work EXCEPT ![w] =
                   [at |-> IF cache[q.name].expires > clock THEN "reply" ELSE "resolve", query |-> q,
                    now |-> clock,
                    kind |-> IF cache[q.name].expires > clock THEN cache[q.name].kind ELSE "none",
                    life |-> 0,
                    until |-> IF cache[q.name].expires > clock THEN cache[q.name].until ELSE 0]]
            /\ tasks' = tasks \ {q} /\ inbox' = inbox /\ clock' = clock /\ cache' = cache
    BY <1>8 DEF Consult
  <2>2. q \in QueryType /\ q.name \in Names
    BY <1>3 DEF QueryType
  <2>3. /\ cache[q.name] \in [expires : Nat, kind : Kinds, until : Nat]
        /\ cache[q.name].expires <= cache[q.name].until
    BY <2>2 DEF DnsInv, ForwarderInv
  <2>4. CASE cache[q.name].expires > clock
    <3>1. PICK r : r = [at |-> "reply", query |-> q, now |-> clock, kind |-> cache[q.name].kind,
                        life |-> 0, until |-> cache[q.name].until]
      OBVIOUS
    <3>2. r \in WorkType /\ r.at = "reply" /\ r.query = q /\ r.now < r.until
      BY <1>1, <2>2, <2>3, <2>4, <3>1 DEF WorkType, DnsInv, ForwarderInv
    <3>3. work' = [work EXCEPT ![w] = r]
      BY <2>1, <2>4, <3>1
    <3> QED
      BY <2>1, <2>2, <3>2, <3>3, WorkStep DEF DnsInv, ForwarderInv
  <2>5. CASE ~(cache[q.name].expires > clock)
    <3>1. PICK r : r = [at |-> "resolve", query |-> q, now |-> clock, kind |-> "none", life |-> 0,
                        until |-> 0]
      OBVIOUS
    <3>2. r \in WorkType /\ r.at = "resolve" /\ r.query = q /\ r.now <= clock
      BY <1>1, <2>2, <3>1 DEF WorkType, Kinds, DnsInv, ForwarderInv
    <3>3. work' = [work EXCEPT ![w] = r]
      BY <2>1, <2>5, <3>1
    <3> QED
      BY <2>1, <2>2, <3>2, <3>3, WorkStep DEF DnsInv, ForwarderInv
  <2> QED
    BY <2>4, <2>5
<1>9. NoWork \in WorkType /\ NoWork.at = "idle"
  BY <1>1 DEF NoWork, WorkType, Kinds
<1>10. ASSUME NEW w \in Workers, Resolve(w) PROVE ForwarderInv'
  <2>1. CASE work' = [work EXCEPT ![w] = NoWork]
    BY <1>9, <1>10, <2>1, WorkStep DEF Resolve, DnsInv, ForwarderInv
  <2>2. CASE \E answer \in Upstream :
            work' = [work EXCEPT ![w].at = "store", ![w].kind = answer.kind,
                                 ![w].life = Kept(answer.life), ![w].until = clock + Kept(answer.life)]
    <3>1. PICK answer \in Upstream :
              work' = [work EXCEPT ![w].at = "store", ![w].kind = answer.kind,
                                   ![w].life = Kept(answer.life), ![w].until = clock + Kept(answer.life)]
      BY <2>2
    <3>2. answer.kind \in Kinds /\ Kept(answer.life) \in Nat /\ Kept(answer.life) > 0
      BY DnsAssumption DEF Kept, Kinds
    <3>3. PICK life : life = Kept(answer.life)
      OBVIOUS
    <3>4. PICK until : until = clock + life
      OBVIOUS
    <3>5. PICK r : r = [work[w] EXCEPT !.at = "store", !.kind = answer.kind, !.life = life,
                                       !.until = until]
      OBVIOUS
    <3>6. work[w] \in WorkType /\ work[w].query \in QueryType /\ work[w].now <= clock
      BY <1>10 DEF Resolve, DnsInv, ForwarderInv, Working
    <3>7. r = [at |-> "store", query |-> work[w].query, now |-> work[w].now, kind |-> answer.kind,
               life |-> life, until |-> until]
      BY <3>5, <3>6 DEF WorkType
    <3>8. r \in WorkType /\ r.now + r.life <= r.until /\ r.life > 0
      BY <1>1, <3>2, <3>3, <3>4, <3>6, <3>7 DEF WorkType
    <3>9. r.at = "store" /\ r.query \in QueryType
      BY <3>6, <3>7
    <3>10. work' = [work EXCEPT ![w] = r]
      BY <3>1, <3>3, <3>4, <3>5
    <3>11. inbox' = inbox /\ tasks' = tasks /\ clock' = clock /\ cache' = cache
      BY <1>10 DEF Resolve
    <3> QED
      BY <3>8, <3>9, <3>10, <3>11, WorkStep DEF DnsInv, ForwarderInv
  <2> QED
    BY <1>10, <2>1, <2>2 DEF Resolve
<1>11. ASSUME NEW w \in Workers, Store(w) PROVE ForwarderInv'
  <2>1. PICK r : /\ r = [work[w] EXCEPT !.at = "reply", !.life = 0]
                 /\ work' = [work EXCEPT ![w] = r]
    BY <1>11 DEF Store
  <2>2. /\ work[w] \in WorkType /\ work[w].query \in QueryType /\ work[w].life > 0
        /\ work[w].now + work[w].life <= work[w].until
    BY <1>11 DEF Store, DnsInv, ForwarderInv, Working
  <2>3. r = [at |-> "reply", query |-> work[w].query, now |-> work[w].now, kind |-> work[w].kind,
             life |-> 0, until |-> work[w].until]
    BY <2>1, <2>2 DEF WorkType
  <2>4. r \in WorkType /\ r.now < r.until
    BY <2>2, <2>3 DEF WorkType
  <2>5. /\ [expires |-> work[w].now + work[w].life, kind |-> work[w].kind, until |-> work[w].until]
               \in [expires : Nat, kind : Kinds, until : Nat]
        /\ work[w].query.name \in Names
    BY <2>2 DEF WorkType, QueryType
  <2>6. /\ cache' \in [Names -> [expires : Nat, kind : Kinds, until : Nat]]
        /\ \A n \in Names : cache'[n].expires <= cache'[n].until
    BY <1>11, <2>2, <2>5 DEF Store, DnsInv, ForwarderInv
  <2> QED
    BY <1>11, <2>1, <2>2, <2>3, <2>4, <2>6, WorkStep DEF Store
<1>12. ASSUME NEW w \in Workers, Answer(w) PROVE ForwarderInv'
  BY <1>9, <1>12, WorkStep DEF Answer, DnsInv, ForwarderInv
<1>13. size.workers \subseteq Workers
  BY DnsAssumption DEF DnsInv, RestInv, Size
<1> QED
  BY <1>4, <1>5, <1>6, <1>7, <1>8, <1>10, <1>11, <1>12, <1>13 DEF Next, Lookup, Forwarder

\* The lock and the forwarder's thread.
LEMMA RestStepInv == DnsInv /\ [Next]_vars => RestInv'
<1> SUFFICES ASSUME DnsInv, [Next]_vars PROVE RestInv'
  OBVIOUS
<1>1. size' = size
  BY SizeStays
<1>2. RestInv
  BY DEF DnsInv
<1>3. CASE UNCHANGED <<lock, server, running>>
  BY <1>1, <1>2, <1>3 DEF RestInv
<1>4. CASE \E t \in Threads : LockSystem(t) \/ SystemAnswers(t)
  <2>1. lock' \in Threads \cup {None} /\ UNCHANGED <<server, running>>
    BY <1>4 DEF LockSystem, SystemAnswers, forwarderVars
  <2> QED
    BY <1>1, <1>2, <2>1 DEF RestInv
<1>5. CASE Serve \/ ServeEnds \/ Stop
  <2>1. UNCHANGED lock /\ server' \in {server, "closed", "dead"}
    BY <1>5 DEF Serve, ServeEnds, Stop
  <2>2. running' \in {running, FALSE}
    BY <1>5 DEF Serve, ServeEnds, Stop
  <2> QED
    BY <1>1, <1>2, <2>1, <2>2 DEF RestInv
<1>6. ASSUME NEW t \in Threads, StartLookup(t) \/ Lookup(t) \/ FreeList(t)
      PROVE  RestInv'
  <2>1. CASE LockSystem(t) \/ SystemAnswers(t)
    BY <1>4, <2>1
  <2>2. CASE StartLookup(t) \/ Send(t) \/ PollTimesOut(t)
    BY <1>3, <2>2 DEF StartLookup, Send, PollTimesOut, forwarderVars
  <2>3. CASE Receive(t) \/ Reply(t) \/ MakeList(t)
    BY <1>3, <2>3 DEF Receive, Reply, MakeList, forwarderVars
  <2>4. CASE RememberList(t) \/ FreeList(t)
    BY <1>3, <2>4 DEF RememberList, FreeList, dnsVars, forwarderVars
  <2> QED
    BY <1>6, <2>1, <2>2, <2>3, <2>4 DEF Lookup
<1>7. ASSUME NEW w \in Workers, Consult(w) \/ Resolve(w) \/ Store(w) \/ Answer(w)
      PROVE  RestInv'
  BY <1>3, <1>7 DEF Consult, Resolve, Store, Answer
<1>8. CASE Tick \/ UNCHANGED vars
  BY <1>3, <1>8 DEF Tick, vars, dnsVars, forwarderVars
<1>9. size.workers \subseteq Workers
  BY <1>2, DnsAssumption DEF RestInv, Size
<1> QED
  BY <1>5, <1>6, <1>7, <1>8, <1>9 DEF Next, Forwarder

\* Every step keeps the invariant.
LEMMA DnsStepInv == DnsInv /\ [Next]_vars => DnsInv'
<1>1. DnsInv /\ [Next]_vars => ListsInv'
  BY DnsStepLists, ListsStepInv DEF DnsInv
<1> QED
  BY <1>1, CallsStepInv, MatchStepInv, ForwarderStepInv, RestStepInv DEF DnsInv

\* It says what the properties say.
LEMMA DnsInvImplies == DnsInv => TypeOK /\ AnswersTheQuestion /\ AnswerFresh
<1> SUFFICES ASSUME DnsInv PROVE TypeOK /\ AnswersTheQuestion /\ AnswerFresh
  OBVIOUS
<1>1. TypeOK
  BY DEF DnsInv, ListsInv, CallsInv, ForwarderInv, RestInv, TypeOK
<1>2. AnswersTheQuestion
  BY DEF DnsInv, MatchInv, Matched, Own, AnswersTheQuestion
<1>3. AnswerFresh
  BY DEF DnsInv, ForwarderInv, Working, AnswerFresh
<1> QED
  BY <1>1, <1>2, <1>3

\* The variables of the resolver and the forwarder keep their types.
THEOREM DnsTypeCorrect == Spec => []TypeOK
  BY DnsInitInv, DnsStepInv, DnsInvImplies, PTL DEF Spec

\* For any number of threads, ports and ids: a lookup takes the answer to its own
\* question, though another's comes to the port it was given, unless a query with
\* its port and its id was under way when it began.
THEOREM DnsAnswersTheQuestion == Spec => []AnswersTheQuestion
  BY DnsInitInv, DnsStepInv, DnsInvImplies, PTL DEF Spec

\* The cache answers with nothing that may no longer be kept, however many
\* workers resolve and store the same question side by side.
THEOREM DnsAnswerFresh == Spec => []AnswerFresh
  BY DnsInitInv, DnsStepInv, DnsInvImplies, PTL DEF Spec
==============================================================================
