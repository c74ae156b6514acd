--------------------------------- MODULE Dns ---------------------------------
(***************************************************************************)
(* Name lookups of the game: getaddrinfo asks the launcher's forwarder     *)
(* over a UDP socket of its own (dns_override.c) and goes to Darling's     *)
(* resolver when that gives nothing (libMacOBloxShims.m).  The forwarder   *)
(* (dns.py) has one thread that reads queries, a pool of workers that      *)
(* resolve them, and a cache; the launcher stops it when the game ends.    *)
(*                                                                         *)
(* Each lookup opens a socket of its own, and the system may give it the   *)
(* port of one closed before; its 16-bit id comes of the clock and may     *)
(* come again.  Queries and answers also carry the thread and the number   *)
(* of the lookup they belong to, which the code cannot see.  A datagram    *)
(* repeated before it was read counts once; a lost one is one nobody       *)
(* reads.  Time moves in ticks.                                            *)
(***************************************************************************)
EXTENDS AddrLists, FiniteSets

CONSTANTS
    Workers,      \* threads of the executor
    Names,        \* what is looked up
    Ports,        \* ports the system may give a socket
    Ids,          \* the ids of queries
    Requests,     \* the forms of getaddrinfo's arguments the game uses
    Upstream,     \* what the chosen server may say: a kind and a TTL, 0 without records
    MinLife, MaxLife,     \* the 30 and 600 seconds of _answer
    Sizes                 \* bounds that go together: see Size

\* The threads that look names up, how often each, with how many datagrams, the
\* workers of the pool, the ports and ids there are, the end of time, and whether
\* malloc has memory: one of Sizes is chosen at the start.
Size == [lookers : SUBSET Threads, lookups : Nat, attempts : Nat, workers : SUBSET Workers,
         ports : SUBSET Ports, ids : SUBSET Ids, time : Nat, memory : BOOLEAN]

ASSUME DnsAssumption ==
    /\ Sizes \subseteq Size
    /\ Upstream \subseteq [kind : {"addresses", "nxdomain", "other"}, life : Nat]
    /\ MinLife \in Nat \ {0} /\ MaxLife \in Nat /\ MinLife <= MaxLife
    /\ Requests \subseteq [node : {"none", "literal", "localhost", "name"},
                           service : {"none", "number", "named"}, family : {"any", "inet", "inet6"},
                           numericHost : BOOLEAN]

VARIABLES
    size,       \* the bounds
    call,       \* each thread's lookup
    lookups,    \* lookups begun by each thread
    lock,       \* macoblox_dns_lock
    inbox,      \* datagrams to the forwarder
    answers,    \* datagrams to each thread's socket
    server,     \* the forwarder's reading thread
    running,    \* its flag
    tasks,      \* queries the executor has not started
    work,       \* the workers
    cache,
    clock

forwarderVars == <<server, running, tasks, work, cache>>
dnsVars == <<size, call, lookups, lock, inbox, answers, forwarderVars, clock>>
vars == <<listVars, dnsVars>>

\* A question's thread and number, as observed; and so is `alike` in a call: when the
\* socket was opened, a query of an earlier lookup with its port and its id was still
\* under way.  In the workers and the cache, `until` is an observation: the time up
\* to which the server's answer may be kept.
NoReply == [kind |-> "none", id |-> None, from |-> None, number |-> 0]
NoCall == [at |-> "out", name |-> None, attempt |-> 0, port |-> None, id |-> None,
           alike |-> FALSE, reply |-> NoReply, result |-> "none"]
NoWork == [at |-> "idle", query |-> None, now |-> 0, kind |-> "none", life |-> 0, until |-> 0]
NoEntry == [expires |-> 0, kind |-> "none", until |-> 0]

Init ==
    /\ ListsInit /\ size \in Sizes
    /\ call = [t \in Threads |-> NoCall] /\ lookups = [t \in Threads |-> 0]
    /\ lock = None /\ inbox = {} /\ answers = [t \in Threads |-> {}]
    /\ server = "serving" /\ running = TRUE /\ tasks = {}
    /\ work = [w \in Workers |-> NoWork] /\ cache = [n \in Names |-> NoEntry]
    /\ clock = 0

At(t, step) == call[t].at = step
Goes(t, step) == call' = [call EXCEPT ![t].at = step]
Ends(t, result) == call' = [call EXCEPT ![t] = [NoCall EXCEPT !.result = result]]
------------------------------------------------------------------------------
(* macoblox_getaddrinfo and macoblox_dns_resolve *)

\* What the resolver takes on: names, with a numeric service or none, for IPv4.
Handled(r) ==
    /\ r.node = "name"
    /\ r.service # "named"
    /\ r.family # "inet6"
    /\ ~r.numericHost

\* The socket of a thread that sends and polls is open.
Open(t) == At(t, "send") \/ At(t, "poll")

\* Queries that may still be answered, and answers on their way to `port`.
Questions == inbox \cup tasks \cup {work[w].query : w \in {v \in Workers : work[v].at # "idle"}}
UnderWay(port, id) == \E q \in Questions : q.port = port /\ q.id = id

\* query_forwarder's id, and the socket of the lookup with a port of its own.
Opens(t, n) ==
    \E port \in size.ports, id \in size.ids :
        /\ \A u \in Threads : Open(u) => call[u].port # port
        /\ call' = [call EXCEPT ![t] = [NoCall EXCEPT !.at = "send", !.name = n, !.port = port,
                                             !.id = id, !.alike = UnderWay(port, id)]]

StartLookup(t) ==
    /\ t \in size.lookers /\ At(t, "out") /\ mem[t].at = "out" /\ lookups[t] < size.lookups
    /\ lookups' = [lookups EXCEPT ![t] = @ + 1]
    /\ \E r \in Requests, n \in Names :
           IF Handled(r) THEN Opens(t, n)
                         ELSE call' = [call EXCEPT ![t] = [NoCall EXCEPT !.at = "system", !.name = n]]
    /\ UNCHANGED <<listVars, size, lock, inbox, answers, forwarderVars, clock>>

\* query_forwarder ends with -1, its socket is closed: on to the system.
GiveUp(t) == Goes(t, "system") /\ answers' = [answers EXCEPT ![t] = {}]

Question(t) == [port |-> call[t].port, id |-> call[t].id, name |-> call[t].name,
                from |-> t, number |-> lookups[t]]

\* Mutant: one datagram more.
SendOnceMore(t) ==
    /\ At(t, "send")
    /\ call[t].attempt <= size.attempts
    /\ call' = [call EXCEPT ![t].at = "poll", ![t].attempt = @ + 1]
    /\ UNCHANGED <<listVars, size, lookups, lock, inbox, answers, forwarderVars, clock>>

\* A send to a closed port fails by the second one; nobody reads a dead one.
\* Without a forwarder's address, a socket or a name that fits there is none.
Send(t) ==
    /\ At(t, "send")
    /\ \/ /\ call[t].attempt < size.attempts
          /\ call' = [call EXCEPT ![t].at = "poll", ![t].attempt = @ + 1]
          /\ inbox' = IF server = "closed" THEN inbox
                      ELSE inbox \cup {Question(t)}
          /\ UNCHANGED answers
       \/ /\ call[t].attempt \in {0, size.attempts} \/ server = "closed"
          /\ GiveUp(t) /\ UNCHANGED inbox
    /\ UNCHANGED <<listVars, size, lookups, lock, forwarderVars, clock>>

\* The 2.5 seconds are over, or what is read is an error or too short.
PollTimesOut(t) ==
    /\ At(t, "poll")
    /\ Goes(t, "send")
    /\ UNCHANGED <<listVars, size, lookups, lock, inbox, answers, forwarderVars, clock>>

\* Mutant: whatever comes first is the reply.
ReceiveAny(t) ==
    /\ At(t, "poll")
    /\ \E r \in answers[t] :
           /\ call' = [call EXCEPT ![t].at = "parse", ![t].reply = r]
           /\ answers' = [answers EXCEPT ![t] = {}]
    /\ UNCHANGED <<listVars, size, lookups, lock, inbox, forwarderVars, clock>>

\* One datagram is read, in any order of arrival: one with the query's id is the
\* reply, and the socket is read no more; any other has used up the attempt.
Receive(t) ==
    /\ At(t, "poll")
    /\ \E r \in answers[t] :
           IF r.id = call[t].id
           THEN /\ call' = [call EXCEPT ![t].at = "parse", ![t].reply = r]
                /\ answers' = [answers EXCEPT ![t] = {}]
           ELSE /\ Goes(t, "send")
                /\ answers' = [answers EXCEPT ![t] = @ \ {r}]
    /\ UNCHANGED <<listVars, size, lookups, lock, inbox, forwarderVars, clock>>

\* The reply: addresses make a list, NXDOMAIN an error, anything else is left
\* to the system.
Reply(t) ==
    /\ At(t, "parse")
    /\ CASE call[t].reply.kind = "addresses" -> Goes(t, "build")
         [] call[t].reply.kind = "nxdomain"  -> Ends(t, "noname")
         [] OTHER                            -> Goes(t, "system")
    /\ UNCHANGED <<listVars, size, lookups, lock, inbox, answers, forwarderVars, clock>>

\* The list is built, or calloc has nothing.
MakeList(t) ==
    /\ At(t, "build")
    /\ \/ size.memory /\ Build(t) /\ Goes(t, "remember")
       \/ UNCHANGED listVars /\ Goes(t, "system")
    /\ UNCHANGED <<size, lookups, lock, inbox, answers, forwarderVars, clock>>

RememberList(t) ==
    /\ At(t, "remember")
    /\ Remember(t)
    /\ IF mem'[t].at = "out" THEN Ends(t, "found") ELSE UNCHANGED call
    /\ UNCHANGED <<size, lookups, lock, inbox, answers, forwarderVars, clock>>

\* Darling's resolver, one thread at a time, asked up to four times.
LockSystem(t) ==
    /\ At(t, "system") /\ lock = None
    /\ lock' = t /\ Goes(t, "asking")
    /\ UNCHANGED <<listVars, size, lookups, inbox, answers, forwarderVars, clock>>

\* Mutant: a failure returns with the lock.
SystemAnswersLocked(t) ==
    /\ At(t, "asking")
    /\ \/ size.memory /\ SystemList(t) /\ Ends(t, "found") /\ lock' = None
       \/ UNCHANGED listVars /\ Ends(t, "failed") /\ UNCHANGED lock
    /\ UNCHANGED <<size, lookups, inbox, answers, forwarderVars, clock>>

SystemAnswers(t) ==
    /\ At(t, "asking")
    /\ \/ size.memory /\ SystemList(t) /\ Ends(t, "found")
       \/ UNCHANGED listVars /\ Ends(t, "failed")
    /\ lock' = None
    /\ UNCHANGED <<size, lookups, inbox, answers, forwarderVars, clock>>

FreeList(t) ==
    /\ At(t, "out")
    /\ Free(t) \/ Release(t)
    /\ UNCHANGED dnsVars
------------------------------------------------------------------------------
(* DnsForwarder *)

\* _serve: a query read after stop finds the executor shut down, and the
\* exception ends the thread with its socket open.
Serve ==
    /\ server = "serving"
    /\ \E q \in inbox :
           /\ inbox' = inbox \ {q}
           /\ IF running THEN tasks' = tasks \cup {q} /\ UNCHANGED server
                         ELSE server' = "dead" /\ UNCHANGED tasks
    /\ UNCHANGED <<listVars, size, call, lookups, lock, answers, running, work, cache, clock>>

\* Its half second without a query is over and it sees the flag.
ServeEnds ==
    /\ server = "serving" /\ ~running
    /\ server' = "closed" /\ inbox' = {}
    /\ UNCHANGED <<listVars, size, call, lookups, lock, answers, running, tasks, work, cache, clock>>

Stop ==
    /\ running /\ running' = FALSE
    /\ UNCHANGED <<listVars, size, call, lookups, lock, inbox, answers, server, tasks, work, cache, clock>>

\* _answer up to the look into the cache.
Consult(w) ==
    /\ work[w].at = "idle"
    /\ \E q \in tasks :
           LET entry == cache[q.name]
               hit   == entry.expires > clock
           IN  /\ tasks' = tasks \ {q}
               /\ work' = [work EXCEPT ![w] =
                      [at |-> IF hit THEN "reply" ELSE "resolve", query |-> q, now |-> clock,
                       kind |-> IF hit THEN entry.kind ELSE "none", life |-> 0, until |-> IF hit THEN entry.until ELSE 0]]
    /\ UNCHANGED <<listVars, size, call, lookups, lock, inbox, answers, server, running, cache, clock>>

\* The TTL within its limits, MinLife for an answer without records.
Kept(life) == IF life < MinLife THEN MinLife ELSE IF life > MaxLife THEN MaxLife ELSE life

\* _resolve: an answer of the chosen server, or none after its tries.
Resolve(w) ==
    /\ work[w].at = "resolve"
    /\ \/ work' = [work EXCEPT ![w] = NoWork]
       \/ \E answer \in Upstream :
              work' = [work EXCEPT ![w].at = "store", ![w].kind = answer.kind,
                                   ![w].life = Kept(answer.life), ![w].until = clock + Kept(answer.life)]
    /\ UNCHANGED <<listVars, size, call, lookups, lock, inbox, answers, server, running, tasks, cache, clock>>

\* Mutant: counts the life from the storing, not from the question.
StoreLate(w) ==
    /\ work[w].at = "store"
    /\ cache' = [cache EXCEPT ![work[w].query.name] =
           [expires |-> clock + work[w].life, kind |-> work[w].kind, until |-> work[w].until]]
    /\ work' = [work EXCEPT ![w].at = "reply", ![w].life = 0]
    /\ UNCHANGED <<listVars, size, call, lookups, lock, inbox, answers, server, running, tasks, clock>>

Store(w) ==
    /\ work[w].at = "store"
    /\ cache' = [cache EXCEPT ![work[w].query.name] =
           [expires |-> work[w].now + work[w].life, kind |-> work[w].kind, until |-> work[w].until]]
    /\ work' = [work EXCEPT ![w].at = "reply", ![w].life = 0]
    /\ UNCHANGED <<listVars, size, call, lookups, lock, inbox, answers, server, running, tasks, clock>>

\* The datagram back, to whoever has the port open by then.
Deliver(port, answer) ==
    answers' = [t \in Threads |-> IF Open(t) /\ call[t].port = port THEN answers[t] \cup {answer}
                                                                  ELSE answers[t]]

\* The response with the id of this query, be it the server's or the cache's.
Answer(w) ==
    /\ work[w].at = "reply"
    /\ LET q == work[w].query
           r == [kind |-> work[w].kind, id |-> q.id, from |-> q.from, number |-> q.number]
       IN  IF server # "closed" THEN Deliver(q.port, r) ELSE UNCHANGED answers
    /\ work' = [work EXCEPT ![w] = NoWork]
    /\ UNCHANGED <<listVars, size, call, lookups, lock, inbox, server, running, tasks, cache, clock>>

Tick ==
    /\ clock < size.time /\ clock' = clock + 1
    /\ UNCHANGED <<listVars, size, call, lookups, lock, inbox, answers, forwarderVars>>

Lookup(t) ==
    Send(t) \/ PollTimesOut(t) \/ Receive(t) \/ Reply(t) \/ MakeList(t) \/ RememberList(t)
        \/ LockSystem(t) \/ SystemAnswers(t)

Forwarder == Serve \/ ServeEnds \/ \E w \in size.workers : Consult(w) \/ Resolve(w) \/ Store(w) \/ Answer(w)

Next ==
    \/ \E t \in Threads : StartLookup(t) \/ Lookup(t) \/ FreeList(t)
    \/ Forwarder \/ Stop \/ Tick

Spec == Init /\ [][Next]_vars

\* Every thread that looks up runs; polls end.  Nothing is assumed of the
\* forwarder, the network or the launcher.
FairSpec == Spec /\ \A t \in Threads : WF_vars(Lookup(t))
------------------------------------------------------------------------------
QueryType == [port : Ports, id : Ids, name : Names, from : Threads, number : 1..size.lookups]
Kinds == {"none", "addresses", "nxdomain", "other"}
AnswerType == [kind : Kinds, id : Ids, from : Threads, number : 1..size.lookups]
CallType == [at : {"out", "send", "poll", "parse", "build", "remember", "system", "asking"},
             name : Names \cup {None}, attempt : 0..size.attempts,
             port : Ports \cup {None}, id : Ids \cup {None}, alike : BOOLEAN,
             reply : AnswerType \cup {NoReply},
             result : {"none", "found", "noname", "failed"}]
WorkType == [at : {"idle", "resolve", "store", "reply"}, query : QueryType \cup {None},
             now : 0..size.time, kind : Kinds, life : Nat, until : Nat]

TypeOK ==
    /\ ListsTypeOK /\ size \in Sizes
    /\ call \in [Threads -> CallType]
    /\ lookups \in [Threads -> 0..size.lookups] /\ lock \in Threads \cup {None}
    /\ inbox \subseteq QueryType /\ tasks \subseteq QueryType
    /\ answers \in [Threads -> SUBSET AnswerType]
    /\ server \in {"serving", "closed", "dead"} /\ running \in BOOLEAN
    /\ work \in [Workers -> WorkType]
    /\ cache \in [Names -> [expires : Nat, kind : Kinds, until : Nat]]
    /\ clock \in 0..size.time

\* The cache answers with nothing the server said longer ago than the answer
\* may be kept, though the time is read before the query is resolved, workers
\* resolve the same question side by side and the slower one stores last.
AnswerFresh ==
    \A w \in Workers : work[w].at = "reply" =>
        work[w].now < work[w].until

\* A lookup takes its addresses from the answer to its own question (172-175), however
\* late the forwarder is with others and whoever had the port before, as long as no
\* query with the same port and the same id was under way when it began.
AnswersTheQuestion ==
    \A t \in Threads : At(t, "parse") /\ ~call[t].alike =>
        call[t].reply.from = t /\ call[t].reply.number = lookups[t]

\* Every lookup returns, with a list, an error or the system's word, whether
\* the forwarder answers, loses queries, is stopped or dies in the middle.
LookupEnds == \A t \in Threads : ~At(t, "out") ~> At(t, "out")
==============================================================================
