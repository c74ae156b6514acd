----------------------------- MODULE MCGlContexts -----------------------------
(* Drivers for GlContexts: Mesa, whose first config fits any window, NVIDIA,  *)
(* whose windows' visual has no config, and some that have less.              *)
EXTENDS GlContexts

CONSTANTS screen, glx, other, f1, f2, f3, c1, c2

Mesa == [configs |-> <<screen, other>>, capable |-> {screen}, inherited |-> screen, picky |-> FALSE,
         versions |-> {"4.1", "3.2"}, answers |-> {}, core |-> TRUE, replace |-> TRUE, fast |-> TRUE,
         formats |-> {f1, f2, f3}, contexts |-> {c1}]

Nvidia == [Mesa EXCEPT !.configs = <<other, screen>>, !.capable = {screen, other}, !.inherited = glx,
                       !.picky = TRUE, !.answers = {"config"},
                       !.formats = {f1}, !.contexts = {c1, c2}]

MCMachines ==
    {Mesa, Nvidia,
     [Nvidia EXCEPT !.answers = {"config", "surface"}, !.versions = {"3.2"}, !.inherited = other,
                    !.contexts = {c1}],
     [Nvidia EXCEPT !.answers = {"surface"}, !.versions = {}, !.fast = FALSE, !.contexts = {c1}],
     [Mesa EXCEPT !.core = FALSE, !.replace = FALSE, !.formats = {f1, f2}]}
==============================================================================
