------------------------------ MODULE MCWorkflow ------------------------------
(***************************************************************************)
(* Instances of Workflow for TLC.                                          *)
(***************************************************************************)
EXTENDS Workflow, TLC

CONSTANTS a, b, c, t, debug, release, arm  \* sources, a test, jobs

Items    == {a, b, c, t}
Jobs     == {debug, release, arm}
Stages12 == (debug :> 1) @@ (release :> 1) @@ (arm :> 2)

Full ==
    [src |-> {a, b, c}, test |-> {t}, build |-> TRUE, doc |-> TRUE, hosting |-> TRUE,
     jobs |-> <<debug, release, arm>>]

NoDoc == [Full EXCEPT !.doc = FALSE]

\* The user starts with one source, and adds another or a job in front.
Small    == [NoDoc EXCEPT !.src = {a}, !.test = {}, !.jobs = <<release, arm>>]
MoreCode == [Small EXCEPT !.src = {a, b}]
MoreJobs == [Small EXCEPT !.jobs = <<debug, release, arm>>]
MoreTest == [Small EXCEPT !.test = {t}]

OneWorkflow == {Full}
Edited      == {Small, MoreCode, MoreJobs, MoreTest}

\* Every source goes where its name says, but for c, which goes where b does.
Dests == [i \in Items |-> IF i = c THEN b ELSE i]

NeverForced == {{}}
ForcedToo   == {{}, {release}}
==============================================================================
