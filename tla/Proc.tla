--------------------------------- MODULE Proc ---------------------------------
(***************************************************************************)
(* How the threads of nbuild run commands: ssh_command, ssh_ping, ssh_scp  *)
(* and ssh_upload of src/nlib/ssh.c over the processes and pipes of        *)
(* src/osbs/unix/bproc.c.  Each command is called by a thread of its own   *)
(* here; they share the table of file descriptors of the program.          *)
(*                                                                         *)
(* A command writes on two pipes.  ssh_command reads the first one to its  *)
(* end, and when its caller wants the errors too, a reader thread reads    *)
(* the second one.  The standard input is never used and is left out, and  *)
(* so are the numbers of the descriptors the program closes at once.       *)
(***************************************************************************)
EXTENDS Integers, FiniteSets

CONSTANTS
    NCommands,  \* the commands, and the threads that run them
    Programs,   \* what they can be
    Capacity,   \* what a pipe holds
    NFds        \* the numbers of descriptors in use; large enough for all pipes

Command  == 1..NCommands
Pipe     == {"out", "err"}
Fd       == 1..NFds
NoFd     == 0           \* -1 in bproc.c
Nbuild   == 0           \* the program itself, among the processes
NoPipe   == <<0, "out">>

\* call: ssh_command, ssh_ping or ssh_scp (ssh_upload does the same as the
\* latter); errors: the caller gives a stream for stderr.
Program == [call : {"command", "ping", "scp"}, errors : BOOLEAN, size : [Pipe -> Nat]]

ASSUME ProcAssumption ==
    /\ NCommands \in Nat \ {0} /\ Capacity \in Nat \ {0}
    /\ NFds \in Nat /\ NFds >= 2 * NCommands
    /\ Programs \subseteq [Command -> Program]

VARIABLES
    prog,       \* the programs of this behaviour
    cpc,        \* the thread that runs each command
    fd,         \* the pipe each descriptor reads from, or NoPipe
    rfd,        \* proc->pipes: the descriptors of each command
    fill,       \* what each pipe holds
    holders,    \* the processes that can write on the pipes of a command
    heirs,      \* the processes that have inherited the end of a pipe to read from
    wrote,      \* what each command has written on each of its pipes
    status,     \* the command: "no" (not started), "runs" or "gone"
    reader,     \* the thread that reads the errors
    rreg,       \* the descriptor it has loaded
    rpipe,      \* the pipe it reads from
    got,        \* the streams: what they hold, and from whom
    cut         \* history: the descriptor of a reader was closed under it

proc_vars == <<prog, cpc, fd, rfd, fill, holders, heirs, wrote, status, reader, rreg,
               rpipe, got, cut>>

ProcInit ==
    /\ prog \in Programs
    /\ cpc = [c \in Command |-> "pipes"]
    /\ fd = [f \in Fd |-> NoPipe]
    /\ rfd = [c \in Command |-> [p \in Pipe |-> NoFd]]
    /\ fill = [c \in Command |-> [p \in Pipe |-> 0]]
    /\ holders = [c \in Command |-> {}]
    /\ heirs = [c \in Command |-> [p \in Pipe |-> {}]]
    /\ wrote = [c \in Command |-> [p \in Pipe |-> 0]]
    /\ status = [c \in Command |-> "no"]
    /\ reader = [c \in Command |-> "none"]
    /\ rreg = [c \in Command |-> NoFd]
    /\ rpipe = [c \in Command |-> NoPipe]
    /\ got = [c \in Command |-> [p \in Pipe |-> [own |-> 0, other |-> 0]]]
    /\ cut = FALSE

-----------------------------------------------------------------------------
(* bproc_exec.                                                             *)

Moves(c, from, to) == cpc[c] = from /\ cpc' = [cpc EXCEPT ![c] = to]

Lowest(S) == CHOOSE f \in S : \A g \in S : f <= g
FreeFd    == {f \in Fd : fd[f] = NoPipe}
Open(c, p) == \E f \in Fd : fd[f] = <<c, p>>

\* i_pipes: the lowest descriptors that are free.
OpenPipes(c) ==
    /\ Moves(c, "pipes", "fork")
    /\ LET out == Lowest(FreeFd)
           err == Lowest(FreeFd \ {out})
       IN  /\ fd' = [fd EXCEPT ![out] = <<c, "out">>, ![err] = <<c, "err">>]
           /\ rfd' = [rfd EXCEPT ![c] = [p \in Pipe |-> IF p = "out" THEN out ELSE err]]
    /\ holders' = [holders EXCEPT ![c] = {Nbuild}]
    /\ UNCHANGED <<prog, fill, heirs, wrote, status, reader, rreg, rpipe, got, cut>>

\* fork: the new process inherits every descriptor nbuild has at that moment,
\* those of other threads included, and closes the ones of its own pipes that
\* it does not need.
Fork(c) ==
    /\ Moves(c, "fork", "close_ends")
    /\ holders' = [d \in Command |->
          IF Nbuild \in holders[d] THEN holders[d] \cup {c} ELSE holders[d]]
    /\ heirs' = [d \in Command |-> [p \in Pipe |->
          IF d # c /\ Open(d, p) THEN heirs[d][p] \cup {c} ELSE heirs[d][p]]]
    /\ status' = [status EXCEPT ![c] = "runs"]
    /\ UNCHANGED <<prog, fd, rfd, fill, wrote, reader, rreg, rpipe, got, cut>>

\* pipe or fork fails: nothing is left behind and the call has no result.
ClosedFds(fds) == [f \in Fd |-> IF f \in fds THEN NoPipe ELSE fd[f]]
FdsOf(c)       == {rfd[c][p] : p \in Pipe}

ExecFails(c) ==
    /\ Moves(c, "fork", "end")
    /\ fd' = ClosedFds(FdsOf(c))
    /\ rfd' = [rfd EXCEPT ![c] = [p \in Pipe |-> NoFd]]
    /\ holders' = [holders EXCEPT ![c] = @ \ {Nbuild}]
    /\ UNCHANGED <<prog, fill, heirs, wrote, status, reader, rreg, rpipe, got, cut>>

\* Mutant of CloseEnds: the thread that reads the errors is not created.
CloseEndsOnly(c) ==
    /\ Moves(c, "close_ends", IF prog[c].call = "command" THEN "read" ELSE "wait")
    /\ holders' = [holders EXCEPT ![c] = @ \ {Nbuild}]
    /\ UNCHANGED <<prog, fd, rfd, fill, heirs, wrote, status, reader, rreg, rpipe, got, cut>>

\* The end of i_exec, then what the caller does first: ssh_command starts a
\* thread for the errors if they are wanted.
CloseEnds(c) ==
    LET call == prog[c].call
    IN  /\ Moves(c, "close_ends", CASE call = "command" -> "read"
                                    [] call = "ping"    -> "wait"
                                    [] call = "scp"     -> "close_both")
        /\ holders' = [holders EXCEPT ![c] = @ \ {Nbuild}]
        /\ reader' = IF call = "command" /\ prog[c].errors
                     THEN [reader EXCEPT ![c] = "load"] ELSE reader
        /\ UNCHANGED <<prog, fd, rfd, fill, heirs, wrote, status, rreg, rpipe, got, cut>>

-----------------------------------------------------------------------------
(* The command.                                                            *)

\* A pipe can be read from while a descriptor, a blocked reader or another
\* process refers to it.
Readable(c, p) == \/ Open(c, p) \/ heirs[c][p] # {}
                  \/ \E d \in Command : reader[d] = "read" /\ rpipe[d] = <<c, p>>

\* Mutant of Write: a full pipe does not stop the command.
WriteOver(c, p) ==
    /\ status[c] = "runs"
    /\ wrote[c][p] < prog[c].size[p]
    /\ wrote' = [wrote EXCEPT ![c][p] = @ + 1]
    /\ fill' = [fill EXCEPT ![c][p] = @ + 1]
    /\ UNCHANGED <<prog, cpc, fd, rfd, holders, heirs, status, reader, rreg, rpipe, got, cut>>

\* What it writes waits in the pipe, or is lost when nobody can read it: the
\* signal SIGPIPE is ignored.
Write(c, p) ==
    /\ status[c] = "runs"
    /\ wrote[c][p] < prog[c].size[p]
    /\ wrote' = [wrote EXCEPT ![c][p] = @ + 1]
    /\ IF Readable(c, p)
       THEN fill[c][p] < Capacity /\ fill' = [fill EXCEPT ![c][p] = @ + 1]
       ELSE UNCHANGED fill
    /\ UNCHANGED <<prog, cpc, fd, rfd, holders, heirs, status, reader, rreg, rpipe, got, cut>>

\* A command that is killed is one that writes less.
Exit(c) ==
    /\ status[c] = "runs" /\ wrote[c] = prog[c].size
    /\ status' = [status EXCEPT ![c] = "gone"]
    /\ holders' = [d \in Command |-> holders[d] \ {c}]
    /\ heirs' = [d \in Command |-> [p \in Pipe |-> heirs[d][p] \ {c}]]
    /\ UNCHANGED <<prog, cpc, fd, rfd, fill, wrote, reader, rreg, rpipe, got, cut>>

-----------------------------------------------------------------------------
(* Reading: bproc_read and bproc_eread.                                    *)

\* Mutant of Eof: an empty pipe is taken for its end.
EofAtOnce(c, p) == fill[c][p] = 0

Eof(c, p) == fill[c][p] = 0 /\ holders[c] = {}

\* ssh_command reads the output.
ReadOut(c) ==
    /\ cpc[c] = "read" /\ fill[c]["out"] > 0
    /\ fill' = [fill EXCEPT ![c]["out"] = @ - 1]
    /\ got' = [got EXCEPT ![c]["out"].own = @ + 1]
    /\ UNCHANGED <<prog, cpc, fd, rfd, holders, heirs, wrote, status, reader, rreg, rpipe, cut>>

OutEnds(c) ==
    /\ Eof(c, "out")
    /\ Moves(c, "read", IF prog[c].errors THEN "close_err" ELSE "wait")
    /\ UNCHANGED <<prog, fd, rfd, fill, holders, heirs, wrote, status, reader, rreg, rpipe, got, cut>>

Reads(c, from, to) == reader[c] = from /\ reader' = [reader EXCEPT ![c] = to]

\* i_std_err: the descriptor is loaded,
LoadFd(c) ==
    /\ Reads(c, "load", "resolve")
    /\ rreg' = [rreg EXCEPT ![c] = rfd[c]["err"]]
    /\ UNCHANGED <<prog, cpc, fd, rfd, fill, holders, heirs, wrote, status, rpipe, got, cut>>

\* read finds the pipe it stands for, or fails if there is none,
ResolveFd(c) ==
    LET q == IF rreg[c] = NoFd THEN NoPipe ELSE fd[rreg[c]]
    IN  /\ Reads(c, "resolve", IF q = NoPipe THEN "done" ELSE "read")
        /\ rpipe' = [rpipe EXCEPT ![c] = q]
        /\ rreg' = [rreg EXCEPT ![c] = NoFd]
        /\ UNCHANGED <<prog, cpc, fd, rfd, fill, holders, heirs, wrote, status, got, cut>>

\* and waits for data or for the end.
ReadErr(c) ==
    LET d == rpipe[c][1]
        p == rpipe[c][2]
    IN  /\ Reads(c, "read", "load")
        /\ fill[d][p] > 0
        /\ fill' = [fill EXCEPT ![d][p] = @ - 1]
        /\ got' = IF rpipe[c] = <<c, "err">>
                  THEN [got EXCEPT ![c]["err"].own = @ + 1]
                  ELSE [got EXCEPT ![c]["err"].other = @ + 1]
        /\ rpipe' = [rpipe EXCEPT ![c] = NoPipe]
        /\ UNCHANGED <<prog, cpc, fd, rfd, holders, heirs, wrote, status, rreg, cut>>

ErrEnds(c) ==
    /\ Reads(c, "read", "done")
    /\ Eof(rpipe[c][1], rpipe[c][2])
    /\ rpipe' = [rpipe EXCEPT ![c] = NoPipe]
    /\ UNCHANGED <<prog, cpc, fd, rfd, fill, holders, heirs, wrote, status, rreg, got, cut>>

-----------------------------------------------------------------------------
(* The end of the calls.                                                   *)

\* bproc_eread_close, before the reader is joined: what the pipe holds is lost
\* unless the reader is in read at this moment.
CloseErr(c) ==
    /\ Moves(c, "close_err", "wait")
    /\ fd' = ClosedFds({rfd[c]["err"]})
    /\ rfd' = [rfd EXCEPT ![c]["err"] = NoFd]
    /\ cut' = (cut \/ reader[c] # "done")
    /\ UNCHANGED <<prog, fill, holders, heirs, wrote, status, reader, rreg, rpipe, got>>

\* bproc_read_close and bproc_eread_close, in ssh_scp and ssh_upload.
CloseBoth(c) ==
    /\ Moves(c, "close_both", "wait")
    /\ fd' = ClosedFds(FdsOf(c))
    /\ rfd' = [rfd EXCEPT ![c] = [p \in Pipe |-> NoFd]]
    /\ UNCHANGED <<prog, fill, holders, heirs, wrote, status, reader, rreg, rpipe, got, cut>>

\* bproc_wait.
Wait(c) ==
    /\ Moves(c, "wait", "join")
    /\ status[c] = "gone"
    /\ UNCHANGED <<prog, fd, rfd, fill, holders, heirs, wrote, status, reader, rreg, rpipe, got, cut>>

\* Mutant of Join: the thread is not waited for.
JoinNobody(c) ==
    /\ Moves(c, "join", "end")
    /\ fd' = ClosedFds(FdsOf(c))
    /\ rfd' = [rfd EXCEPT ![c] = [p \in Pipe |-> NoFd]]
    /\ UNCHANGED <<prog, fill, holders, heirs, wrote, status, reader, rreg, rpipe, got, cut>>

\* bthread_wait, and bproc_close.
Join(c) ==
    /\ Moves(c, "join", "end")
    /\ reader[c] \in {"none", "done"}
    /\ fd' = ClosedFds(FdsOf(c))
    /\ rfd' = [rfd EXCEPT ![c] = [p \in Pipe |-> NoFd]]
    /\ UNCHANGED <<prog, fill, holders, heirs, wrote, status, reader, rreg, rpipe, got, cut>>

Caller(c)  == \/ OpenPipes(c) \/ Fork(c) \/ ExecFails(c) \/ CloseEnds(c)
              \/ ReadOut(c) \/ OutEnds(c) \/ CloseErr(c) \/ CloseBoth(c) \/ Wait(c) \/ Join(c)
Reader(c)  == LoadFd(c) \/ ResolveFd(c) \/ ReadErr(c) \/ ErrEnds(c)
Remote(c)  == (\E p \in Pipe : Write(c, p)) \/ Exit(c)

ProcNext == \E c \in Command : Caller(c) \/ Reader(c) \/ Remote(c)

ProcFairness ==
    \A c \in Command :
        WF_proc_vars(Caller(c)) /\ WF_proc_vars(Reader(c)) /\ WF_proc_vars(Remote(c))

ProcSpec     == ProcInit /\ [][ProcNext]_proc_vars
ProcFairSpec == ProcSpec /\ ProcFairness

-----------------------------------------------------------------------------
(* Properties.                                                             *)

\* The type invariant of the commands.
ProcTypeOK ==
    /\ prog \in Programs
    /\ cpc \in [Command -> {"pipes", "fork", "close_ends", "read", "close_err",
                            "close_both", "wait", "join", "end"}]
    /\ fd \in [Fd -> (Command \X Pipe) \cup {NoPipe}]
    /\ rfd \in [Command -> [Pipe -> Fd \cup {NoFd}]]
    /\ fill \in [Command -> [Pipe -> 0..Capacity]]
    /\ holders \in [Command -> SUBSET (Command \cup {Nbuild})]
    /\ heirs \in [Command -> [Pipe -> SUBSET Command]]
    /\ wrote \in [Command -> [Pipe -> Nat]]
    /\ status \in [Command -> {"no", "runs", "gone"}]
    /\ reader \in [Command -> {"none", "load", "resolve", "read", "done"}]
    /\ rreg \in [Command -> Fd \cup {NoFd}]
    /\ rpipe \in [Command -> (Command \X Pipe) \cup {NoPipe}]
    /\ got \in [Command -> [Pipe -> [own : Nat, other : Nat]]]
    /\ cut \in BOOLEAN

Wanted(c) == IF prog[c].errors THEN Pipe ELSE {"out"}

\* The streams of a command that has ended hold all it has written and nothing
\* of another one.
Complete(c) ==
    \A p \in Wanted(c) : got[c][p] = [own |-> wrote[c][p], other |-> 0]

Returned(c) == cpc[c] = "end" /\ status[c] = "gone" /\ prog[c].call = "command"

\* ssh_cmake_build looks for the errors of a build in the text ssh_command
\* returns: however the commands of different threads overlap, inherit the
\* pipes of each other and reuse their descriptors, that text is complete and
\* free of foreign text, unless a descriptor was closed under its reader.
OutputUnlessCut == cut \/ \A c \in Command : Returned(c) => Complete(c)

\* No call keeps a descriptor, and no thread reads after its call has ended.
NothingIsLeft ==
    \A c \in Command : cpc[c] = "end" =>
        /\ \A f \in Fd : fd[f] = NoPipe \/ fd[f][1] # c
        /\ reader[c] \in {"none", "done"}

\* What nobody reads and does not fit in the pipe.
Overflows(c) == \E p \in Pipe : /\ prog[c].size[p] > Capacity
                               /\ ~(prog[c].call = "command" /\ p \in Wanted(c))

\* A command that has closed its pipes loses what it writes, but for the ones
\* whose other ends a second command has inherited: that one must be able to end.
Harmless == LET over == {c \in Command : Overflows(c)}
            IN  /\ \A c \in over : prog[c].call = "scp"
                /\ Cardinality(over) <= 1

\* Every call ends when what nobody reads fits in a pipe, or is thrown away by
\* one command at most: no command waits for a reader that waits for the command.
CallsEnd == \A c \in Command : Harmless => <>(cpc[c] = "end")
==============================================================================
