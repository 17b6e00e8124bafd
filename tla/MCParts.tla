------------------------------- MODULE MCParts -------------------------------
(***************************************************************************)
(* The parts of nbuild that share no state, side by side: each behaviour   *)
(* runs one of them, with its own initial states, steps and fairness.      *)
(***************************************************************************)
EXTENDS Heap, Proc, RunBuild, RBTree, Instances, Json, Regex, Arrays, Streams

\* Two commands at once: one whose output and errors are read, and one that asks for
\* a version, copies a file or pings.
Size(o, e) == [p \in Pipe |-> IF p = "out" THEN o ELSE e]
Make    == [call |-> "command", errors |-> TRUE, size |-> Size(1, 2)]
Ask     == [call |-> "command", errors |-> FALSE, size |-> Size(1, 1)]
Ping    == [call |-> "ping", errors |-> FALSE, size |-> Size(1, 0)]
Scp     == [call |-> "scp", errors |-> FALSE, size |-> Size(0, 2)]
Pairs   == {<<Make, Ask>>, <<Make, Scp>>, <<Make, Ping>>}

\* Jobs for which host_run_build takes different ways.
Kind(g, r, o) == [gen |-> g, resigns |-> r, old |-> o]
Kinds == {Kind("known", FALSE, FALSE), Kind("no_native", TRUE, TRUE), Kind("known", TRUE, FALSE),
          Kind("no_native", FALSE, TRUE), Kind("unknown", FALSE, FALSE)}

\* The types of a report in this version of nbuild and in two others, with a member of
\* each kind, and values of them.
Event(e) == StructType(<<<<"name", StringType>>, <<"loop_id", UintType(3)>>>> \o e)
Target(e) == StructType(<<<<"event", Event(<<>>)>>, <<"legal", BoolType(FALSE)>>>> \o e)
ThisType == StructType(<< <<"url", StringType>>, <<"vers", UintType(0)>>,
    <<"tests", ArrayType(Target(<<>>), FALSE)>>, <<"lines", ArrayType(StringType, TRUE)>>,
    <<"build", Event(<<>>)>> >>)

Str(s) == <<"str", s>>
Uint(n) == <<"uint", n>>
Bool(b) == <<"bool", b>>
Arr(s) == <<"arr", s>>
Obj(s) == <<"struct", s>>

Ev(s, n) == Obj(<<Str(s), Uint(n)>>)
Report(tests, lines) == Obj(<<Str("url"), Uint(2), Arr(tests), Arr(lines), Ev("coloured log", 3)>>)
TheReports ==
    {Report(t, l) : t \in {<<>>, <<Obj(<<Ev("", 0), Bool(TRUE)>>)>>,
                           <<Obj(<<Ev("log", 1), Bool(FALSE)>>), Obj(<<Ev("coloured log", 3), Bool(TRUE)>>)>>},
                    l \in {<<>>, <<Str("")>>, <<Str("log"), Str("true")>>}}

\* Older: no "lines", no "legal"; "vers" a string.
OlderType == StructType(<< <<"url", StringType>>, <<"vers", StringType>>,
    <<"tests", ArrayType(StructType(<<<<"event", Event(<<>>)>>>>), FALSE)>>, <<"build", Event(<<>>)>> >>)
Older(t, v) == [type |-> OlderType,
    obj |-> Obj(<<Str("url"), Str(v), Arr(t), Ev("log", 0)>>)]
\* Newer: more members everywhere, arrays and structs among them, "url" a list.
NewerType == StructType(<< <<"url", ArrayType(StringType, TRUE)>>,
    <<"hosts", ArrayType(ArrayType(UintType(0), FALSE), FALSE)>>, <<"vers", UintType(0)>>,
    <<"tests", ArrayType(Target(<<<<"warns", StringType>>>>), FALSE)>>, <<"lines", ArrayType(StringType, TRUE)>>,
    <<"build", Event(<<<<"who", StructType(<<>>)>>>>)>>, <<"docs", ArrayType(Target(<<>>), FALSE)>> >>)
Newer(u, h, t, d) == [type |-> NewerType,
    obj |-> Obj(<<Arr(u), Arr(h), Uint(1), Arr(t), Arr(<<Str("log")>>), Obj(<<Str("log"), Uint(2), Obj(<<>>)>>), Arr(d)>>)]

TheOld ==
    {Older(t, v) : t \in {<<>>, <<Obj(<<Ev("log", 2)>>)>>}, v \in {"", "2", "true"}}
    \cup {Newer(u, h, t, d) : u \in {<<>>, <<Str("url")>>},
            h \in {<<>>, <<Arr(<<>>), Arr(<<Uint(1), Uint(2)>>)>>},
            t \in {<<>>, <<Obj(<<Ev("log", 1), Bool(TRUE), Str("")>>)>>},
            d \in {<<>>, <<Obj(<<Ev("log", 1), Bool(FALSE)>>)>>}}

\* Expressions over "a", "b" and "." with every operator inside every other.
Letters(c) == CharRange(c, c)
xa == Letters(97)
xb == Letters(98)
Dotted == Letters(46)
Inner == {xa, Dotted, CharRange(97, 98), AnyChar, Repeat(xa), OneOf(<<xa, Dotted>>)}
Pieces == {Then(<<xa, xb>>), Then(<<Repeat(xa), xb>>), Then(<<OneOf(<<xa, Dotted>>), AnyChar>>)}
TheExprs ==
    Inner \cup {Then(<<x, y>>) : x \in Inner, y \in Inner}
    \cup {Repeat(x) : x \in Pieces \cup {OneOf(<<xa, Dotted>>)}}
    \cup {OneOf(<<x, y>>) : x \in Pieces, y \in {xb, Then(<<xb, xa, xb>>)}}
    \cup {Then(<<x, Repeat(y), z>>) : x \in {Repeat(AnyChar), xa}, y \in Pieces,
            z \in {xb, Repeat(Dotted), OneOf(<<Then(<<xa, xa>>), xb>>)}}
TheChars == {97, 98, 46}

\* Arrays around the sizes at which a block changes and a sort splits it in two.
TheContents == {<<>>, <<3, 1, 2, 3, 1>>, <<2, 2, 1, 1, 2>>, <<4, 3, 2, 1, 0>>, <<1, 0, 2, 0, 3>>}
    \cup {[n \in 1..len |-> (n * k + len) % 17] : len \in {9, 14, 16}, k \in {1, 5, 16}}
TheBlocks == {<<0, 0>>, <<3, 1, 2, 5, 3>>}

VARIABLE part   \* the part that runs

node_vars == <<heap_vars, proc_vars, build_vars, tree_vars, lock_vars>>
text_vars == <<json_vars, regex_vars, array_vars, stream_vars>>
parts_vars == <<part, node_vars, text_vars>>

\* The parts that do not run have one initial state.
PartsInit ==
    /\ part \in {"heap", "proc", "build", "tree", "lock", "json", "regex", "array", "stream"}
    /\ HeapInit
    /\ ProcInit /\ (part = "proc" \/ prog = CHOOSE p \in Programs : TRUE)
    /\ BuildInit /\ (part = "build" \/ job = CHOOSE j \in JobKinds : TRUE)
    /\ TreeInit
    /\ LockInit
    /\ JsonInit /\ (part = "json" \/ stored = {})
    /\ RegexInit /\ (part = "regex" \/ expr = AnyChar)
    /\ ArrayInit /\ (part = "array" \/ contents = <<>>)
    /\ StreamsInit /\ (part = "stream" \/ stm = [x \in {"from", "to"} |-> Stream("memory", EmptyBuffer(0), <<>>, <<>>)])

\* A step of part p, with the other parts at rest.
PartStep(p, A) == part = p /\ A /\ UNCHANGED part
InHeap(A)   == PartStep("heap", A) /\ UNCHANGED <<proc_vars, build_vars, tree_vars, lock_vars, text_vars>>
InProc(A)   == PartStep("proc", A) /\ UNCHANGED <<heap_vars, build_vars, tree_vars, lock_vars, text_vars>>
InBuild(A)  == PartStep("build", A) /\ UNCHANGED <<heap_vars, proc_vars, tree_vars, lock_vars, text_vars>>
InTree(A)   == PartStep("tree", A) /\ UNCHANGED <<heap_vars, proc_vars, build_vars, lock_vars, text_vars>>
InLock(A)   == PartStep("lock", A) /\ UNCHANGED <<heap_vars, proc_vars, build_vars, tree_vars, text_vars>>
InJson(A)   == PartStep("json", A) /\ UNCHANGED <<node_vars, regex_vars, array_vars, stream_vars>>
InRegex(A)  == PartStep("regex", A) /\ UNCHANGED <<node_vars, json_vars, array_vars, stream_vars>>
InArray(A)  == PartStep("array", A) /\ UNCHANGED <<node_vars, json_vars, regex_vars, stream_vars>>
InStream(A) == PartStep("stream", A) /\ UNCHANGED <<node_vars, json_vars, regex_vars, array_vars>>

PartsNext ==
    \/ InHeap(HeapNext) \/ InProc(ProcNext) \/ InBuild(BuildNext) \/ InTree(TreeNext)
    \/ InLock(LockNext) \/ InJson(JsonNext) \/ InRegex(RegexNext) \/ InArray(ArrayNext) \/ InStream(StreamsNext)

PartsFairness ==
    \A c \in Command :
        /\ WF_parts_vars(InProc(Caller(c)))
        /\ WF_parts_vars(InProc(Reader(c)))
        /\ WF_parts_vars(InProc(Remote(c)))

PartsSpec == PartsInit /\ [][PartsNext]_parts_vars /\ PartsFairness

-----------------------------------------------------------------------------
\* The type invariants of the parts.
PartsTypeOK == HeapTypeOK /\ ProcTypeOK /\ BuildTypeOK /\ LockTypeOK

\* Where commands run, every call ends.
CommandsEnd == part = "proc" => CallsEnd
==============================================================================
