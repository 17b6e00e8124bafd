-------------------------------- MODULE MCBoot --------------------------------
(***************************************************************************)
(* Networks for Boot.                                                      *)
(***************************************************************************)
EXTENDS Boot

\* A computer; a Mac with one volume and a virtual machine of UTM on it; a Mac with
\* five volumes, of which two have a runner, one is Catalina or lower and one has an
\* unknown version, and a virtual machine on the first of them.
MixedType     == <<"metal", "vm", "utm", "macos", "macos", "macos", "macos", "macos", "macos">>
MixedPhysical == <<0, 5, 4, 101, 102, 102, 102, 102, 102>>
MixedRunners  == {1, 2, 3, 5, 6}

\* A Mac with four volumes, three of which have a runner.
MacType     == <<"macos", "macos", "macos", "macos">>
MacPhysical == <<101, 101, 101, 101>>
MacRunners  == {1, 2, 3}

\* A Mac with one volume and two virtual machines of UTM on it.
UtmType     == <<"utm", "utm", "macos">>
UtmPhysical == <<3, 3, 101>>
UtmRunners  == {1, 2}
==============================================================================
