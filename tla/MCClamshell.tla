---------------------------- MODULE MCClamshell ----------------------------
(* A small name space for TLC: two names, a home directory and a boot file. *)
EXTENDS Clamshell

Home == <<"u">>
Items == << [path |-> <<"u">>, kind |-> DirType],
            [path |-> <<"u", "v">>, kind |-> DirType],
            [path |-> <<"v">>, kind |-> FileType] >>
=============================================================================
