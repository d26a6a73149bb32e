---------------------------- MODULE MCConfigLoad ----------------------------
(* Instances of ConfigLoad for TLC. *)
EXTENDS ConfigLoad

CONSTANTS d1, d2, s, t

OnePlugin == <<"catalog">>

Gen(name) == [kind |-> "generate", name |-> name]
Fix(name) == [kind |-> "fixed", name |-> name]
Dir(d)    == [kind |-> "dir", dir |-> d]
Mode(on)  == [kind |-> "debug", on |-> on]
Bad       == [kind |-> "malformed"]

Project(base, debug, release, plugin) ==
    [f \in Files |-> CASE f = "config" -> base [] f = "config-debug" -> debug
                       [] f = "config-release" -> release [] OTHER -> plugin]

Nothing == <<>>

\* A value in one file, in two, behind a directory, in front of it, in an
\* overlay, given up for a fixed one, and behind a malformed line.
AllProjects ==
    {Project(<<Gen(s)>>, Nothing, Nothing, <<Gen(t)>>),
     Project(<<Gen(s), Dir(d2)>>, <<Gen(t)>>, <<Gen(s)>>, Nothing),
     Project(<<Gen(s)>>, <<Dir(d2)>>, <<Gen(t)>>, <<Gen(s), Gen(t)>>),
     Project(<<Mode(TRUE), Gen(t)>>, <<Fix(t), Gen(s)>>, Nothing, <<Dir(d2)>>),
     Project(<<Gen(s), Gen(t), Bad>>, Nothing, Nothing, Nothing),
     Project(<<Mode(FALSE), Fix(s)>>, Nothing, <<Dir(d1), Gen(s)>>, <<Bad>>)}

\* The databases directory is configured.
Remapped == {Project(<<Dir(d2), Gen(s)>>, Nothing, Nothing, Nothing)}
=============================================================================
