------------------------------ MODULE MCScripts --------------------------------
(***************************************************************************)
(* Scripts with sources that share a group and a sub group, one of which   *)
(* has no declaration in the first source.                                 *)
(***************************************************************************)
EXTENDS Scripts

Cmd(name, group, sub) == [name |-> name, group |-> group, sub_group |-> sub, plain |-> FALSE]

MCMeta ==
  [s1 |-> [commands |-> <<Cmd("a", "g", "s"), Cmd("b", "g", NoGroup)>>, groups |-> <<>>],
   s2 |-> [commands |-> <<Cmd("b", "g", NoGroup), Cmd("c", "g", "s"), Cmd("d", NoGroup, NoGroup)>>,
           groups |-> <<[name |-> "g", sub_groups |-> <<"s">>]>>]]
=============================================================================
