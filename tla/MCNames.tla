------------------------------ MODULE MCNames -------------------------------
(***************************************************************************)
(* Model checking of Names: two processes; the root with a file "a" and a  *)
(* directory "d", in it a directory "e" from which a file was removed, so  *)
(* that there are a free entry and a free inode.  Three inodes fit in      *)
(* core.                                                                   *)
(***************************************************************************)
EXTENDS Names

MCDirs  == <<[name |-> "/", up |-> 1], [name |-> "d", up |-> 1],
             [name |-> "e", up |-> 2]>>
MCFiles == <<[name |-> "a", dir |-> 1, mode |-> "reg"],
             [name |-> "b", dir |-> 3, mode |-> "reg"]>>

MCNewPaths == {[abs |-> FALSE, names |-> <<"a">>]}

MCPaths == MCNewPaths \cup
  {[abs |-> TRUE,  names |-> <<"a">>],
   [abs |-> TRUE,  names |-> <<"d", "e">>],
   [abs |-> FALSE, names |-> <<".">>]}
=============================================================================
