------------------------------- MODULE MCLinks -------------------------------
(***************************************************************************)
(* Configuration files for Links: three servers, the keys of a block in    *)
(* any order, other lines between and inside the blocks; and two files     *)
(* that load_config refuses.                                               *)
(***************************************************************************)
EXTENDS Links, TLC

MCConfig ==
  [server_nodes |->
     << [id |-> 0, host |-> "a", cluster_port |-> 12, client_port |-> 9000],
        [id |-> 1, host |-> "a", cluster_port |-> 13, client_port |-> 9001],
        [id |-> 2, host |-> "b", cluster_port |-> 12, client_port |-> 9000] >>,
   partitions_ids |-> <<0, 1>>,
   current_node |-> 1]

Line(key, value) == [key |-> key, value |-> <<value>>]
Comment == Line("", "#")

Keys == <<"id", "host", "cluster_port", "client_port">>
Block(i, order) ==
  [j \in 1..4 |-> Line(Keys[order[j]], MCConfig.server_nodes[i][Keys[order[j]]])]

Rendered(f, g, current) ==
  <<Comment, Line("partition_id", 0)>> \o Block(1, f) \o <<Comment>>
    \o InsertAt(Block(2, g), 3, Line("partition_id", 1)) \o current \o Block(3, f)

(* current_node is in the file, or absent, or for another server and
   overridden. *)
MCStarts ==
  LET reverse == <<4, 3, 2, 1>>
      orders == {<<f, reverse>> : f \in Permutations(1..4)}
  IN {[lines |-> Rendered(o[1], o[2], <<Line("current_node", 1)>>), args |-> <<>>] :
        o \in orders}
     \cup {[lines |-> Rendered(reverse, reverse, c), args |-> <<1>>] :
             c \in {<<>>, <<Line("current_node", 0)>>}}
     \cup {[lines |-> <<x>>, args |-> <<>>] :
             x \in {Line("hosts", "a"), [key |-> "host", value |-> <<>>]}}
=============================================================================
