---------------------------- MODULE MCWireCodec ----------------------------
(* The UserProfile message of the repository's tests. *)
EXTENDS WireCodec

F(id, kind) == [id |-> id, kind |-> kind]
MCUserProfile == {<<F(1, "int64"), F(2, "string"), F(3, "string")>>}
MCSamples ==
    [int32 |-> {}, int64 |-> {<<0>>, <<42>>}, string |-> {<<>>, <<104, 105>>}, bool |-> {}, binary |-> {},
     double |-> {}]
=============================================================================
