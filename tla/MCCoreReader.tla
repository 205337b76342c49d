---------------------------- MODULE MCCoreReader ----------------------------
(***************************************************************************)
(* Fields scaled to one and two bytes, 8 bytes of RAM, 32-bit values       *)
(* scaled to 0 .. 63, a maximum CORE size of 32.  One family of containers *)
(* varies what the header and the compressed stream say around one good    *)
(* body, the other varies the body behind a good header: lengths one byte  *)
(* off and lengths near the top of their type, records at the last address *)
(* of the 32-bit space.                                                    *)
(***************************************************************************)
EXTENDS CoreAgreement

Record(address, size) == [address |-> address, size |-> size]

GoodBody ==
  [length |-> 25, authentication |-> <<0, 1>>, count |-> 3, entry |-> 2,
   records |-> <<Record(1, 2), Record(2, 3), Record(5, 1)>>]

Headers ==
  [size : 0 .. 6 \cup {32, 33}, flags : {"0x0101", "other"},
   expected : {0, 24, 25, 26, 32, 33, 63},
   stream : [ends : BOOLEAN, used : {1, 2, 29}, body : {GoodBody}]]

Bodies ==
  [length : {25}, authentication : {<<a, b>> : a \in {0, 1, 62}, b \in {0, 1, 63}},
   count : {2, 3}, entry : {2, 3},
   records : {<<Record(1, r), Record(ta, ts), Record(da, ds)>> :
                r \in {2, 3, 62}, ta \in {2, 3}, ts \in {0, 2, 3},
                da \in {4, 5, 8, 63}, ds \in {0, 1, 2, 62}}]

MCContainers ==
  Headers \cup
  [size : {5}, flags : {"0x0101"}, expected : {25},
   stream : [ends : {TRUE}, used : {2}, body : Bodies]]
=============================================================================
