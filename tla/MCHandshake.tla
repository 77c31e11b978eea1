---------------------------- MODULE MCHandshake ----------------------------
(* Instances of Handshake: the NIC names of the clients and of the host, by *)
(* the number each name ends in, -1 for a name that ends in none.           *)
EXTENDS Handshake
CONSTANTS c1, c2

\* A NIC with a primary and a cross match, two NICs that share a name, names
\* that only match across (the nameless NIC, -1, is taken to match 3), one NIC that
\* two others reach, and hosts that have nothing in common.
NamesAlike == {<< <<1>>, <<5, 1>> >>, << <<0, 0>>, <<0, 0>> >>, << <<-1, 5>>, <<3, 1>> >>,
               << <<0, 4>>, <<4>> >>, << <<1>>, <<0, 2>> >>}

\* One NIC each, with the same name.
OnePairEach == {<< <<0>>, <<0>> >>}
=============================================================================
