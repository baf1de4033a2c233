------------------------------ MODULE MCDomain ------------------------------
(* Instances of Domain for TLC: two good images and one of each bad kind.  *)
EXTENDS Domain, TLC

Hdr(c, ok, maj, min) == [crc |-> c, magicOk |-> ok, major |-> maj, minor |-> min]

MCImages == {"A", "B", "bare", "newer"}
MCHeader == "A" :> Hdr(1, TRUE, 2, 0) @@ "B" :> Hdr(2, TRUE, 2, 0)
         @@ "bare" :> Hdr(3, FALSE, 2, 0) @@ "newer" :> Hdr(4, TRUE, 2, 1)
         @@ "blank" :> Hdr(0, FALSE, 0, 0)

Bin(i, c) == [img |-> i, req |-> [entry |-> "payload", size |-> 1, crc |-> c]]
Elf(i, e) == [img |-> i, req |-> [entry |-> e, size |-> 0, crc |-> 0]]

\* Every outcome of the validation, for the safety run.
MCLoads == {Bin("A", 1), Bin("B", 1), Bin("bare", 3), Elf("B", "payload"),
            Elf("newer", "payload"), Elf("A", "wild")}
\* A good image and a bad one, for the liveness run.
MCFewLoads == {Bin("A", 1), Elf("newer", "payload")}
=============================================================================
