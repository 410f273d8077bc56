----------------------------- MODULE MCUploadJob -----------------------------
(* Instances of UploadJob for TLC. *)
EXTENDS UploadJob, FiniteSets

\* Bytes of one bit, five of them in three chunks; the first two schedules share
\* the checksums of all their chunks, and the protocol refuses the third.
Zero == {}
One == Bits
MCAccepted == {<<Zero, One, One, Zero, One>>, <<One, Zero, Zero, One, One>>}
MCSchedules == MCAccepted \union {<<Zero, One>>}

\* A checksum with collisions and a digest without.
MCCrc(bytes) == Cardinality({k \in DOMAIN bytes : bytes[k] = One}) % 2
MCSha(bytes) == [sha256 |-> bytes]
=============================================================================
