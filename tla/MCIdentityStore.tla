--------------------------- MODULE MCIdentityStore ---------------------------
(* Instances of IdentityStore for TLC. *)
EXTENDS IdentityStore

Ask(name, serial, low, high, level) ==
  [name |-> name, serial |-> serial, low |-> low, high |-> high, level |-> level]

CONSTANTS desk, s1

\* A serial of its own and then the board's again, each with a range whose levels
\* the default level is not in or not the top of, and a level out of its range.
MCRequests == {Ask(DefaultName, s1, 0, 1, 1), Ask(DefaultName, NoText, 1, 2, 1),
               Ask(DefaultName, s1, 1, 2, 0)}

\* Another name as well, which may come with the board's serial.
MCNamedRequests ==
  MCRequests \union {Ask(desk, NoText, 1, 2, 2), Ask(desk, s1, 1, 2, 1)}
=============================================================================
