-------------------------- MODULE MCRelayAddress --------------------------
(***************************************************************************)
(* Checks the scanf-based address parser against the documented format    *)
(* over every string of at most MaxLen characters of a small alphabet.     *)
(* The alphabet has a host letter, two digits (so ports 0, 7, 70, 77 ...), *)
(* the separator, a sign and a blank: every directive of the format        *)
(* string can succeed and fail.  HostCap stands for the 255-byte field.    *)
(***************************************************************************)
EXTENDS RelayAddress

CONSTANTS Alphabet, MaxLen, Ports

VARIABLE input          \* the relay_addr string handed to the boundary

(* The caller hands the boundary one string after another: each step      *)
(* types one more character, or starts over after MaxLen characters, so    *)
(* every string of at most MaxLen characters is reached.                   *)
Init == input = <<>>
Next == \E c \in Alphabet :
          input' = IF Len(input) < MaxLen THEN Append(input, c) ELSE <<c>>
Spec == Init /\ [][Next]_input

(***************************************************************************)
(* Round trip (spec section 8): formatting any host of 1..255 non-colon    *)
(* bytes with a port in 0..65535 and parsing it back with the sscanf call   *)
(* of neonClientConnect/neonHostNew recovers the same host and port; in    *)
(* particular a host of exactly the field width is still accepted.         *)
(***************************************************************************)
RoundTrip ==
  \A h \in Hosts(Alphabet), p \in Ports :
     input = Format(h, p) => Parse(input) = [n |-> 2, host |-> h, port |-> p]

(***************************************************************************)
(* Only well-formed addresses are accepted (spec 4.5, 6): the sscanf call   *)
(* of neonClientConnect/neonHostNew returns 2 only for "host:port" with a   *)
(* decimal port in 0..65535 and nothing after it.                          *)
(***************************************************************************)
AcceptsOnlyWellFormed == Accepts(input) => WellFormed(input)
=============================================================================
