--------------------------- MODULE RelayAddress ---------------------------
(***************************************************************************)
(* The relay-address parser of the boundary: neonClientConnect and         *)
(* neonHostNew both split their "host:port" argument with                  *)
(*                                                                         *)
(*     sscanf(addrStr, "%255[^:]:%d", host, &port) != 2   -> reject        *)
(*                                                                         *)
(* A string is a sequence of one-character strings.  Parse(s) models the   *)
(* scanf directives one by one and yields the number of conversions scanf  *)
(* returns with the host and port it stored.  WellFormed is the address    *)
(* format the specification documents ("exactly host:port, host at most   *)
(* 255 bytes, port a decimal integer in 0..65535"), the reference Parse is *)
(* checked against.                                                        *)
(***************************************************************************)
EXTENDS Integers, Sequences

CONSTANT HostCap      \* the field width of %255[^:]: 255 in the code

ASSUME HostCap \in Nat \ {0}

Colon      == ":"
DigitChars == <<"0", "1", "2", "3", "4", "5", "6", "7", "8", "9">>
IsDigit(c) == \E i \in 1..10 : DigitChars[i] = c
DigitValue(c) == CHOOSE v \in 0..9 : DigitChars[v + 1] = c
IsSpace(c) == c \in {" ", "\t", "\n"}          \* isspace(), skipped by %d

(* Length of the longest prefix of s whose elements all satisfy P.         *)
PrefixLen(s, P(_)) ==
  CHOOSE i \in 0..Len(s) : /\ \A j \in 1..i : P(s[j])
                           /\ i = Len(s) \/ ~P(s[i + 1])

Drop(s, k) == SubSeq(s, k + 1, Len(s))

RECURSIVE DecimalValue(_)
DecimalValue(ds) ==
  IF ds = <<>> THEN 0
  ELSE 10 * DecimalValue(SubSeq(ds, 1, Len(ds) - 1)) + DigitValue(ds[Len(ds)])

(* Mutation of ScanHost: the field width one short of the buffer (%254).   *)
ScanHostShort(s) ==
  LET n == PrefixLen(s, LAMBDA c : c # Colon)
  IN  IF n > HostCap - 1 THEN HostCap - 1 ELSE n

(* %255[^:] : the number of non-colon characters stored in host[256].      *)
ScanHost(s) ==
  LET n == PrefixLen(s, LAMBDA c : c # Colon)
  IN  IF n > HostCap THEN HostCap ELSE n

(* %d : skip white space, an optional sign, then at least one digit.       *)
ScanInt(r) ==
  LET ws  == PrefixLen(r, IsSpace)
      r2  == Drop(r, ws)
      sg  == IF r2 # <<>> /\ r2[1] \in {"+", "-"} THEN 1 ELSE 0
      ds  == SubSeq(Drop(r2, sg), 1, PrefixLen(Drop(r2, sg), IsDigit))
  IN  [ok  |-> ds # <<>>,
       val |-> IF sg = 1 /\ r2[1] = "-" THEN 0 - DecimalValue(ds)
                                        ELSE DecimalValue(ds)]

(***************************************************************************)
(* sscanf(s, "%255[^:]:%d", host, &port): the count is the number of       *)
(* directives that stored a value; what follows the digits is ignored.     *)
(* An empty match of %[ stops the scan with 0 conversions (the boundary    *)
(* only passes C strings, so EOF is never the result).                     *)
(***************************************************************************)
Parse(s) ==
  LET h    == ScanHost(s)
      rest == Drop(s, h)
      num  == ScanInt(Drop(rest, 1))
  IN  CASE h = 0 -> [n |-> 0, host |-> <<>>, port |-> 0]
        [] rest = <<>> \/ rest[1] # Colon \/ ~num.ok ->
              [n |-> 1, host |-> SubSeq(s, 1, h), port |-> 0]
        [] OTHER -> [n |-> 2, host |-> SubSeq(s, 1, h), port |-> num.val]

(* The boundary accepts the address exactly when scanf returns 2.          *)
Accepts(s) == Parse(s).n = 2

-----------------------------------------------------------------------------
(* The documented address format, the reference for Parse.                 *)

RECURSIVE Decimal(_)
Decimal(p) == IF p < 10 THEN <<DigitChars[p + 1]>>
                        ELSE Decimal(p \div 10) \o Decimal(p % 10)

Format(host, port) == host \o <<Colon>> \o Decimal(port)

Hosts(alphabet) == UNION {[1..n -> alphabet \ {Colon}] : n \in 1..HostCap}

WellFormed(s) ==
  \E i \in 1..Len(s) :
     /\ s[i] = Colon
     /\ i - 1 \in 1..HostCap
     /\ \A j \in 1..i - 1 : s[j] # Colon
     /\ Drop(s, i) # <<>>
     /\ \A j \in i + 1..Len(s) : IsDigit(s[j])
     /\ DecimalValue(Drop(s, i)) <= 65535
=============================================================================
