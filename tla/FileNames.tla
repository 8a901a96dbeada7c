----------------------------- MODULE FileNames -----------------------------
(***************************************************************************)
(* The names of the files of a run of split: the text that group_keys      *)
(* (flow/strategy.rs) writes for a group's key, or the writers of          *)
(* output/mod.rs for a session, in which sanitize_key (output/split.rs)    *)
(* and sanitize_filename (output/mod.rs) replace what a file name may not  *)
(* hold.  The stem and the extension are the same for all groups of an     *)
(* input and left out, and so are the keys without addresses, whose texts  *)
(* have fixed shapes.                                                      *)
(*                                                                         *)
(* A text is a sequence of numerals and separators.  A numeral is the      *)
(* number its digits stand for in hexadecimal, whatever base it was        *)
(* written in: the octet 10 and the group 10 (sixteen) are one text.  Two  *)
(* numerals never stand side by side and none has a leading zero, so       *)
(* different sequences are different strings.  An address is a number      *)
(* whose segments, four octets or eight groups of 16 bits, are given by    *)
(* Segments.                                                               *)
(***************************************************************************)
EXTENDS Integers, SequencesExt

CONSTANTS
  Dot, Colon, Underscore,   \* the separators
  Segments(_)               \* the segments of an address

(* A decimal number of up to five digits as a numeral; a hexadecimal one   *)
(* is its own.                                                             *)
Digit(n, unit) == (n \div unit) % 10

Decimal(n) ==
  Digit(n, 1) + 16 * Digit(n, 10) + 256 * Digit(n, 100) + 4096 * Digit(n, 1000)
    + 65536 * (n \div 10000)

Decimals(numbers) == [i \in DOMAIN numbers |-> Decimal(numbers[i])]

IsV4(ip) == Len(Segments(ip)) = 4

(* An IPv4-mapped IPv6 address, and the octets in its last two groups.     *)
IsMapped(ip) ==
  ~IsV4(ip) /\ (\A i \in 1..5 : Segments(ip)[i] = 0) /\ Segments(ip)[6] = 65535

Octets(ip) ==
  LET g == Segments(ip) IN <<g[7] \div 256, g[7] % 256, g[8] \div 256, g[8] % 256>>

(* Display of IpAddr: dotted octets; `::ffff:' and dotted octets; or       *)
(* groups of which the longest run of at least two zeros, the first such   *)
(* run, is written `::'.                                                   *)
Joined(segments, sep) ==
  FlattenSeq([i \in DOMAIN segments |->
    IF i = 1 THEN <<segments[i]>> ELSE <<sep, segments[i]>>])

ZeroRuns(groups) ==
  {run \in (DOMAIN groups) \X (DOMAIN groups) :
     run[1] < run[2] /\ \A i \in run[1]..run[2] : groups[i] = 0}

LongestRun(runs) ==
  CHOOSE r \in runs : \A s \in runs :
    \/ r[2] - r[1] > s[2] - s[1]
    \/ r[2] - r[1] = s[2] - s[1] /\ r[1] <= s[1]

IpText(ip) ==
  LET groups == Segments(ip)
      runs   == ZeroRuns(groups)
      run    == LongestRun(runs)
  IN CASE IsV4(ip)     -> Joined(Decimals(groups), Dot)
       [] IsMapped(ip) -> <<Colon, Colon, 65535, Colon>> \o Joined(Decimals(Octets(ip)), Dot)
       [] ~IsV4(ip) /\ ~IsMapped(ip) /\ runs = {} -> Joined(groups, Colon)
       [] ~IsV4(ip) /\ ~IsMapped(ip) /\ runs # {} ->
            Joined(SubSeq(groups, 1, run[1] - 1), Colon) \o <<Colon, Colon>>
              \o Joined(SubSeq(groups, run[2] + 1, Len(groups)), Colon)

(* A key is a tuple of a flow or session, or the address or the two of a   *)
(* host or hostpair.                                                       *)
IsTuple(key) == Len(key) = 5

HasAddresses(key) == IsTuple(key) \/ key[1] \in {"ip", "ips"}

AddressesOf(key) == IF IsTuple(key) THEN {key[2], key[3]} ELSE ToSet(Tail(key))

TupleText(key) ==
  <<Decimal(key[1]), Underscore>> \o IpText(key[2]) \o <<Underscore>> \o IpText(key[3])
    \o <<Underscore, Decimal(key[4]), Underscore, Decimal(key[5])>>

(* The format! calls of group_keys on a key with addresses. *)
KeyText(key) ==
  IF IsTuple(key) THEN TupleText(key)
  ELSE IF key[1] = "ip" THEN IpText(key[2])
  ELSE IpText(key[2]) \o <<Underscore>> \o IpText(key[3])

(* Mutant: a run of separators becomes one underscore. *)
SanitizeKeyShort(text) ==
  FlattenSeq([i \in DOMAIN text |->
    IF text[i] \notin {Dot, Colon, Underscore} THEN <<text[i]>>
    ELSE IF i > 1 /\ text[i - 1] \in {Dot, Colon, Underscore} THEN <<>> ELSE <<Underscore>>])

SanitizeKey(text) ==
  [i \in DOMAIN text |-> IF text[i] \in {Dot, Colon} THEN Underscore ELSE text[i]]

SanitizedKey(key) == SanitizeKey(KeyText(key))
=============================================================================
