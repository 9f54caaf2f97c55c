------------------------------- MODULE IPAddr -------------------------------
(***************************************************************************)
(* The address text of src/lib/m8rscript/src/IPAddr.cpp: toIPAddr, which   *)
(* parses a dotted quad into the four octets of an IPAddr, and             *)
(* IPAddr::toString, which prints them.                                    *)
(*                                                                         *)
(* A string is a sequence of one-character strings.  String::split,        *)
(* String::toUInt and String(uint8_t) are not in the repository; they are  *)
(* modelled from what their names promise: split cuts the string at every  *)
(* separator, toUInt with allowWhitespace false accepts a non-empty run of *)
(* decimal digits, and String of an octet is its decimal digits.  The      *)
(* strings the model parses have no empty part and no number wider than   *)
(* 32 bits, where another reading of these helpers could differ.          *)
(***************************************************************************)
EXTENDS Integers, Sequences

LOCAL SeqExt == INSTANCE SequencesExt

DigitChars == <<"0", "1", "2", "3", "4", "5", "6", "7", "8", "9">>
DigitChar(d) == DigitChars[d + 1]
IsDigitChar(c) == \E d \in 0..9 : DigitChar(d) = c
DigitVal(c) == CHOOSE d \in 0..9 : DigitChar(d) = c

(* String(n) of an octet: its decimal digits, most significant first.     *)
RECURSIVE Decimal(_)
Decimal(n) == IF n < 10 THEN <<DigitChar(n)>>
              ELSE Decimal(n \div 10) \o <<DigitChar(n % 10)>>

(* String::split(sep): the parts between separators, in order.            *)
Split(s, sep) ==
    SeqExt!FoldLeft(LAMBDA parts, c :
                        IF c = sep THEN Append(parts, <<>>)
                        ELSE [parts EXCEPT ![Len(parts)] = Append(@, c)],
                    <<<<>>>>, s)

(* String::toUInt(v, s, false): whether s is a number, and its value.     *)
IsUInt(s) == s # <<>> /\ \A i \in DOMAIN s : IsDigitChar(s[i])
UIntOf(s) == SeqExt!FoldLeft(LAMBDA v, c : v * 10 + DigitVal(c), 0, s)

(* An octet toIPAddr never wrote: its value is whatever IPAddr's default  *)
(* constructor, declared in IPAddr.h outside the repository, leaves.       *)
Unset == -1
DefaultIP == [i \in 0..3 |-> Unset]

(* The loop of toIPAddr from part i on: a part that is not a number or is *)
(* above 255 returns false, leaving the octets written so far; otherwise  *)
(* ip[i] = static_cast<uint8_t>(v).                                         *)
RECURSIVE OctetLoop(_, _, _)
OctetLoop(parts, i, ip) ==
    IF i = 4 THEN [ok |-> TRUE, ip |-> ip]
    ELSE LET p == parts[i + 1] IN
         IF ~IsUInt(p) \/ UIntOf(p) > 255 THEN [ok |-> FALSE, ip |-> ip]
         ELSE OctetLoop(parts, i + 1, [ip EXCEPT ![i] = UIntOf(p) % 256])

(* toIPAddr(ipString, ip): split at "."; anything but four parts is false; *)
(* then the octet loop.                                                    *)
ToIPAddr(s, ip) ==
    LET parts == Split(s, ".") IN
    IF Len(parts) # 4 THEN [ok |-> FALSE, ip |-> ip] ELSE OctetLoop(parts, 0, ip)

(* IPAddr::toString: the four octets in decimal, joined by ".".           *)
IPAddrToString(ip) ==
    Decimal(ip[0]) \o <<".">> \o Decimal(ip[1]) \o <<".">> \o
    Decimal(ip[2]) \o <<".">> \o Decimal(ip[3])
=============================================================================
