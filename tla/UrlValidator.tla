---------------------------- MODULE UrlValidator ----------------------------
(***************************************************************************)
(* Which addresses url-validator.ts takes for private, against the ranges  *)
(* its comments document.  HttpClient only knows that an address may be    *)
(* refused; here is which ones are.                                        *)
(***************************************************************************)
EXTENDS Integers, TLAPS

(* An IPv4 address is its four parts, an IPv6 address its eight groups.    *)
Ipv4 == [1..4 -> 0..255]
Group == {g \in Nat : g < 65536}
Ipv6 == [1..8 -> Group]

IsPrivateIpv4(ip) ==
  \/ \A i \in 1..4 : ip[i] = 0
  \/ ip[1] \in {127, 10}
  \/ ip[1] = 172 /\ ip[2] \in 16..31
  \/ ip[1] = 192 /\ ip[2] = 168
  \/ ip[1] = 169 /\ ip[2] = 254

Loopback6 == [i \in 1..8 |-> IF i = 8 THEN 1 ELSE 0]

(* The first two characters of an address, as a number.  A group is        *)
(* written without leading zeros, so they are not always its high byte.    *)
FirstTwoDigits(group) ==
  IF group >= 4096 THEN group \div 256
  ELSE IF group >= 256 THEN group \div 16
  ELSE group

(* "fc" and "fd" are 252 and 253.                                          *)
IsPrivateIpv6(ip) == ip = Loopback6 \/ FirstTwoDigits(ip[1]) \in {252, 253}

IsPrivateIp(ip) ==
  IF ip \in Ipv4 THEN IsPrivateIpv4(ip) ELSE ip \in Ipv6 /\ IsPrivateIpv6(ip)

-----------------------------------------------------------------------------
(* The documented ranges: the upper half of an address, shifted right by   *)
(* the bits that the mask leaves free in it, is the number of the block.   *)
Blocks == {[free |-> 256, number |-> 127],               \* 127.0.0.0/8
           [free |-> 256, number |-> 10],                \* 10.0.0.0/8
           [free |-> 16,  number |-> 172 * 16 + 1],      \* 172.16.0.0/12
           [free |-> 1,   number |-> 192 * 256 + 168],   \* 192.168.0.0/16
           [free |-> 1,   number |-> 169 * 256 + 254]}   \* 169.254.0.0/16

InBlock(ip, block) == (256 * ip[1] + ip[2]) \div block.free = block.number

(* fc00::/7: the upper seven bits of the first group are 1111110.          *)
UniqueLocal(ip) == ip[1] \div 512 = 126

(* Shifting the upper half of an address leaves the parts compared.        *)
LEMMA UpperHalf ==
  ASSUME NEW a \in Int, 0 <= a, a <= 255, NEW b \in Int, 0 <= b, b <= 255
  PROVE  /\ (256 * a + b) \div 256 = a
         /\ (256 * a + b) \div 16 = 2753 <=> a = 172 /\ 16 <= b /\ b <= 31
         /\ (256 * a + b) \div 1 = 49320 <=> a = 192 /\ b = 168
         /\ (256 * a + b) \div 1 = 43518 <=> a = 169 /\ b = 254
<1>1. (256 * a + b) \div 256 = a
  OBVIOUS
<1>2. (256 * a + b) \div 16 = 2753 <=> a = 172 /\ 16 <= b /\ b <= 31
  OBVIOUS
<1>3. (256 * a + b) \div 1 = 256 * a + b
  OBVIOUS
<1> QED
  BY <1>1, <1>2, <1>3

(* Of IPv4, isPrivateIp refuses the unspecified address and the documented *)
(* CIDR blocks, and nothing else: its comparisons of parts are the masks.  *)
THEOREM Ipv4AsDocumented ==
  \A ip \in Ipv4 : IsPrivateIp(ip) <=>
    (\A i \in 1..4 : ip[i] = 0) \/ \E block \in Blocks : InBlock(ip, block)
<1> TAKE ip \in Ipv4
<1> DEFINE a == ip[1]
           b == ip[2]
<1>1. a \in Int /\ 0 <= a /\ a <= 255 /\ b \in Int /\ 0 <= b /\ b <= 255
  BY DEF Ipv4
<1>2. (\E block \in Blocks : InBlock(ip, block)) <=>
        \/ (256 * a + b) \div 256 = 127
        \/ (256 * a + b) \div 256 = 10
        \/ (256 * a + b) \div 16 = 2753
        \/ (256 * a + b) \div 1 = 49320
        \/ (256 * a + b) \div 1 = 43518
  BY DEF Blocks, InBlock
<1>3. /\ (256 * a + b) \div 256 = a
      /\ (256 * a + b) \div 16 = 2753 <=> a = 172 /\ 16 <= b /\ b <= 31
      /\ (256 * a + b) \div 1 = 49320 <=> a = 192 /\ b = 168
      /\ (256 * a + b) \div 1 = 43518 <=> a = 169 /\ b = 254
  <2> HIDE DEF a, b
  <2> QED
    BY <1>1, UpperHalf
<1>4. IsPrivateIp(ip) <=>
        \/ \A i \in 1..4 : ip[i] = 0
        \/ a = 127 \/ a = 10
        \/ a = 172 /\ 16 <= b /\ b <= 31
        \/ a = 192 /\ b = 168
        \/ a = 169 /\ b = 254
  BY <1>1 DEF IsPrivateIp, IsPrivateIpv4
<1> HIDE DEF a, b
<1> QED
  BY <1>2, <1>3, <1>4

(* Of IPv6 it looks at the text.  It refuses all of fc00::/7; an address   *)
(* whose first group has fewer than four digits may be refused as well,    *)
(* and apart from ::1 no other is.                                         *)
THEOREM UniqueLocalRefused ==
  \A ip \in Ipv6 :
    /\ UniqueLocal(ip) => IsPrivateIp(ip)
    /\ IsPrivateIp(ip) => UniqueLocal(ip) \/ ip = Loopback6 \/ ip[1] < 4096
<1>1. ASSUME NEW group \in Int, 0 <= group, group <= 65535
      PROVE  /\ group \div 512 = 126 => FirstTwoDigits(group) \in {252, 253}
             /\ FirstTwoDigits(group) \in {252, 253} => group \div 512 = 126 \/ group < 4096
  BY <1>1 DEF FirstTwoDigits
<1> TAKE ip \in Ipv6
<1>2. ip[1] \in Group
  BY DEF Ipv6
<1>3. ip[1] \in Int /\ 0 <= ip[1] /\ ip[1] <= 65535
  BY <1>2 DEF Group
<1>4. ip \notin Ipv4
  <2>1. DOMAIN ip = 1..8 /\ 8 \notin 1..4
    BY DEF Ipv6
  <2> QED
    BY <2>1 DEF Ipv4
<1> QED
  BY <1>1, <1>3, <1>4 DEF UniqueLocal, IsPrivateIp, IsPrivateIpv6

=============================================================================
