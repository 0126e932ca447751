------------------------ MODULE StatsdConfig_proofs ------------------------
(***************************************************************************)
(* Proofs about StatsdConfig, for any servers, any hosts and any number of *)
(* directives, restarts, loads and unloads: an address in the form that is *)
(* documented is parsed as it was written, and a daemon that serves has no *)
(* server without the StatsdServer it needs.                               *)
(***************************************************************************)
EXTENDS StatsdConfig, SequenceTheorems, WellFoundedInduction, TLAPS

Tokens == STRING \cup {"[", "]", ":", "//", "tcp", "udp"}

(* A set of natural numbers has a least, and a set of positions a greatest *)
(* member.                                                                 *)
LEMMA Least ==
  ASSUME NEW T \in SUBSET Nat, T # {}
  PROVE  \E x \in T : \A y \in T : x <= y
<1> DEFINE R == {ss \in Nat \X Nat : ss[1] < ss[2]}
<1>1. IsWellFoundedOn(R, Nat)  BY NatLessThanWellFounded DEF OpToRel
<1> HIDE DEF R
<1>2. PICK x \in T : \A y \in T : <<y, x>> \notin R  BY <1>1, WFMin
<1>3. \A y \in T : ~(y < x)  BY <1>2 DEF R
<1> QED  BY <1>3

LEMMA Greatest ==
  ASSUME NEW n \in Nat, NEW T \in SUBSET 1..n, T # {}
  PROVE  \E x \in T : \A y \in T : y <= x
<1> DEFINE D == {n - i : i \in T}
<1>1. ASSUME NEW i \in T PROVE i \in 1..n /\ i \in Int /\ n - i \in Nat
  <2>1. i \in 1..n  OBVIOUS
  <2> QED  BY <2>1
<1>2. D \in SUBSET Nat /\ D # {}  BY <1>1
<1>3. PICK d \in D : \A e \in D : d <= e  BY <1>2, Least
<1>4. PICK x \in T : d = n - x  BY <1>3
<1>5. ASSUME NEW y \in T PROVE y <= x
  <2>1. n - y \in D  OBVIOUS
  <2>2. n - x <= n - y  BY <2>1, <1>3, <1>4
  <2>3. x \in Int /\ y \in Int  BY <1>1
  <2> QED  BY <2>2, <2>3
<1> QED  BY <1>5
-----------------------------------------------------------------------------
(* LastColon() is the position of a colon with none behind it.             *)
LEMMA LastColonExists ==
  ASSUME NEW t \in Seq(Tokens), NEW c \in DOMAIN t, t[c] = ":"
  PROVE  /\ LastColon(t) \in DOMAIN t
         /\ t[LastColon(t)] = ":"
         /\ \A j \in (LastColon(t) + 1)..Len(t) : t[j] # ":"
<1> DEFINE T == {i \in 1..Len(t) : t[i] = ":"}
           Last(i) == t[i] = ":" /\ \A j \in (i + 1)..Len(t) : t[j] # ":"
<1>1. T \in SUBSET 1..Len(t) /\ T # {} /\ Len(t) \in Nat  OBVIOUS
<1>2. PICK x \in T : \A y \in T : y <= x  BY <1>1, Greatest
<1>3. x \in DOMAIN t /\ Last(x)
  <2>1. x \in 1..Len(t) /\ t[x] = ":"  BY <1>2
  <2>2. ASSUME NEW j \in (x + 1)..Len(t), t[j] = ":" PROVE FALSE
    <3>1. j \in T /\ j > x  BY <2>1, <2>2
    <3> QED  BY <1>2, <2>1, <3>1
  <2> QED  BY <2>1, <2>2
<1>4. LastColon(t) = CHOOSE i \in DOMAIN t : Last(i)  BY DEF LastColon
<1> HIDE DEF Last
<1>5. LastColon(t) \in DOMAIN t /\ Last(LastColon(t))  BY <1>3, <1>4
<1> QED  BY <1>5 DEF Last

(* No other position is.                                                   *)
LEMMA LastColonIs ==
  ASSUME NEW t \in Seq(Tokens), NEW i \in DOMAIN t, t[i] = ":",
         \A j \in (i + 1)..Len(t) : t[j] # ":"
  PROVE  LastColon(t) = i
<1>1. /\ LastColon(t) \in DOMAIN t /\ t[LastColon(t)] = ":"
      /\ \A j \in (LastColon(t) + 1)..Len(t) : t[j] # ":"
  BY LastColonExists
<1>2. LastColon(t) \in 1..Len(t) /\ i \in 1..Len(t) /\ Len(t) \in Nat  BY <1>1
<1>3. ~(LastColon(t) < i) /\ ~(i < LastColon(t))  BY <1>1, <1>2
<1> QED  BY <1>2, <1>3

LEMMA NoColon ==
  ASSUME NEW t, \A i \in DOMAIN t : t[i] # ":"
  PROVE  LastColon(t) = 0
BY DEF LastColon
-----------------------------------------------------------------------------
DefaultOr(a) == IF a.port = NONE THEN STATSD_DEFAULT_PORT ELSE atoi[a.port]

LEMMA AddressParts ==
  ASSUME NEW a \in Addresses
  PROVE  /\ a.host \in Seq(Tokens) /\ a.host # <<>>
         /\ \A i \in DOMAIN a.host : a.host[i] \notin {"[", "]", "//"}
         /\ a.port # NONE => /\ a.port \in Tokens /\ a.port \in DOMAIN atoi
                             /\ a.port \notin {":", "]", "//"}
         /\ a.scheme \in {"tcp", "udp", NONE}
<1> DEFINE h == a.host
           p == a.port
<1>1. h \in Hosts /\ p \in Ports \cup {NONE} /\ a.scheme \in {"tcp", "udp", NONE}
  BY DEF Addresses
<1> HIDE DEF h, p
<1>2. /\ h \in Seq(STRING) /\ h # <<>>
      /\ \A i \in DOMAIN h : h[i] \notin {"[", "]", "//"}
  <2>1. ASSUME NEW g \in Hosts PROVE g \in Seq(STRING) /\ g # <<>>  BY AddressAssumption
  <2>2. ASSUME NEW g \in Hosts, NEW i \in DOMAIN g
        PROVE  g[i] \notin {"[", "]", "//"}
    BY AddressAssumption
  <2> QED  BY <1>1, <2>1, <2>2
<1>3. h \in Seq(Tokens)
  <2>1. PICK n \in Nat : h \in [1..n -> STRING]  BY <1>2
  <2>2. h \in [1..n -> Tokens]  BY <2>1 DEF Tokens
  <2> QED  BY <2>2
<1>4. p # NONE => p \in DOMAIN atoi /\ p \notin {":", "]", "//"}
  <2>1. ASSUME NEW q \in Ports PROVE q \in DOMAIN atoi  BY AddressAssumption
  <2>2. ASSUME NEW q \in Ports PROVE q \notin {":", "]", "//"}  BY AddressAssumption
  <2> QED  BY <1>1, <2>1, <2>2
<1>5. DOMAIN atoi \subseteq Tokens  BY ConfigAssumption DEF Tokens
<1>6. p # NONE => p \in Tokens  BY <1>4, <1>5
<1> QED  BY <1>1, <1>2, <1>3, <1>4, <1>6 DEF h, p

(* A host without a colon in it.                                           *)
LEMMA NameParsed ==
  ASSUME NEW a \in Addresses, \A i \in DOMAIN a.host : a.host[i] # ":"
  PROVE  Parsed(WithPort(a)) = At(a.host, DefaultOr(a))
<1> DEFINE h == a.host
           t == WithPort(a)
           n == Len(h)
<1>1. h \in Seq(Tokens) /\ n \in Nat /\ n > 0  BY AddressParts
<1>2. Bracketed(h) = h  BY DEF Bracketed
<1>3. CASE a.port = NONE
  <2>1. t = h  BY <1>2, <1>3 DEF WithPort
  <2>2. LastColon(t) = 0  BY <2>1, NoColon
  <2> QED  BY <1>3, <2>1, <2>2 DEF Parsed, DefaultOr
<1>4. CASE a.port # NONE
  <2> DEFINE p == a.port
  <2>1. p \in Tokens /\ p \in DOMAIN atoi /\ p # ":" /\ ":" \in Tokens
    BY <1>4, AddressParts DEF Tokens
  <2>2. t = h \o <<":", p>>  BY <1>2, <1>4 DEF WithPort
  <2>3. h[1] # "["  BY <1>1, AddressParts
  <2> HIDE DEF p, h, t
  <2>4. /\ t \in Seq(Tokens) /\ Len(t) = n + 2
        /\ t[n + 1] = ":" /\ t[n + 2] = p /\ t[1] = h[1]
    BY <1>1, <2>1, <2>2
  <2>5. LastColon(t) = n + 1
    <3>1. n + 1 \in DOMAIN t  BY <1>1, <2>4
    <3>2. \A j \in (n + 1 + 1)..Len(t) : t[j] # ":"  BY <1>1, <2>1, <2>4
    <3> QED  BY <2>4, <3>1, <3>2, LastColonIs
  <2>6. SubSeq(t, 1, n) = h  BY <1>1, <2>1, <2>2, <2>4
  <2>7. SubSeq(t, n + 2, Len(t)) # <<>> /\ SubSeq(t, n + 2, Len(t))[1] = p
    <3> DEFINE m == n + 2
    <3>1. m \in Nat /\ m > 0 /\ Len(t) = m /\ t[m] = p  BY <1>1, <2>4
    <3> HIDE DEF m
    <3>2. Len(SubSeq(t, m, m)) = 1 /\ SubSeq(t, m, m)[1] = t[m]  BY <2>4, <3>1
    <3>3. SubSeq(t, m, m) # <<>>
      <4> DEFINE x == SubSeq(t, m, m)
      <4>1. Len(x) = 1  BY <3>2
      <4> HIDE DEF x
      <4>2. x # <<>>  BY <4>1
      <4> QED  BY <4>2 DEF x
    <3> QED  BY <3>1, <3>2, <3>3 DEF m
  <2>8. Atoi(SubSeq(t, n + 2, Len(t))) = atoi[p]  BY <2>1, <2>7 DEF Atoi
  <2>9. Parsed(t) = At(SubSeq(t, 1, n), Atoi(SubSeq(t, n + 2, Len(t))))
    <3> DEFINE i == LastColon(t)
    <3>1. i = n + 1 /\ i > 0 /\ i - 1 = n /\ i + 1 = n + 2 /\ t[1] # "["
      BY <1>1, <2>3, <2>4, <2>5
    <3>2. i # 0  BY <1>1, <3>1
    <3> HIDE DEF i
    <3> QED  BY <3>1, <3>2 DEF Parsed, i
  <2>10. DefaultOr(a) = atoi[p]  BY <1>4 DEF DefaultOr, p
  <2> QED  BY <2>6, <2>8, <2>9, <2>10 DEF h, t
<1> QED  BY <1>3, <1>4

(* A host with a colon in it, which is written in brackets: its colons are *)
(* not taken for that of the port.                                         *)
LEMMA BracketedParsed ==
  ASSUME NEW a \in Addresses, NEW c \in DOMAIN a.host, a.host[c] = ":"
  PROVE  Parsed(WithPort(a)) = At(a.host, DefaultOr(a))
<1> DEFINE h == a.host
           b == <<"[">> \o h \o <<"]">>
           t == WithPort(a)
           n == Len(h)
<1>1. /\ h \in Seq(Tokens) /\ n \in Nat /\ n > 0 /\ c \in 1..n
      /\ \A i \in 1..n : h[i] # "]"
  BY AddressParts
<1>2. Bracketed(h) = b  BY DEF Bracketed
<1>3. "[" \in Tokens /\ "]" \in Tokens /\ ":" \in Tokens  BY DEF Tokens
<1> HIDE DEF h
<1>4. /\ b \in Seq(Tokens) /\ Len(b) = n + 2
      /\ b[1] = "[" /\ b[n + 2] = "]" /\ \A i \in 1..n : b[i + 1] = h[i]
  BY <1>1, <1>3
<1>5. SubSeq(b, 2, n + 1) = h
  <2>1. /\ SubSeq(b, 2, n + 1) \in Seq(Tokens) /\ Len(SubSeq(b, 2, n + 1)) = n
        /\ \A i \in 1..n : SubSeq(b, 2, n + 1)[i] = h[i]
    BY <1>1, <1>4
  <2> QED  BY <1>1, <2>1, SeqEqual
<1> HIDE DEF b, n, t
<1>6. CASE a.port = NONE
  <2> DEFINE i == LastColon(b)
  <2>1. t = b  BY <1>2, <1>6 DEF WithPort, t, h
  <2>2. c + 1 \in DOMAIN b /\ b[c + 1] = ":"  BY <1>1, <1>4 DEF h
  <2>3. i \in 1..Len(b) /\ b[i] = ":"  BY <1>4, <2>2, LastColonExists
  <2> HIDE DEF i
  <2>4. i # 1 /\ i # n + 2  BY <1>4, <2>3
  <2>5. i \in Int /\ i > 1 /\ i < n + 2  BY <1>1, <1>4, <2>3, <2>4
  <2>6. b[i - 1] # "]"
    <3>1. CASE i - 1 = 1  BY <1>4, <3>1
    <3>2. CASE i - 1 # 1
      <4>1. i - 2 \in 1..n  BY <1>1, <2>5, <3>2
      <4>2. b[(i - 2) + 1] # "]"  BY <1>1, <1>4, <4>1
      <4>3. (i - 2) + 1 = i - 1  BY <2>5
      <4> QED  BY <4>2, <4>3
    <3> QED  BY <3>1, <3>2
  <2>7. b[Len(b)] = "]" /\ Len(b) - 1 = n + 1  BY <1>1, <1>4
  <2>8. Parsed(b) = At(SubSeq(b, 2, Len(b) - 1), STATSD_DEFAULT_PORT)
    <3>1. i # 0 /\ i > 0  BY <2>5
    <3> QED  BY <1>4, <2>6, <2>7, <3>1 DEF Parsed, i
  <2> QED  BY <1>5, <1>6, <2>1, <2>7, <2>8 DEF DefaultOr, h, t
<1>7. CASE a.port # NONE
  <2> DEFINE p == a.port
  <2>1. p \in Tokens /\ p \in DOMAIN atoi /\ p # ":" /\ p # "]"
    BY <1>7, AddressParts
  <2>2. t = b \o <<":", p>>  BY <1>2, <1>7 DEF WithPort, t, h
  <2> HIDE DEF p
  <2>3. /\ t \in Seq(Tokens) /\ Len(t) = n + 4
        /\ t[n + 3] = ":" /\ t[n + 4] = p
        /\ \A i \in 1..(n + 2) : t[i] = b[i]
    BY <1>1, <1>3, <1>4, <2>1, <2>2
  <2>4. LastColon(t) = n + 3
    <3>1. n + 3 \in DOMAIN t  BY <1>1, <2>3
    <3>2. \A j \in (n + 3 + 1)..Len(t) : t[j] # ":"  BY <1>1, <2>1, <2>3
    <3> QED  BY <2>3, <3>1, <3>2, LastColonIs
  <2>5. t[1] = "[" /\ t[n + 2] = "]"  BY <1>1, <1>4, <2>3
  <2>6. SubSeq(t, 2, n + 1) = h
    <3>1. /\ SubSeq(t, 2, n + 1) \in Seq(Tokens) /\ Len(SubSeq(t, 2, n + 1)) = n
          /\ \A i \in 1..n : SubSeq(t, 2, n + 1)[i] = t[i + 1]
      BY <1>1, <2>3
    <3>2. \A i \in 1..n : t[i + 1] = h[i]  BY <1>1, <1>4, <2>3
    <3> QED  BY <1>1, <3>1, <3>2, SeqEqual DEF n
  <2>7. Atoi(SubSeq(t, n + 4, Len(t))) = atoi[p]
    <3> DEFINE m == n + 4
    <3>1. m \in Nat /\ m > 0 /\ Len(t) = m /\ t[m] = p  BY <1>1, <2>3
    <3> HIDE DEF m
    <3>2. Len(SubSeq(t, m, m)) = 1 /\ SubSeq(t, m, m)[1] = t[m]  BY <2>3, <3>1
    <3>3. SubSeq(t, m, m) # <<>>
      <4> DEFINE x == SubSeq(t, m, m)
      <4>1. Len(x) = 1  BY <3>2
      <4> HIDE DEF x
      <4>2. x # <<>>  BY <4>1
      <4> QED  BY <4>2 DEF x
    <3>4. Atoi(SubSeq(t, m, m)) = atoi[p]  BY <2>1, <3>1, <3>2, <3>3 DEF Atoi
    <3> QED  BY <3>1, <3>4 DEF m
  <2>8. Parsed(t) = At(SubSeq(t, 2, n + 1), Atoi(SubSeq(t, n + 4, Len(t))))
    <3> DEFINE i == LastColon(t)
    <3>1. i = n + 3 /\ i > 0 /\ i # 0 /\ i - 1 = n + 2 /\ i - 2 = n + 1 /\ i + 1 = n + 4
      BY <1>1, <2>4
    <3> HIDE DEF i
    <3> QED  BY <2>5, <3>1 DEF Parsed, i
  <2>9. DefaultOr(a) = atoi[p]  BY <1>7 DEF DefaultOr, p
  <2> QED  BY <2>6, <2>7, <2>8, <2>9 DEF h, t
<1> QED  BY <1>6, <1>7
-----------------------------------------------------------------------------
(* What is behind the scheme has no slashes, and does not look like one.   *)
LEMMA NoSlashes ==
  ASSUME NEW a \in Addresses
  PROVE  /\ WithPort(a) \in Seq(Tokens)
         /\ \A i \in DOMAIN WithPort(a) : WithPort(a)[i] # "//"
<1> DEFINE h == a.host
           b == Bracketed(a.host)
           p == a.port
<1>1. /\ h \in Seq(Tokens) /\ \A i \in DOMAIN h : h[i] # "//"
      /\ p # NONE => p \in Tokens /\ p # "//"
  BY AddressParts
<1>2. "[" \in Tokens /\ "]" \in Tokens /\ ":" \in Tokens  BY DEF Tokens
<1>3. b = h \/ b = <<"[">> \o h \o <<"]">>  BY DEF Bracketed
<1>4. WithPort(a) = b \/ (p # NONE /\ WithPort(a) = b \o <<":", p>>)  BY DEF WithPort
<1> HIDE DEF h, b, p
<1>5. b \in Seq(Tokens) /\ \A i \in DOMAIN b : b[i] # "//"
  <2>1. CASE b = h  BY <1>1, <2>1
  <2>2. CASE b = <<"[">> \o h \o <<"]">>
    <3> DEFINE front == <<"[">> \o h
    <3>1. front \in Seq(Tokens) /\ \A i \in DOMAIN front : front[i] # "//"
      BY <1>1, <1>2
    <3>2. b = front \o <<"]">>  BY <2>2
    <3> HIDE DEF front
    <3> QED  BY <1>2, <3>1, <3>2
  <2> QED  BY <1>3, <2>1, <2>2
<1>6. CASE WithPort(a) = b  BY <1>5, <1>6
<1>7. CASE p # NONE /\ WithPort(a) = b \o <<":", p>>
  <2> DEFINE t == b \o <<":", p>>
  <2>1. t \in Seq(Tokens) /\ \A i \in DOMAIN t : t[i] # "//"
    BY <1>1, <1>2, <1>5, <1>7
  <2> HIDE DEF t
  <2> QED  BY <1>7, <2>1 DEF t
<1> QED  BY <1>4, <1>6, <1>7

(* An address is parsed as it was written.                                 *)
LEMMA RecordAsWritten ==
  ASSUME NEW a \in Addresses, NEW line, line[1] = Written(a)
  PROVE  /\ ServerRecord(line).host = a.host
         /\ ServerRecord(line).port = DefaultOr(a)
         /\ ServerRecord(line).use_tcp = (a.scheme = "tcp")
<1> DEFINE w == WithPort(a)
           t == Written(a)
<1>1. w \in Seq(Tokens) /\ \A i \in DOMAIN w : w[i] # "//"  BY NoSlashes
<1>2. a.scheme \in {"tcp", "udp", NONE}  BY AddressParts
<1>3. Address(t) = w /\ UseTcp(t) = (a.scheme = "tcp")
  <2>1. CASE a.scheme = NONE
    <3>1. t = w  BY <2>1 DEF Written
    <3>2. NONE \notin {"tcp", "udp"}  BY AddressAssumption
    <3> HIDE DEF w, t
    <3>3. Len(w) >= 3 => 3 \in DOMAIN w  BY <1>1
    <3>4. ~HasScheme(t)  BY <1>1, <3>1, <3>3 DEF HasScheme
    <3> QED  BY <2>1, <3>1, <3>2, <3>4 DEF Address, UseTcp
  <2>2. CASE a.scheme # NONE
    <3> DEFINE s == a.scheme
    <3>1. t = <<s, ":", "//">> \o w  BY <2>2 DEF Written
    <3>2. s \in {"tcp", "udp"} /\ s \in Tokens /\ ":" \in Tokens /\ "//" \in Tokens
      BY <1>2, <2>2 DEF Tokens
    <3> HIDE DEF w, t, s
    <3>3. /\ t \in Seq(Tokens) /\ Len(t) = Len(w) + 3
          /\ t[1] = s /\ t[2] = ":" /\ t[3] = "//"
          /\ \A i \in 1..Len(w) : t[i + 3] = w[i]
      BY <1>1, <3>1, <3>2
    <3>4. HasScheme(t)  BY <1>1, <3>2, <3>3 DEF HasScheme
    <3>5. SubSeq(t, 4, Len(t)) = w
      <4>1. /\ SubSeq(t, 4, Len(t)) \in Seq(Tokens)
            /\ Len(SubSeq(t, 4, Len(t))) = Len(w)
            /\ \A i \in 1..Len(w) : SubSeq(t, 4, Len(t))[i] = w[i]
        BY <1>1, <3>3
      <4> QED  BY <1>1, <4>1, SeqEqual
    <3> QED  BY <3>2, <3>3, <3>4, <3>5 DEF Address, UseTcp, s
  <2> QED  BY <2>1, <2>2
<1>4. Parsed(w) = At(a.host, DefaultOr(a))
  <2>1. CASE \A i \in DOMAIN a.host : a.host[i] # ":"  BY <2>1, NameParsed
  <2>2. CASE \E c \in DOMAIN a.host : a.host[c] = ":"
    <3>1. PICK c \in DOMAIN a.host : a.host[c] = ":"  BY <2>2
    <3> QED  BY <3>1, BracketedParsed
  <2> QED  BY <2>1, <2>2
<1> HIDE DEF w, t
<1>5. line[1] = t  BY DEF t
<1> QED  BY <1>3, <1>4, <1>5 DEF ServerRecord, At
-----------------------------------------------------------------------------
(* While the configuration is read without the module, none of its         *)
(* directives is taken.                                                    *)
Unread ==
  phase = "parsing" /\ registered = {} => \A s \in Servers : conf[s].engine # "on"

ConfigInv == TypeOK /\ NoneMissing /\ ClientAsWritten /\ Unread

(* A directive keeps the invariant: the daemon does not serve meanwhile,   *)
(* and the module is loaded.                                               *)
LEMMA DirectiveKeepsInv ==
  ASSUME ConfigInv, NEW s \in Servers, NEW name, NEW accepted \in BOOLEAN, NEW value,
         Directive(s, name, accepted, value),
         accepted =>
           \/ name = "engine" /\ value \in {"on", "off"}
           \/ name = "exclude" /\ value \in {"none", "regex"}
           \/ name = "sampling" /\ value \in {NAN} \cup {p \in Percentages : 0 < p /\ p <= 1000}
           \/ name = "server" /\ \E l \in Lines : Len(l) \in 1..3 /\ value = ServerRecord(l)
  PROVE  ConfigInv'
<1>1. /\ phase = "parsing" /\ registered # {} /\ directives < MaxDirectives
      /\ directives' = directives + 1
      /\ registered' = registered /\ client' = client /\ restarts' = restarts
  BY DEF Directive, Parsing, Loaded
<1>2. TypeOK  BY DEF ConfigInv
<1>3. phase' # "serving" /\ phase' \in {"parsing", "stopped"}
  BY <1>1 DEF Directive
<1>4. conf' \in [Servers -> Records]
  <2>1. conf \in [Servers -> Records]  BY <1>2 DEF TypeOK
  <2>2. CASE conf' = conf  BY <2>1, <2>2
  <2>3. CASE conf' # conf
    <3>1. accepted /\ conf' = [conf EXCEPT ![s][name] = value]  BY <2>3 DEF Directive
    <3> DEFINE r == [conf[s] EXCEPT ![name] = value]
    <3>2. conf[s] \in Records  BY <2>1
    <3>3. r \in Records
      <4>1. CASE name = "engine" /\ value \in {"on", "off"}
        BY <3>2, <4>1 DEF Records
      <4>2. CASE name = "exclude" /\ value \in {"none", "regex"}
        BY <3>2, <4>2 DEF Records
      <4>3. CASE /\ name = "sampling"
                 /\ value \in {NAN} \cup {p \in Percentages : 0 < p /\ p <= 1000}
        BY <3>2, <4>3 DEF Records
      <4>4. CASE name = "server" /\ \E l \in Lines : Len(l) \in 1..3 /\ value = ServerRecord(l)
        BY <3>2, <4>4 DEF Records
      <4> QED  BY <3>1, <4>1, <4>2, <4>3, <4>4
    <3>4. conf' = [conf EXCEPT ![s] = r]  BY <3>1
    <3> HIDE DEF r
    <3> QED  BY <2>1, <3>3, <3>4
  <2> QED  BY <2>2, <2>3
<1>5. directives' \in 0..MaxDirectives  BY <1>1, <1>2, ConfigAssumption DEF TypeOK
<1>6. TypeOK'  BY <1>1, <1>2, <1>3, <1>4, <1>5 DEF TypeOK, Handled
<1>7. NoneMissing' /\ Unread'  BY <1>1, <1>3 DEF NoneMissing, Unread
<1>8. ClientAsWritten'  BY <1>1 DEF ConfigInv, ClientAsWritten
<1> QED  BY <1>6, <1>7, <1>8 DEF ConfigInv

(* The client that a session opens is the one that its server's record     *)
(* names.                                                                  *)
LEMMA SessInitKeepsInv ==
  ASSUME ConfigInv, NEW s \in Servers, NEW ok \in BOOLEAN, SessInit(s, ok)
  PROVE  ConfigInv'
<1> DEFINE c == conf[s].server
<1>1. /\ registered' = registered /\ phase' = phase /\ conf' = conf
      /\ directives' = directives /\ restarts' = restarts
  BY DEF SessInit
<1>2. TypeOK  BY DEF ConfigInv
<1>3. c = NONE \/ \E line \in Lines : Len(line) \in 1..3 /\ c = ServerRecord(line)
  BY <1>2 DEF TypeOK, Records
<1>4. CASE client' = NONE
  <2>1. TypeOK'  BY <1>1, <1>2, <1>4 DEF TypeOK, Handled
  <2>2. ClientAsWritten'  BY <1>4 DEF ClientAsWritten
  <2>3. NoneMissing' /\ Unread'  BY <1>1 DEF ConfigInv, NoneMissing, Unread
  <2> QED  BY <2>1, <2>2, <2>3 DEF ConfigInv
<1>5. CASE client' # NONE
  <2>1. /\ c # NONE
        /\ client' = [line |-> c.line, host |-> c.host, port |-> Port(c.port),
                      use_tcp |-> c.use_tcp, prefix |-> c.prefix, suffix |-> c.suffix]
    BY <1>5 DEF SessInit
  <2>2. PICK line \in Lines : Len(line) \in 1..3 /\ c = ServerRecord(line)
    BY <1>3, <2>1
  <2> HIDE DEF c
  <2>3. c.line = line  BY <2>2 DEF ServerRecord
  <2>4. /\ client'.line = line /\ client'.host = c.host
        /\ client'.port = Port(c.port) /\ client'.use_tcp = c.use_tcp
    BY <2>1, <2>3
  <2>5. client'.line \in Lines  BY <2>2, <2>4
  <2>6. TypeOK'  BY <1>1, <1>2, <2>5 DEF TypeOK, Handled
  <2>7. ASSUME NEW a \in Addresses, line[1] = Written(a)
        PROVE  /\ client'.host = a.host
               /\ client'.port = DefaultOr(a)
               /\ client'.use_tcp = (a.scheme = "tcp")
    <3>1. /\ c.host = a.host /\ c.port = DefaultOr(a)
          /\ c.use_tcp = (a.scheme = "tcp")
      BY <2>2, <2>7, RecordAsWritten
    <3>2. DefaultOr(a) \in 1..(PortWord - 1)
      <4>1. a.port \in Ports \cup {NONE}  BY DEF Addresses
      <4> QED  BY <4>1, ConfigAssumption, AddressAssumption DEF DefaultOr
    <3>3. Port(DefaultOr(a)) = DefaultOr(a)
      BY <3>2, ConfigAssumption DEF Port
    <3> QED  BY <2>4, <3>1, <3>3
  <2>8. ClientAsWritten'  BY <2>4, <2>7 DEF ClientAsWritten, DefaultOr
  <2>9. NoneMissing' /\ Unread'  BY <1>1 DEF ConfigInv, NoneMissing, Unread
  <2> QED  BY <2>6, <2>8, <2>9 DEF ConfigInv
<1> QED  BY <1>4, <1>5

(* Everything a daemon does keeps the invariant; a configuration that is   *)
(* not complete ends it before it serves.                                  *)
LEMMA NextKeepsInv ==
  ASSUME ConfigInv, Next
  PROVE  ConfigInv'
<1>1. TypeOK /\ NoneMissing /\ ClientAsWritten /\ Unread  BY DEF ConfigInv
<1>2. ASSUME NEW s \in Servers, NEW arg \in {"on", "off", "neither"}, SetEngine(s, arg)
      PROVE  ConfigInv'
  <2> DEFINE accepted == arg \in {"on", "off"}
  <2>1. Directive(s, "engine", accepted, arg)  BY <1>2 DEF SetEngine
  <2>2. accepted \in BOOLEAN /\ (accepted => arg \in {"on", "off"})  OBVIOUS
  <2> HIDE DEF accepted
  <2> QED  BY <2>1, <2>2, DirectiveKeepsInv
<1>3. ASSUME NEW s \in Servers, NEW arg \in {"none", "regex", "no regex"},
             SetExcludeFilter(s, arg)
      PROVE  ConfigInv'
  <2>1. Directive(s, "exclude", arg # "no regex", arg)  BY <1>3 DEF SetExcludeFilter
  <2>2. arg # "no regex" => arg \in {"none", "regex"}  OBVIOUS
  <2> QED  BY <2>1, <2>2, DirectiveKeepsInv
<1>4. ASSUME NEW s \in Servers, NEW p \in Percentages \cup {NAN}, SetSampling(s, p)
      PROVE  ConfigInv'
  <2>1. Directive(s, "sampling", PercentageOK(p), p)  BY <1>4 DEF SetSampling
  <2>2. PercentageOK(p) \in BOOLEAN  BY DEF PercentageOK
  <2> DEFINE accepted == PercentageOK(p)
  <2>3. accepted => p \in {NAN} \cup {q \in Percentages : 0 < q /\ q <= 1000}
    BY DEF PercentageOK
  <2> HIDE DEF accepted
  <2>4. accepted \in BOOLEAN /\ Directive(s, "sampling", accepted, p)
    BY <2>1, <2>2 DEF accepted
  <2> QED  BY <2>3, <2>4, DirectiveKeepsInv
<1>5. ASSUME NEW s \in Servers, NEW line \in Lines, SetServer(s, line)
      PROVE  ConfigInv'
  <2>1. CASE Len(line) \in 1..3
    <3>1. Directive(s, "server", TRUE, ServerRecord(line))  BY <1>5, <2>1 DEF SetServer
    <3> QED  BY <2>1, <3>1, DirectiveKeepsInv
  <2>2. CASE Len(line) \notin 1..3
    <3>1. Directive(s, "server", FALSE, NONE)  BY <1>5, <2>2 DEF SetServer
    <3> QED  BY <3>1, DirectiveKeepsInv
  <2> QED  BY <2>1, <2>2
<1>6. ASSUME NEW s \in Servers, Misplaced(s) PROVE ConfigInv'
  <2>1. Directive(s, "engine", FALSE, NONE)  BY <1>6 DEF Misplaced
  <2> QED  BY <2>1, DirectiveKeepsInv
<1>7. CASE PostParse
  <2>1. phase' \in {"stopped", "serving"} /\ phase = "parsing"  BY <1>7 DEF PostParse
  <2>2. /\ registered' = registered /\ conf' = conf /\ client' = client
        /\ directives' = directives /\ restarts' = restarts
    BY <1>7 DEF PostParse
  <2>3. TypeOK'  BY <1>1, <2>1, <2>2 DEF TypeOK, Handled
  <2>4. ClientAsWritten'  BY <1>1, <2>2 DEF ClientAsWritten
  <2>5. NoneMissing'
    <3>1. CASE registered = {}
      BY <1>1, <2>1, <2>2, <3>1 DEF Unread, NoneMissing
    <3>2. CASE registered # {}
      <4>1. "core.postparse" \in registered  BY <1>1, <3>2 DEF TypeOK, Handled
      <4>2. phase' = "serving" => ~Incomplete  BY <1>7, <4>1 DEF PostParse
      <4> QED  BY <2>2, <4>2 DEF NoneMissing, Incomplete
    <3> QED  BY <3>1, <3>2
  <2>6. Unread'  BY <2>1 DEF Unread
  <2> QED  BY <2>3, <2>4, <2>5, <2>6 DEF ConfigInv
<1>8. CASE Restart
  <2>1. /\ phase' = "parsing" /\ directives' = 0 /\ restarts' = restarts + 1
        /\ restarts < MaxRestarts /\ client' = client
        /\ conf' = [s \in Servers |-> NoRecords]
    BY <1>8 DEF Restart
  <2>2. registered' \in {registered, {}}  BY <1>8 DEF Restart
  <2>3. TypeOK'
    <3>1. NoRecords \in Records  BY DEF NoRecords, Records
    <3>2. registered' \in {{}, Handled}  BY <1>1, <2>2 DEF TypeOK
    <3>3. restarts' \in 0..MaxRestarts /\ directives' \in 0..MaxDirectives
      BY <1>1, <2>1, ConfigAssumption DEF TypeOK
    <3> QED  BY <1>1, <2>1, <3>1, <3>2, <3>3 DEF TypeOK, Handled
  <2>4. ClientAsWritten' /\ NoneMissing'  BY <1>1, <2>1 DEF ClientAsWritten, NoneMissing
  <2>5. Unread'
    <3>1. NoRecords.engine # "on"  BY ConfigAssumption DEF NoRecords
    <3> QED  BY <2>1, <3>1 DEF Unread
  <2> QED  BY <2>3, <2>4, <2>5 DEF ConfigInv
<1>9. CASE Unload \/ Load
  <2>1. /\ phase' = phase /\ conf' = conf /\ client' = client
        /\ directives' = directives /\ restarts' = restarts
    BY <1>9 DEF Unload, Load
  <2>2. /\ registered' \in {{}, Handled}
        /\ registered' = {} => phase = "serving"
    BY <1>9 DEF Unload, Load, Handled
  <2>3. TypeOK'  BY <1>1, <2>1, <2>2 DEF TypeOK, Handled
  <2>4. ClientAsWritten' /\ NoneMissing' /\ Unread'
    BY <1>1, <2>1, <2>2 DEF ClientAsWritten, NoneMissing, Unread
  <2> QED  BY <2>3, <2>4 DEF ConfigInv
<1> QED
  BY <1>2, <1>3, <1>4, <1>5, <1>6, <1>7, <1>8, <1>9, SessInitKeepsInv DEF Next

LEMMA InvHolds == Spec => []ConfigInv
<1>1. Init => ConfigInv
  <2> SUFFICES ASSUME Init PROVE ConfigInv  OBVIOUS
  <2>1. NoRecords \in Records /\ NoRecords.engine # "on"
    BY ConfigAssumption DEF NoRecords, Records
  <2>2. TypeOK  BY <2>1, ConfigAssumption DEF Init, TypeOK
  <2>3. NoneMissing /\ ClientAsWritten /\ Unread
    BY <2>1 DEF Init, NoneMissing, ClientAsWritten, Unread
  <2> QED  BY <2>2, <2>3 DEF ConfigInv
<1>2. ConfigInv /\ [Next]_vars => ConfigInv'
  <2> SUFFICES ASSUME ConfigInv, [Next]_vars PROVE ConfigInv'  OBVIOUS
  <2>1. CASE Next  BY <2>1, NextKeepsInv
  <2>2. CASE UNCHANGED vars
    BY <2>2 DEF ConfigInv, TypeOK, NoneMissing, ClientAsWritten, Unread, vars, Handled
  <2> QED  BY <2>1, <2>2
<1> QED  BY <1>1, <1>2, PTL DEF Spec

(* The type invariant holds of every reachable state: only what the        *)
(* directives accept is recorded.                                          *)
THEOREM TypeCorrect == Spec => []TypeOK
<1>1. ConfigInv => TypeOK  BY DEF ConfigInv
<1> QED  BY <1>1, InvHolds, PTL

(* A session's client has the host, the port and the transport that were   *)
(* written, for every name and every IPv6 address, in brackets, with and   *)
(* without a port and a scheme.                                            *)
THEOREM AddressesUnderstood == Spec => []ClientAsWritten
<1>1. ConfigInv => ClientAsWritten  BY DEF ConfigInv
<1> QED  BY <1>1, InvHolds, PTL

(* A daemon serves only with a StatsdServer wherever the engine is on,     *)
(* however the module is loaded and unloaded.                              *)
THEOREM ServersComplete == Spec => []NoneMissing
<1>1. ConfigInv => NoneMissing  BY DEF ConfigInv
<1> QED  BY <1>1, InvHolds, PTL
=============================================================================
