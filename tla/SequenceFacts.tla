---------------------------- MODULE SequenceFacts ---------------------------
(***************************************************************************)
(* Facts about sequences that the proofs share: the last of a set of       *)
(* positions, which is how a thread reads its own store buffer, and the    *)
(* line of threads that wait for a queue lock, a sequence without          *)
(* repetitions that grows at the end and shrinks at the front.             *)
(***************************************************************************)
EXTENDS Naturals, Sequences, TLAPS, WellFoundedInduction

(* A nonempty set of positions has a last one.                             *)
LEMMA LastPosition ==
  ASSUME NEW n \in Nat, NEW P \in SUBSET (1..n), P # {}
  PROVE  \E i \in P : \A j \in P : j <= i
<1> DEFINE Q == {n - i : i \in P}
<1>0. PICK p \in P : TRUE
  OBVIOUS
<1>1. Q \subseteq Nat /\ Q # {}
  <2>1. \A i \in P : n - i \in Nat
    OBVIOUS
  <2>2. n - p \in Q
    BY <1>0
  <2> QED BY <2>1, <2>2
<1>2. PICK q \in Q : \A y \in Q : ~ (<<y, q>> \in OpToRel(<, Nat))
  <2> HIDE DEF Q
  <2> QED BY <1>1, NatLessThanWellFounded, WFMin
<1>3. PICK i \in P : q = n - i
  BY <1>2
<1>4. ASSUME NEW j \in P PROVE j <= i
  <2>1. n - j \in Q /\ n - j \in Nat /\ q \in Nat
    BY <1>1, <1>2
  <2>2. ~ (n - j < q)
    BY <1>2, <2>1 DEF OpToRel
  <2> QED BY <1>3, <2>2
<1> QED BY <1>4

-----------------------------------------------------------------------------
InLine(s, t) == \E i \in DOMAIN s : s[i] = t

First(s, t) == s # << >> /\ s[1] = t
Final(s, t) == s # << >> /\ s[Len(s)] = t

(* t stands right behind u.                                                *)
Follows(s, u, t) == \E i \in DOMAIN s : i + 1 \in DOMAIN s /\ s[i] = u /\ s[i + 1] = t

Distinct(s) == \A i, j \in DOMAIN s : s[i] = s[j] => i = j

(* Nobody stands in an empty line.                                         *)
LEMMA EmptyLine ==
  ASSUME NEW S
  PROVE  /\ << >> \in Seq(S)
         /\ Distinct(<< >>)
         /\ \A t : ~ InLine(<< >>, t) /\ ~ First(<< >>, t) /\ ~ Final(<< >>, t)
         /\ \A u, t : ~ Follows(<< >>, u, t)
  BY DEF Distinct, InLine, First, Final, Follows

(* The places of a line.                                                   *)
LEMMA LineShape ==
  ASSUME NEW S, NEW s \in Seq(S)
  PROVE  /\ Len(s) \in Nat
         /\ DOMAIN s = 1..Len(s)
         /\ s = << >> <=> Len(s) = 0
         /\ \A i \in 1..Len(s) : s[i] \in S
  OBVIOUS

(* Everybody but the first has one predecessor, everybody but the last one *)
(* successor.                                                              *)
LEMMA LineFacts ==
  ASSUME NEW S, NEW s \in Seq(S), Distinct(s)
  PROVE  /\ \A t \in S : InLine(s, t) =>
              First(s, t) \/ \E u \in S : Follows(s, u, t)
         /\ \A t, u \in S : Follows(s, u, t) =>
              /\ ~ First(s, t) /\ ~ Final(s, u) /\ u # t
              /\ InLine(s, t) /\ InLine(s, u)
         /\ \A t, u, w \in S : Follows(s, u, t) /\ Follows(s, w, t) => u = w
         /\ \A t, u, w \in S : Follows(s, u, t) /\ Follows(s, u, w) => t = w
         /\ \A t, u \in S : First(s, t) /\ First(s, u) => t = u
         /\ \A t \in S : First(s, t) \/ Final(s, t) => InLine(s, t)
         /\ s # << >> => \E t \in S : Final(s, t)
<1>1. /\ Len(s) \in Nat
      /\ DOMAIN s = 1..Len(s)
      /\ s = << >> <=> Len(s) = 0
      /\ \A i \in 1..Len(s) : s[i] \in S
  BY LineShape
<1>2. ASSUME NEW t \in S, InLine(s, t), ~ First(s, t)
      PROVE  \E u \in S : Follows(s, u, t)
  <2>1. PICK i \in 1..Len(s) : s[i] = t
    BY <1>1, <1>2 DEF InLine
  <2>2. i # 1 /\ s # << >>
    BY <1>1, <1>2, <2>1 DEF First
  <2>3. i - 1 \in 1..Len(s) /\ (i - 1) + 1 = i
    BY <1>1, <2>2
  <2>4. s[i - 1] \in S /\ Follows(s, s[i - 1], t)
    BY <1>1, <2>1, <2>3 DEF Follows
  <2> QED BY <2>4
<1>3. ASSUME NEW t \in S, NEW u \in S, Follows(s, u, t)
      PROVE  /\ ~ First(s, t) /\ ~ Final(s, u) /\ u # t
             /\ InLine(s, t) /\ InLine(s, u)
  <2>1. PICK i \in 1..Len(s) : i + 1 \in 1..Len(s) /\ s[i] = u /\ s[i + 1] = t
    BY <1>1, <1>3 DEF Follows
  <2>2. i # i + 1 /\ i + 1 # 1 /\ i # Len(s) /\ 1 \in 1..Len(s) /\ Len(s) \in 1..Len(s)
    <3>1. \A n \in Nat : \A k \in 1..n : k + 1 \in 1..n =>
            k # k + 1 /\ k + 1 # 1 /\ k # n /\ 1 \in 1..n /\ n \in 1..n
      OBVIOUS
    <3>2. Len(s) \in Nat /\ i + 1 \in 1..Len(s)
      BY <1>1, <2>1
    <3> QED BY <3>1, <3>2
  <2>3. u # t
    BY <1>1, <2>1, <2>2 DEF Distinct
  <2>4. ~ First(s, t)
    BY <1>1, <2>1, <2>2 DEF First, Distinct
  <2>5. ~ Final(s, u)
    BY <1>1, <2>1, <2>2 DEF Final, Distinct
  <2> QED BY <1>1, <2>1, <2>3, <2>4, <2>5 DEF InLine
<1>4. ASSUME NEW t \in S, NEW u \in S, NEW w \in S, Follows(s, u, t), Follows(s, w, t)
      PROVE  u = w
  <2>1. PICK i \in 1..Len(s) : i + 1 \in 1..Len(s) /\ s[i] = u /\ s[i + 1] = t
    BY <1>1, <1>4 DEF Follows
  <2>2. PICK j \in 1..Len(s) : j + 1 \in 1..Len(s) /\ s[j] = w /\ s[j + 1] = t
    BY <1>1, <1>4 DEF Follows
  <2>3. i + 1 = j + 1
    BY <1>1, <2>1, <2>2 DEF Distinct
  <2>4. i = j
    BY <1>1, <2>3
  <2> QED BY <2>1, <2>2, <2>4
<1>5. ASSUME NEW t \in S, NEW u \in S, NEW w \in S, Follows(s, u, t), Follows(s, u, w)
      PROVE  t = w
  <2>1. PICK i \in 1..Len(s) : i + 1 \in 1..Len(s) /\ s[i] = u /\ s[i + 1] = t
    BY <1>1, <1>5 DEF Follows
  <2>2. PICK j \in 1..Len(s) : j + 1 \in 1..Len(s) /\ s[j] = u /\ s[j + 1] = w
    BY <1>1, <1>5 DEF Follows
  <2>3. i = j
    BY <1>1, <2>1, <2>2 DEF Distinct
  <2> QED BY <2>1, <2>2, <2>3
<1>6. ASSUME NEW t \in S, First(s, t) \/ Final(s, t)
      PROVE  InLine(s, t)
  <2>1. 1 \in 1..Len(s) /\ Len(s) \in 1..Len(s)
    BY <1>1, <1>6 DEF First, Final
  <2> QED BY <1>1, <1>6, <2>1 DEF First, Final, InLine
<1>7. ASSUME s # << >> PROVE \E t \in S : Final(s, t)
  <2>1. Len(s) \in 1..Len(s)
    BY <1>1, <1>7
  <2> QED BY <1>1, <1>7, <2>1 DEF Final
<1> QED BY <1>2, <1>3, <1>4, <1>5, <1>6, <1>7 DEF First

(* A newcomer stands behind the last.                                      *)
LEMMA JoinLine ==
  ASSUME NEW S, NEW s \in Seq(S), NEW t \in S, Distinct(s), ~ InLine(s, t)
  PROVE  /\ Append(s, t) \in Seq(S)
         /\ Append(s, t) # << >>
         /\ Distinct(Append(s, t))
         /\ \A u \in S : InLine(Append(s, t), u) <=> InLine(s, u) \/ u = t
         /\ \A u \in S : First(Append(s, t), u) <=> First(s, u) \/ (s = << >> /\ u = t)
         /\ \A u \in S : Final(Append(s, t), u) <=> u = t
         /\ \A u, w \in S : Follows(Append(s, t), u, w) <=>
                              Follows(s, u, w) \/ (Final(s, u) /\ w = t)
<1> DEFINE r == Append(s, t)
<1>1. /\ Len(s) \in Nat
      /\ DOMAIN s = 1..Len(s)
      /\ s = << >> <=> Len(s) = 0
      /\ \A i \in 1..Len(s) : s[i] \in S
  BY LineShape
<1>2. /\ r \in Seq(S)
      /\ Len(r) = Len(s) + 1
      /\ DOMAIN r = 1..(Len(s) + 1)
      /\ r[Len(s) + 1] = t
      /\ \A i \in 1..Len(s) : r[i] = s[i]
      /\ r # << >>
  OBVIOUS
<1> HIDE DEF r
<1>3. Distinct(r)
  <2>1. \A i \in 1..Len(s) : r[i] # t
    BY <1>1, <1>2 DEF InLine
  <2> QED BY <1>1, <1>2, <2>1 DEF Distinct
<1>4. \A u \in S : InLine(r, u) <=> InLine(s, u) \/ u = t
  BY <1>1, <1>2 DEF InLine
<1>5. \A u \in S : First(r, u) <=> First(s, u) \/ (s = << >> /\ u = t)
  BY <1>1, <1>2 DEF First
<1>6. \A u \in S : Final(r, u) <=> u = t
  BY <1>1, <1>2 DEF Final
<1>7. ASSUME NEW u \in S, NEW w \in S, Follows(r, u, w)
      PROVE  Follows(s, u, w) \/ (Final(s, u) /\ w = t)
  <2>1. PICK i \in DOMAIN r : i + 1 \in DOMAIN r /\ r[i] = u /\ r[i + 1] = w
    BY <1>7 DEF Follows
  <2> QED BY <1>1, <1>2, <2>1 DEF Follows, Final
<1>8. ASSUME NEW u \in S, NEW w \in S, Follows(s, u, w)
      PROVE  Follows(r, u, w)
  BY <1>1, <1>2, <1>8 DEF Follows
<1>9. ASSUME NEW u \in S, Final(s, u)
      PROVE  Follows(r, u, t)
  <2>1. Len(s) \in DOMAIN r /\ Len(s) + 1 \in DOMAIN r /\ r[Len(s)] = u
    BY <1>1, <1>2, <1>9 DEF Final
  <2> QED BY <1>2, <2>1 DEF Follows
<1> QED BY <1>2, <1>3, <1>4, <1>5, <1>6, <1>7, <1>8, <1>9 DEF r

(* The first leaves and the second takes its place.                        *)
LEMMA LeaveLine ==
  ASSUME NEW S, NEW s \in Seq(S), NEW h \in S, Distinct(s), First(s, h)
  PROVE  /\ Tail(s) \in Seq(S)
         /\ Distinct(Tail(s))
         /\ \A u \in S : InLine(Tail(s), u) <=> InLine(s, u) /\ u # h
         /\ \A u \in S : First(Tail(s), u) <=> Follows(s, h, u)
         /\ \A u, w \in S : Follows(Tail(s), u, w) <=> Follows(s, u, w) /\ u # h
         /\ Tail(s) = << >> <=> Final(s, h)
         /\ Tail(s) # << >> => Tail(s)[Len(Tail(s))] = s[Len(s)]
<1> DEFINE r == Tail(s)
<1>1. /\ Len(s) \in Nat
      /\ DOMAIN s = 1..Len(s)
      /\ s = << >> <=> Len(s) = 0
      /\ \A i \in 1..Len(s) : s[i] \in S
  BY LineShape
<1>2. Len(s) # 0 /\ s[1] = h /\ s # << >> /\ 1 \in 1..Len(s)
  BY <1>1 DEF First
<1>3. /\ r \in Seq(S)
      /\ Len(r) = Len(s) - 1
      /\ \A i \in 1..(Len(s) - 1) : r[i] = s[i + 1]
  BY <1>2
<1>4. DOMAIN r = 1..(Len(s) - 1) /\ (r = << >> <=> Len(s) = 1)
  <2> HIDE DEF r
  <2>1. DOMAIN r = 1..Len(r) /\ (r = << >> <=> Len(r) = 0)
    BY <1>3, LineShape
  <2> QED BY <1>1, <1>2, <1>3, <2>1
<1> HIDE DEF r
<1>5. Distinct(r)
  <2> SUFFICES ASSUME NEW i \in DOMAIN r, NEW j \in DOMAIN r, r[i] = r[j]
               PROVE  i = j
    BY DEF Distinct
  <2>1. i + 1 \in DOMAIN s /\ j + 1 \in DOMAIN s /\ s[i + 1] = s[j + 1]
    BY <1>1, <1>3, <1>4
  <2>2. i + 1 = j + 1
    BY <2>1 DEF Distinct
  <2> QED BY <1>1, <1>4, <2>2
<1>6. ASSUME NEW u \in S
      PROVE  InLine(r, u) <=> InLine(s, u) /\ u # h
  <2>1. ASSUME InLine(r, u) PROVE InLine(s, u) /\ u # h
    <3>1. PICK i \in DOMAIN r : r[i] = u
      BY <2>1 DEF InLine
    <3>2. i + 1 \in DOMAIN s /\ s[i + 1] = u /\ i + 1 # 1
      BY <1>1, <1>3, <1>4, <3>1
    <3> QED BY <1>1, <1>2, <3>2 DEF InLine, Distinct
  <2>2. ASSUME InLine(s, u), u # h PROVE InLine(r, u)
    <3>1. PICK i \in DOMAIN s : s[i] = u
      BY <2>2 DEF InLine
    <3>2. i - 1 \in DOMAIN r /\ r[i - 1] = u
      BY <1>1, <1>2, <1>3, <1>4, <2>2, <3>1
    <3> QED BY <3>2 DEF InLine
  <2> QED BY <2>1, <2>2
<1>7. ASSUME NEW u \in S
      PROVE  First(r, u) <=> Follows(s, h, u)
  <2>1. ASSUME First(r, u) PROVE Follows(s, h, u)
    <3>1. Len(s) # 1 /\ r[1] = u
      BY <1>4, <2>1 DEF First
    <3>2. 1 \in 1..(Len(s) - 1) /\ 1 + 1 \in DOMAIN s
      BY <1>1, <1>2, <3>1
    <3>3. s[1 + 1] = u
      BY <1>3, <3>1, <3>2
    <3> QED BY <1>1, <1>2, <3>2, <3>3 DEF Follows
  <2>2. ASSUME Follows(s, h, u) PROVE First(r, u)
    <3>1. PICK i \in DOMAIN s : i + 1 \in DOMAIN s /\ s[i] = h /\ s[i + 1] = u
      BY <2>2 DEF Follows
    <3>2. i = 1
      BY <1>1, <1>2, <3>1 DEF Distinct
    <3> QED BY <1>1, <1>3, <1>4, <3>1, <3>2 DEF First
  <2> QED BY <2>1, <2>2
<1>8. ASSUME NEW u \in S, NEW w \in S
      PROVE  Follows(r, u, w) <=> Follows(s, u, w) /\ u # h
  <2>1. ASSUME Follows(r, u, w) PROVE Follows(s, u, w) /\ u # h
    <3>1. PICK i \in DOMAIN r : i + 1 \in DOMAIN r /\ r[i] = u /\ r[i + 1] = w
      BY <2>1 DEF Follows
    <3>2. /\ i + 1 \in DOMAIN s /\ (i + 1) + 1 \in DOMAIN s /\ i + 1 # 1
          /\ s[i + 1] = u /\ s[(i + 1) + 1] = w
      BY <1>1, <1>3, <1>4, <3>1
    <3> QED BY <1>1, <1>2, <3>2 DEF Follows, Distinct
  <2>2. ASSUME Follows(s, u, w), u # h PROVE Follows(r, u, w)
    <3>1. PICK i \in DOMAIN s : i + 1 \in DOMAIN s /\ s[i] = u /\ s[i + 1] = w
      BY <2>2 DEF Follows
    <3>2. /\ i - 1 \in DOMAIN r /\ (i - 1) + 1 \in DOMAIN r
          /\ r[i - 1] = u /\ r[(i - 1) + 1] = w
      BY <1>1, <1>2, <1>3, <1>4, <2>2, <3>1
    <3> QED BY <3>2 DEF Follows
  <2> QED BY <2>1, <2>2
<1>9. r = << >> <=> Final(s, h)
  BY <1>1, <1>2, <1>4 DEF Final, Distinct
<1>10. r # << >> => r[Len(r)] = s[Len(s)]
  BY <1>1, <1>2, <1>3, <1>4
<1> QED BY <1>3, <1>5, <1>6, <1>7, <1>8, <1>9, <1>10 DEF r
=============================================================================
