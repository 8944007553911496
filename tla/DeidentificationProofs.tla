------------------------ MODULE DeidentificationProofs ------------------------
(***************************************************************************)
(* Theorems about Deidentification for any conversation of any prompts:    *)
(* nothing sensitive is kept but plain fiction and facts about the world,  *)
(* a pseudonym is one person's, nobody is singled out, and the             *)
(* attestations say what was done.                                         *)
(*                                                                         *)
(* All follow from one inductive invariant, DeidInv.                       *)
(***************************************************************************)
EXTENDS Deidentification, FiniteSetTheorems, SequenceTheorems, TLAPS

(***************************************************************************)
(* Counting.                                                               *)
(***************************************************************************)
UpTo(S, i) == {j \in S : j <= i}

LEMMA Least ==
  ASSUME NEW T, T # {}, \A y \in T : y \in Nat
  PROVE  \E x \in T : \A y \in T : x <= y
<1> DEFINE R == OpToRel(<, Nat)
<1>1. IsWellFoundedOn(R, Nat)
  BY NatLessThanWellFounded
<1>2. \A x \in T, y \in T : <<y, x>> \in R <=> y < x
  BY DEF OpToRel
<1> HIDE DEF R
<1>3. PICK x \in T : \A y \in T : ~ (<<y, x>> \in R)
  BY <1>1, WFMin
<1>4. \A y \in T : ~ (y < x)
  BY <1>2, <1>3
<1> HIDE <1>1, <1>2, <1>3
<1> QED BY <1>4

(* The elements of a set up to one of them are more than those up to an    *)
(* earlier one, one at least and all at most.                              *)
LEMMA Ranks ==
  ASSUME NEW S, \A i \in S : i \in Int, IsFiniteSet(S), NEW k \in S
  PROVE  /\ Cardinality(UpTo(S, k)) \in 1 .. Cardinality(S)
         /\ \A j \in S : j < k => Cardinality(UpTo(S, j)) < Cardinality(UpTo(S, k))
<1>1. ASSUME NEW j \in S
      PROVE  /\ UpTo(S, j) \in SUBSET S /\ j \in UpTo(S, j)
             /\ IsFiniteSet(UpTo(S, j)) /\ Cardinality(UpTo(S, j)) \in Nat
             /\ Cardinality(UpTo(S, j)) <= Cardinality(S)
  <2>1. UpTo(S, j) \in SUBSET S /\ j \in UpTo(S, j)
    BY DEF UpTo
  <2>2. IsFiniteSet(UpTo(S, j)) /\ Cardinality(UpTo(S, j)) <= Cardinality(S)
    BY <2>1, FS_Subset
  <2> QED BY <2>1, <2>2, FS_CardinalityType
<1>2. Cardinality(UpTo(S, k)) # 0
  BY <1>1, FS_EmptySet
<1>3. Cardinality(S) \in Nat
  BY FS_CardinalityType
<1>4. ASSUME NEW j \in S, j < k PROVE Cardinality(UpTo(S, j)) < Cardinality(UpTo(S, k))
  <2>1. UpTo(S, j) \in SUBSET UpTo(S, k) /\ k \in UpTo(S, k) /\ k \notin UpTo(S, j)
    BY <1>4 DEF UpTo
  <2>2. /\ Cardinality(UpTo(S, j)) <= Cardinality(UpTo(S, k))
        /\ Cardinality(UpTo(S, k)) = Cardinality(UpTo(S, j)) => UpTo(S, k) = UpTo(S, j)
    BY <1>1, <2>1, FS_Subset
  <2> QED BY <1>1, <2>1, <2>2
<1> QED BY <1>1, <1>2, <1>3, <1>4

(* One number more.                                                        *)
LEMMA CountStep ==
  ASSUME NEW S, \A j \in S : j \in Int, IsFiniteSet(S), NEW i \in Nat
  PROVE  /\ Cardinality(UpTo(S, i)) \in Nat
         /\ Cardinality(UpTo(S, i + 1)) =
              IF i + 1 \in S THEN Cardinality(UpTo(S, i)) + 1 ELSE Cardinality(UpTo(S, i))
<1>1. UpTo(S, i) \in SUBSET S
  BY DEF UpTo
<1>2. IsFiniteSet(UpTo(S, i)) /\ Cardinality(UpTo(S, i)) \in Nat
  BY <1>1, FS_Subset, FS_CardinalityType
<1>3. CASE i + 1 \in S
  <2>1. UpTo(S, i + 1) = UpTo(S, i) \cup {i + 1} /\ i + 1 \notin UpTo(S, i)
    BY <1>3 DEF UpTo
  <2> QED BY <1>2, <1>3, <2>1, FS_AddElement
<1>4. CASE i + 1 \notin S
  <2>1. UpTo(S, i + 1) = UpTo(S, i)
    BY <1>4 DEF UpTo
  <2> QED BY <1>2, <1>4, <2>1
<1> QED BY <1>2, <1>3, <1>4

LEMMA Eight ==
  ASSUME NEW S \in SUBSET (1 .. 8)
  PROVE  /\ IsFiniteSet(S) /\ Cardinality(S) \in Nat
         /\ \A i \in S : i \in Int /\ 1 <= i /\ i <= 8
<1>1. 1 \in Int /\ 8 \in Int
  OBVIOUS
<1>2. IsFiniteSet(1 .. 8)
  BY <1>1, FS_Interval
<1>3. \A i \in S : i \in Int /\ 1 <= i /\ i <= 8
  OBVIOUS
<1>4. IsFiniteSet(S)
  BY <1>2, FS_Subset
<1> QED BY <1>3, <1>4, FS_CardinalityType

(* Of some of eight places, the first m.                                   *)
First(S, m) == {i \in S : Cardinality(UpTo(S, i - 1)) < m}

LEMMA FirstCount ==
  ASSUME NEW S, IsFiniteSet(S), \A i \in S : i \in Int /\ 1 <= i /\ i <= 8, NEW m \in Nat
  PROVE  Cardinality(First(S, m)) = IF Cardinality(S) <= m THEN Cardinality(S) ELSE m
<1> DEFINE F == First(S, m)
           G(i) == Cardinality(UpTo(F, i)) =
                     IF Cardinality(UpTo(S, i)) <= m THEN Cardinality(UpTo(S, i)) ELSE m
<1>1. F \in SUBSET S
  BY DEF First
<1>2. IsFiniteSet(F)
  BY <1>1, FS_Subset
<1>3. \A i \in F : i \in Int /\ 1 <= i /\ i <= 8
  BY <1>1
<1>4. ASSUME NEW i \in Nat, G(i) PROVE G(i + 1)
  <2>1. i + 1 \in F <=> i + 1 \in S /\ Cardinality(UpTo(S, i)) < m
    BY DEF First
  <2>2. /\ Cardinality(UpTo(S, i)) \in Nat
        /\ Cardinality(UpTo(S, i + 1)) =
             IF i + 1 \in S THEN Cardinality(UpTo(S, i)) + 1 ELSE Cardinality(UpTo(S, i))
    BY CountStep
  <2>3. /\ Cardinality(UpTo(F, i)) \in Nat
        /\ Cardinality(UpTo(F, i + 1)) =
             IF i + 1 \in F THEN Cardinality(UpTo(F, i)) + 1 ELSE Cardinality(UpTo(F, i))
    BY <1>2, <1>3, CountStep
  <2> HIDE DEF F
  <2> QED BY <1>4, <2>1, <2>2, <2>3
<1>5. G(0)
  <2>1. UpTo(S, 0) = {} /\ UpTo(F, 0) = {}
    BY <1>3 DEF UpTo
  <2> QED BY <2>1, FS_EmptySet
<1>6. UpTo(S, 8) = S /\ UpTo(F, 8) = F
  BY <1>3 DEF UpTo
<1> HIDE DEF G
<1>7. G(1) /\ G(2)
  <2>1. G(0 + 1)
    BY <1>4, <1>5
  <2>2. G(1 + 1)
    BY <1>4, <2>1
  <2> QED BY <2>1, <2>2
<1>8. G(3) /\ G(4)
  <2>1. G(2 + 1)
    BY <1>4, <1>7
  <2>2. G(3 + 1)
    BY <1>4, <2>1
  <2> QED BY <2>1, <2>2
<1>9. G(5) /\ G(6)
  <2>1. G(4 + 1)
    BY <1>4, <1>8
  <2>2. G(5 + 1)
    BY <1>4, <2>1
  <2> QED BY <2>1, <2>2
<1>10. G(7) /\ G(8)
  <2>1. G(6 + 1)
    BY <1>4, <1>9
  <2>2. G(7 + 1)
    BY <1>4, <2>1
  <2> QED BY <2>1, <2>2
<1> QED BY <1>6, <1>10 DEF G

-----------------------------------------------------------------------------
(* The types of quasi-identifiers are eight, each in one place.            *)
LEMMA Places ==
  /\ DOMAIN QI_SUPPRESSION_ORDER = 1 .. 8
  /\ \A i, j \in 1 .. 8 : QI_SUPPRESSION_ORDER[i] = QI_SUPPRESSION_ORDER[j] => i = j
BY DEF QI_SUPPRESSION_ORDER

Located(I) == {QI_SUPPRESSION_ORDER[i] : i \in I}

LEMMA LocatedCount ==
  ASSUME NEW I \in SUBSET (1 .. 8)
  PROVE  /\ IsFiniteSet(Located(I)) /\ Cardinality(Located(I)) = Cardinality(I)
         /\ IsFiniteSet(I) /\ Cardinality(I) \in Nat
<1> DEFINE f == [i \in I |-> QI_SUPPRESSION_ORDER[i]]
<1>1. IsFiniteSet(I) /\ Cardinality(I) \in Nat
  BY Eight
<1>2. f \in Bijection(I, Located(I))
  BY Places DEF Located, Bijection, Injection, Surjection, IsInjective
<1>3. ExistsBijection(I, Located(I))
  BY <1>2 DEF ExistsBijection
<1> QED BY <1>1, <1>3, FS_Bijection

(* A set of types is finite, and so is how many there are.                 *)
LEMMA TypesFinite ==
  ASSUME NEW T \in SUBSET QiTypes
  PROVE  /\ IsFiniteSet(T) /\ Cardinality(T) \in Nat
         /\ Cardinality(T) <= Cardinality(QiTypes) /\ Cardinality(QiTypes) \in Nat
<1>1. QiTypes = Located(1 .. 8)
  BY Places DEF QiTypes, Located
<1>2. IsFiniteSet(QiTypes)
  BY <1>1, LocatedCount
<1> QED BY <1>2, FS_Subset, FS_CardinalityType

(* MostDistinctive takes as many of the types as it is asked for.          *)
LEMMA MostDistinctiveCount ==
  ASSUME NEW T \in SUBSET QiTypes, NEW m \in Int, m <= Cardinality(T)
  PROVE  /\ MostDistinctive(T, m) \in SUBSET T
         /\ Cardinality(MostDistinctive(T, m)) = IF m < 0 THEN 0 ELSE m
<1> DEFINE S == {i \in 1 .. 8 : QI_SUPPRESSION_ORDER[i] \in T}
           I == {i \in S : Cardinality(UpTo(S, i - 1)) < m}
<1>1. T = Located(S)
  BY Places DEF QiTypes, Located
<1>2. MostDistinctive(T, m) = Located(I)
  <2>1. \A i \in 1 .. 8 : {j \in 1 .. i - 1 : QI_SUPPRESSION_ORDER[j] \in T} = UpTo(S, i - 1)
    BY DEF UpTo
  <2>2. I = {i \in DOMAIN QI_SUPPRESSION_ORDER :
               /\ QI_SUPPRESSION_ORDER[i] \in T
               /\ Cardinality({j \in 1 .. i - 1 : QI_SUPPRESSION_ORDER[j] \in T}) < m}
    BY <2>1, Places
  <2> HIDE DEF S, I
  <2> QED BY <2>2 DEF MostDistinctive, Located
<1>3. S \in SUBSET (1 .. 8) /\ I \in SUBSET S
  OBVIOUS
<1>4. Cardinality(T) = Cardinality(S) /\ Cardinality(Located(I)) = Cardinality(I)
      /\ Cardinality(S) \in Nat
  BY <1>1, <1>3, LocatedCount
<1>5. Located(I) \in SUBSET T
  BY <1>1, <1>3 DEF Located
<1>6. CASE m >= 0
  <2>1. m \in Nat /\ I = First(S, m)
    BY <1>6 DEF First
  <2> HIDE DEF S, I
  <2>2. IsFiniteSet(S) /\ \A i \in S : i \in Int /\ 1 <= i /\ i <= 8
    BY <1>3, Eight
  <2>3. Cardinality(I) = IF Cardinality(S) <= m THEN Cardinality(S) ELSE m
    BY <2>1, <2>2, FirstCount
  <2>4. Cardinality(I) = m
    BY <1>4, <2>1, <2>3
  <2> QED BY <1>2, <1>4, <1>5, <1>6, <2>4
<1>7. CASE m < 0
  <2>1. \A i \in S : Cardinality(UpTo(S, i - 1)) \in Nat
    <3> SUFFICES ASSUME NEW i \in S PROVE Cardinality(UpTo(S, i - 1)) \in Nat
      OBVIOUS
    <3>1. UpTo(S, i - 1) \in SUBSET (1 .. 8)
      BY DEF UpTo
    <3> QED BY <3>1, LocatedCount
  <2>2. \A i \in S : ~ (Cardinality(UpTo(S, i - 1)) < m)
    BY <1>7, <2>1
  <2>3. I = {}
    BY <2>2
  <2> QED BY <1>2, <1>4, <1>5, <1>7, <2>3, FS_EmptySet
<1> QED BY <1>6, <1>7

-----------------------------------------------------------------------------
(* What a prompt looks like.                                               *)
LEMMA PromptShape ==
  ASSUME NEW p \in Prompts
  PROVE  /\ Len(p.sentences) \in Nat /\ DOMAIN p.sentences = 1 .. Len(p.sentences)
         /\ \A i \in DOMAIN p.sentences : p.sentences[i].markers \in SUBSET {"self", "third"}
         /\ Len(p.spans) \in Nat /\ DOMAIN p.spans = 1 .. Len(p.spans)
         /\ \A k \in DOMAIN p.spans :
              /\ p.spans[k].at \in DOMAIN p.sentences
              /\ p.spans[k].group = "person" => p.spans[k].name \in Names
         /\ \A f \in p.phrases : f.type \in QiTypes /\ f \in [at : DOMAIN p.sentences, type : QiTypes]
<1> DEFINE S == [markers : SUBSET {"self", "third"}, fiction : {"none", "weak", "strong"},
                 category : {"none", "flag", "exclude"}]
           T == [at : DOMAIN p.sentences, group : STRING, sure : {"low", "band", "high"},
                 name : Names \cup {""}, dotted : BOOLEAN]
<1>1. p.sentences \in Seq(S) /\ p.spans \in Seq(T)
  BY PromptsAssumption
<1>2. /\ \A k \in DOMAIN p.spans : p.spans[k].group = "person" => p.spans[k].name \in Names
      /\ p.phrases \subseteq [at : DOMAIN p.sentences, type : QiTypes]
  BY PromptsAssumption
<1>3. \A s \in S : s.markers \in SUBSET {"self", "third"}
  OBVIOUS
<1>4. \A t \in T : t.at \in DOMAIN p.sentences
  OBVIOUS
<1> HIDE DEF S, T
<1>5. Len(p.sentences) \in Nat /\ DOMAIN p.sentences = 1 .. Len(p.sentences)
  BY <1>1, LenProperties
<1>6. Len(p.spans) \in Nat /\ DOMAIN p.spans = 1 .. Len(p.spans)
  BY <1>1, LenProperties
<1>7. \A i \in DOMAIN p.sentences : p.sentences[i] \in S
  BY <1>1, <1>5, ElementOfSeq
<1>8. \A k \in DOMAIN p.spans : p.spans[k] \in T
  BY <1>1, <1>6, ElementOfSeq
<1>9. \A f \in p.phrases : f.type \in QiTypes /\ f \in [at : DOMAIN p.sentences, type : QiTypes]
  BY <1>2
<1>10. \A i \in DOMAIN p.sentences : p.sentences[i].markers \in SUBSET {"self", "third"}
  BY <1>3, <1>7
<1>11. \A k \in DOMAIN p.spans : p.spans[k].at \in DOMAIN p.sentences
  BY <1>4, <1>8
<1> QED BY <1>2, <1>5, <1>6, <1>9, <1>10, <1>11

(* A sentence that is nobody's, not even perhaps: no personal marker, and  *)
(* plain fiction or no name.                                               *)
LEMMA Nobodys ==
  ASSUME NEW p \in Prompts, NEW i \in DOMAIN p.sentences, ~ Attributed(p, i)
  PROVE  /\ p.sentences[i].markers = {}
         /\ \/ p.sentences[i].fiction = "strong"
            \/ p.sentences[i].fiction = "none" /\ ~ PersonIn(p, i)
<1> DEFINE m == p.sentences[i].markers
           f == p.sentences[i].fiction
<1>1. m \in SUBSET {"self", "third"}
  BY PromptShape
<1>2. EffectiveBucket(p, i) \notin {"self", "third_party", "ambiguous"}
  BY DEF Attributed
<1>3. Bucket(p, i) = CASE "third" \in m -> "third_party"
                       [] m = {"self"} -> "self"
                       [] m = {} /\ f # "none" -> "fiction"
                       [] m = {} /\ f = "none" /\ PersonIn(p, i) -> "ambiguous"
                       [] OTHER -> "unattributed"
  BY DEF Bucket
<1>4. EffectiveBucket(p, i) =
        IF Bucket(p, i) = "fiction" /\ f # "strong" THEN "ambiguous" ELSE Bucket(p, i)
  BY DEF EffectiveBucket
<1> HIDE DEF m, f
<1>5. "third" \notin m
  <2> SUFFICES ASSUME "third" \in m PROVE FALSE
    OBVIOUS
  <2>1. m # {"self"} /\ m # {}
    OBVIOUS
  <2>2. Bucket(p, i) = "third_party"
    BY <1>3, <2>1
  <2> QED BY <1>2, <1>4, <2>2
<1>6. m # {"self"}
  <2> SUFFICES ASSUME m = {"self"} PROVE FALSE
    OBVIOUS
  <2>1. m # {}
    OBVIOUS
  <2>2. Bucket(p, i) = "self"
    BY <1>3, <1>5, <2>1
  <2> QED BY <1>2, <1>4, <2>2
<1>7. m = {}
  BY <1>1, <1>5, <1>6
<1>8. CASE f # "none"
  <2>1. Bucket(p, i) = "fiction"
    BY <1>3, <1>5, <1>6, <1>7, <1>8
  <2> QED BY <1>2, <1>4, <1>7, <2>1 DEF m, f
<1>9. CASE f = "none"
  <2>1. PersonIn(p, i) => Bucket(p, i) = "ambiguous"
    BY <1>3, <1>5, <1>6, <1>7, <1>9
  <2> QED BY <1>2, <1>4, <1>7, <1>9, <2>1 DEF m, f
<1> QED BY <1>8, <1>9

(* Of three sequences put together, each is where it was put.              *)
LEMMA Together ==
  ASSUME NEW G, NEW A \in Seq(G), NEW B \in Seq(G), NEW C \in Seq(G)
  PROVE  /\ \A i \in 1 .. Len(A) : i \in DOMAIN (A \o B \o C) /\ (A \o B \o C)[i] = A[i]
         /\ \A i \in 1 .. Len(B) : /\ Len(A) + i \in DOMAIN (A \o B \o C)
                                   /\ (A \o B \o C)[Len(A) + i] = B[i]
         /\ \A i \in 1 .. Len(C) : /\ Len(A) + Len(B) + i \in DOMAIN (A \o B \o C)
                                   /\ (A \o B \o C)[Len(A) + Len(B) + i] = C[i]
<1> DEFINE AB == A \o B
           ABC == AB \o C
<1>1. Len(A) \in Nat /\ Len(B) \in Nat /\ Len(C) \in Nat
  BY LenProperties
<1>2. /\ AB \in Seq(G) /\ Len(AB) = Len(A) + Len(B)
      /\ \A i \in 1 .. Len(A) + Len(B) : AB[i] = IF i <= Len(A) THEN A[i] ELSE B[i - Len(A)]
  BY ConcatProperties
<1> HIDE DEF AB
<1>3. /\ ABC \in Seq(G) /\ Len(ABC) = Len(AB) + Len(C)
      /\ \A i \in 1 .. Len(AB) + Len(C) : ABC[i] = IF i <= Len(AB) THEN AB[i] ELSE C[i - Len(AB)]
  <2>1. ASSUME NEW D \in Seq(G)
        PROVE  /\ D \o C \in Seq(G) /\ Len(D \o C) = Len(D) + Len(C)
               /\ \A i \in 1 .. Len(D) + Len(C) :
                    (D \o C)[i] = IF i <= Len(D) THEN D[i] ELSE C[i - Len(D)]
    BY ConcatProperties
  <2>2. AB \in Seq(G)
    BY <1>2
  <2> QED BY <2>1, <2>2
<1>4. DOMAIN ABC = 1 .. Len(A) + Len(B) + Len(C)
  BY <1>2, <1>3, LenProperties
<1> HIDE DEF ABC
<1>5. \A i \in 1 .. Len(A) : i \in DOMAIN ABC /\ ABC[i] = A[i]
  BY <1>1, <1>2, <1>3, <1>4
<1>6. ASSUME NEW i \in 1 .. Len(B) PROVE Len(A) + i \in DOMAIN ABC /\ ABC[Len(A) + i] = B[i]
  <2> DEFINE j == Len(A) + i
  <2>1. j \in 1 .. Len(A) + Len(B) /\ ~ (j <= Len(A)) /\ j - Len(A) = i
        /\ j \in 1 .. Len(A) + Len(B) + Len(C)
    BY <1>1
  <2> HIDE DEF j
  <2>2. AB[j] = B[i]
    BY <1>2, <2>1
  <2>3. ABC[j] = AB[j]
    BY <1>1, <1>2, <1>3, <2>1
  <2>4. j \in DOMAIN ABC /\ ABC[j] = B[i]
    BY <1>4, <2>1, <2>2, <2>3
  <2> QED BY <2>4 DEF j
<1>7. ASSUME NEW i \in 1 .. Len(C)
      PROVE  Len(A) + Len(B) + i \in DOMAIN ABC /\ ABC[Len(A) + Len(B) + i] = C[i]
  <2> DEFINE j == Len(A) + Len(B) + i
  <2>1. j \in 1 .. Len(A) + Len(B) + Len(C) /\ ~ (j <= Len(A) + Len(B))
        /\ j - (Len(A) + Len(B)) = i
    BY <1>1
  <2> HIDE DEF j
  <2>2. ABC[j] = C[i]
    BY <1>2, <1>3, <2>1
  <2>3. j \in DOMAIN ABC /\ ABC[j] = C[i]
    BY <1>4, <2>1, <2>2
  <2> QED BY <2>3 DEF j
<1> QED BY <1>5, <1>6, <1>7 DEF AB, ABC

(* The gates have codes of their own.  A prompt that passes them has no    *)
(* secret, and what is sensitive in it is nobody's.                        *)
Codes == {"EXC_LIVE_SECRET", "EXC_PII_DENSITY", "EXC_SPECIAL_CATEGORY", "EXC_ATTRIBUTION_AMBIGUOUS"}

LEMMA GatesShape ==
  ASSUME NEW p \in Prompts
  PROVE  /\ \A g \in DOMAIN Gates(p) : Gates(p)[g].code \in Codes
         /\ Shut(p) = {} =>
              /\ Spans(p, "secret") = {}
              /\ \A i \in DOMAIN p.sentences :
                   p.sentences[i].category = "exclude" \/ i \in Groups(p, "high")
                     => ~ Attributed(p, i)
<1> DEFINE n == Len(p.sentences)
           a == [code |-> "EXC_LIVE_SECRET", shut |-> Spans(p, "secret") # {}]
           b == [code |-> "EXC_PII_DENSITY",
                 shut |-> Cardinality(Spans(p, "identifier")) >= PII_DENSITY_EXCLUDE_COUNT]
           c == [code |-> "EXC_SPECIAL_CATEGORY",
                 shut |-> \E k \in Spans(p, "minor") : EffectiveBucket(p, p.spans[k].at) = "self"]
           A == <<a, b, c>>
           X == {i \in DOMAIN p.sentences : p.sentences[i].category = "exclude"}
           Y == Groups(p, "high")
           B == SensitiveGates(p, X)
           C == SensitiveGates(p, Y)
           G == {a, b, c} \cup {B[i] : i \in 1 .. n} \cup {C[i] : i \in 1 .. n}
<1>1. n \in Nat /\ DOMAIN p.sentences = 1 .. n
  BY PromptShape
<1>2. ASSUME NEW S
      PROVE  /\ DOMAIN SensitiveGates(p, S) = 1 .. n
             /\ SensitiveGates(p, S) = [i \in 1 .. n |-> SensitiveGates(p, S)[i]]
             /\ \A i \in 1 .. n :
                  /\ SensitiveGates(p, S)[i].shut <=> i \in S /\ Attributed(p, i)
                  /\ SensitiveGates(p, S)[i].code \in Codes
  BY <1>1 DEF SensitiveGates, Codes
<1>3. (a.shut <=> Spans(p, "secret") # {}) /\ \A g \in {a, b, c} : g.code \in Codes
  <2>1. a.code \in Codes /\ b.code \in Codes /\ c.code \in Codes
    BY DEF Codes
  <2>2. a.shut <=> Spans(p, "secret") # {}
    OBVIOUS
  <2> HIDE DEF a, b, c
  <2> QED BY <2>1, <2>2
<1>4. /\ B = [i \in 1 .. n |-> B[i]]
      /\ \A i \in 1 .. n : (B[i].shut <=> i \in X /\ Attributed(p, i)) /\ B[i].code \in Codes
  BY <1>2
<1>5. /\ C = [i \in 1 .. n |-> C[i]]
      /\ \A i \in 1 .. n : (C[i].shut <=> i \in Y /\ Attributed(p, i)) /\ C[i].code \in Codes
  BY <1>2
<1>6. Gates(p) = A \o B \o C
  BY DEF Gates
<1> HIDE DEF a, b, c, B, C, n
<1>7. A \in Seq(G) /\ Len(A) = 3 /\ A[1] = a
  OBVIOUS
<1>8. B \in [1 .. n -> G] /\ C \in [1 .. n -> G]
  <2>1. \A i \in 1 .. n : B[i] \in G /\ C[i] \in G
    OBVIOUS
  <2> HIDE DEF G
  <2> QED BY <1>4, <1>5, <2>1
<1> HIDE DEF A, G
<1>9. B \in Seq(G) /\ Len(B) = n /\ C \in Seq(G) /\ Len(C) = n
  <2>1. B \in Seq(G) /\ C \in Seq(G)
    BY <1>1, <1>8, SeqDef
  <2>2. /\ Len(B) \in Nat /\ DOMAIN B = 1 .. Len(B)
        /\ Len(C) \in Nat /\ DOMAIN C = 1 .. Len(C)
    BY <2>1, LenProperties
  <2>3. DOMAIN B = 1 .. n /\ DOMAIN C = 1 .. n
    BY <1>8
  <2>4. \A k \in Nat : 1 .. k = 1 .. n => k = n
    BY <1>1
  <2> QED BY <2>1, <2>2, <2>3, <2>4
<1>10. /\ \A i \in 1 .. Len(A) : i \in DOMAIN Gates(p) /\ Gates(p)[i] = A[i]
       /\ \A i \in 1 .. Len(B) : /\ Len(A) + i \in DOMAIN Gates(p)
                                 /\ Gates(p)[Len(A) + i] = B[i]
       /\ \A i \in 1 .. Len(C) : /\ Len(A) + Len(B) + i \in DOMAIN Gates(p)
                                 /\ Gates(p)[Len(A) + Len(B) + i] = C[i]
  <2>1. ASSUME NEW H, NEW U \in Seq(H), NEW V \in Seq(H), NEW W \in Seq(H), Gates(p) = U \o V \o W
        PROVE  /\ \A i \in 1 .. Len(U) : i \in DOMAIN Gates(p) /\ Gates(p)[i] = U[i]
               /\ \A i \in 1 .. Len(V) : /\ Len(U) + i \in DOMAIN Gates(p)
                                         /\ Gates(p)[Len(U) + i] = V[i]
               /\ \A i \in 1 .. Len(W) : /\ Len(U) + Len(V) + i \in DOMAIN Gates(p)
                                         /\ Gates(p)[Len(U) + Len(V) + i] = W[i]
    BY <2>1, Together
  <2>2. A \in Seq(G) /\ B \in Seq(G) /\ C \in Seq(G)
    BY <1>7, <1>9
  <2> QED BY <1>6, <2>1, <2>2, Zenon
<1>11. \A g \in DOMAIN Gates(p) : Gates(p)[g].code \in Codes
  <2>1. \A g \in G : g.code \in Codes
    BY <1>3, <1>4, <1>5 DEF G
  <2>2. ASSUME NEW H, NEW U \in Seq(H), NEW V \in Seq(H), NEW W \in Seq(H), NEW g \in DOMAIN (U \o V \o W)
        PROVE  (U \o V \o W)[g] \in H
    <3>1. U \o V \in Seq(H)
      BY ConcatProperties
    <3>2. ASSUME NEW Z \in Seq(H) PROVE Z \o W \in Seq(H)
      BY ConcatProperties
    <3>3. U \o V \o W \in Seq(H)
      BY <3>1, <3>2
    <3>4. ASSUME NEW Z \in Seq(H) PROVE \A z \in DOMAIN Z : Z[z] \in H
      BY LenProperties, ElementOfSeq
    <3> QED BY <3>3, <3>4
  <2> QED BY <1>6, <1>7, <1>9, <2>1, <2>2
<1>12. ASSUME Shut(p) = {}
       PROVE  ~ a.shut /\ \A i \in 1 .. n : ~ B[i].shut /\ ~ C[i].shut
  <2>1. \A g \in DOMAIN Gates(p) : ~ Gates(p)[g].shut
    BY <1>12 DEF Shut
  <2>2. 1 \in 1 .. Len(A)
    BY <1>7
  <2>3. ~ a.shut
    BY <1>7, <1>10, <2>1, <2>2
  <2>4. \A i \in 1 .. n : ~ B[i].shut
    BY <1>9, <1>10, <2>1
  <2>5. \A i \in 1 .. n : ~ C[i].shut
    BY <1>9, <1>10, <2>1
  <2> QED BY <2>3, <2>4, <2>5
<1> QED BY <1>1, <1>3, <1>4, <1>5, <1>11, <1>12

(* Hits of some types, and the others.                                     *)
LEMMA TypesSplit ==
  ASSUME NEW H, NEW T
  PROVE  /\ Types(OfTypes(H, T)) = Types(H) \cap T
         /\ Types(H \ OfTypes(H, T)) = Types(H) \ T
         /\ OfTypes(H, T) \subseteq H
         /\ OfTypes(H, T) = {} <=> Types(H) \cap T = {}
BY DEF Types, OfTypes

LEMMA TypesJoined ==
  ASSUME NEW G, NEW H
  PROVE  Types(G \cup H) = Types(G) \cup Types(H)
BY DEF Types

(* A hit is in a sentence, and its type is one of the eight.               *)
Hit == [at : Nat, type : QiTypes]

LEMMA HitTypes ==
  ASSUME NEW H \in SUBSET Hit
  PROVE  Types(H) \in SUBSET QiTypes
BY DEF Types, Hit

LEMMA HitsKnown ==
  ASSUME NEW p \in Prompts
  PROVE  Hits(p) \in SUBSET Hit
<1>1. {"geo", "exact_age", "employer"} \subseteq QiTypes
  <2>1. /\ QI_SUPPRESSION_ORDER[8] = "geo" /\ QI_SUPPRESSION_ORDER[2] = "exact_age"
        /\ QI_SUPPRESSION_ORDER[4] = "employer"
    BY DEF QI_SUPPRESSION_ORDER
  <2>2. \A i \in 1 .. 8 : QI_SUPPRESSION_ORDER[i] \in QiTypes
    BY Places DEF QiTypes
  <2> QED BY <2>1, <2>2
<1>2. SpanHits(p) \subseteq Hit
  <2> DEFINE hit(k) ==
               LET span == p.spans[k] IN
               \/ span.group \in {"city", "region"} /\ span.sure # "low" /\ Attributed(p, span.at)
               \/ span.group \in {"adult", "minor"} /\ Attributed(p, span.at)
               \/ span.group = "employer" /\ Replaced(p, k)
  <2>1. \A k : hit(k) => p.spans[k].group \in {"city", "region", "adult", "minor", "employer"}
    OBVIOUS
  <2>2. \A g \in {"city", "region", "adult", "minor", "employer"} : QiOf[g] \in QiTypes
    <3>1. /\ QiOf["city"] = "geo" /\ QiOf["region"] = "geo" /\ QiOf["adult"] = "exact_age"
          /\ QiOf["minor"] = "exact_age" /\ QiOf["employer"] = "employer"
      BY DEF QiOf
    <3> QED BY <1>1, <3>1
  <2>3. SpanHits(p) = {[at |-> p.spans[k].at, type |-> QiOf[p.spans[k].group]] :
                         k \in {k \in DOMAIN p.spans : hit(k)}}
    BY DEF SpanHits
  <2>4. \A k \in DOMAIN p.spans : p.spans[k].at \in Nat
    BY PromptShape
  <2> HIDE DEF hit
  <2>5. ASSUME NEW k \in DOMAIN p.spans, hit(k)
        PROVE  [at |-> p.spans[k].at, type |-> QiOf[p.spans[k].group]] \in Hit
    BY <2>1, <2>2, <2>4, <2>5 DEF Hit
  <2> QED BY <2>3, <2>5
<1>3. PhraseHits(p) \subseteq Hit
  <2>1. DOMAIN p.sentences \subseteq Nat
    BY PromptShape
  <2>2. p.phrases \subseteq Hit
    BY <2>1, PromptShape DEF Hit
  <2> QED BY <2>2 DEF PhraseHits
<1> QED BY <1>2, <1>3 DEF Hits

-----------------------------------------------------------------------------
(* Pseudonyms: every name has one of as many numbers as there are names,   *)
(* and no two names have the same.                                         *)
Numbering(f) ==
  /\ DOMAIN f \in SUBSET Names /\ IsFiniteSet(DOMAIN f)
  /\ \A n \in DOMAIN f : f[n] \in 1 .. Cardinality(DOMAIN f)
  /\ \A m, n \in DOMAIN f : f[m] = f[n] => m = n

(* A further prompt leaves the numbers there are, and gives the others to  *)
(* those of its names that have none.                                      *)
LEMMA NumberedOn ==
  ASSUME NEW p \in Prompts, NEW known, Numbering(known)
  PROVE  /\ Numbering(Numbered(p, known))
         /\ \A n \in DOMAIN known : /\ n \in DOMAIN Numbered(p, known)
                                    /\ Numbered(p, known)[n] = known[n]
         /\ \A k \in DOMAIN p.spans : Renamed(p, k) => p.spans[k].name \in DOMAIN Numbered(p, known)
<1> DEFINE D == DOMAIN known
           name(k) == p.spans[k].name
           new == {k \in DOMAIN p.spans :
                     /\ Renamed(p, k) /\ name(k) \notin D
                     /\ \A j \in 1 .. k - 1 : Renamed(p, j) => name(j) # name(k)}
           N == {name(k) : k \in new}
           number(n) == CHOOSE k \in new : name(k) = n
           f == Numbered(p, known)
<1>1. f = [n \in D \cup N |->
             IF n \in D THEN known[n] ELSE Cardinality(D) + Cardinality(UpTo(new, number(n)))]
  BY DEF Numbered, UpTo
<1>2. /\ Len(p.spans) \in Nat /\ DOMAIN p.spans = 1 .. Len(p.spans)
      /\ \A k \in DOMAIN p.spans : p.spans[k].group = "person" => name(k) \in Names
  BY PromptShape
<1>3. \A k \in DOMAIN p.spans : Renamed(p, k) => name(k) \in Names
  BY <1>2 DEF Renamed
<1>4. /\ \A k \in new : k \in DOMAIN p.spans /\ k \in Int /\ Renamed(p, k) /\ name(k) \notin D
      /\ \A j, k \in new : j < k => name(j) # name(k)
  BY <1>2
<1>5. \A j, k \in new : name(j) = name(k) => j = k
  <2>1. \A j, k \in new : j < k \/ k < j \/ j = k
    BY <1>4
  <2> QED BY <1>4, <2>1
<1>6. IsFiniteSet(new)
  <2>1. 1 \in Int /\ Len(p.spans) \in Int
    BY <1>2
  <2>2. IsFiniteSet(1 .. Len(p.spans))
    BY <2>1, FS_Interval
  <2>3. new \in SUBSET (1 .. Len(p.spans))
    BY <1>2
  <2> QED BY <2>2, <2>3, FS_Subset
<1>7. ASSUME NEW k \in DOMAIN p.spans, Renamed(p, k) PROVE name(k) \in D \cup N
  <2> SUFFICES ASSUME name(k) \notin D PROVE name(k) \in N
    OBVIOUS
  <2> DEFINE T == {j \in DOMAIN p.spans : Renamed(p, j) /\ name(j) = name(k)}
  <2>1. T # {} /\ \A j \in T : j \in Nat
    BY <1>2, <1>7
  <2>2. PICK j \in T : \A i \in T : j <= i
    BY <2>1, Least
  <2>3. \A i \in 1 .. j - 1 : Renamed(p, i) => name(i) # name(j)
    <3> SUFFICES ASSUME NEW i \in 1 .. j - 1, Renamed(p, i), name(i) = name(j) PROVE FALSE
      OBVIOUS
    <3>1. i \in DOMAIN p.spans /\ i < j
      BY <1>2
    <3>2. i \in T
      BY <3>1
    <3> QED BY <1>2, <2>2, <3>1, <3>2
  <2>4. j \in new
    BY <2>3
  <2> QED BY <2>4
<1> HIDE DEF new
<1>8. \A n \in N : number(n) \in new /\ name(number(n)) = n
  OBVIOUS
<1>9. N \in SUBSET Names /\ N \cap D = {} /\ IsFiniteSet(N) /\ Cardinality(N) = Cardinality(new)
  <2>1. N \in SUBSET Names /\ N \cap D = {}
    BY <1>3, <1>4
  <2> DEFINE g == [k \in new |-> name(k)]
  <2>2. g \in Bijection(new, N)
    <3>1. g \in [new -> N] /\ \A n \in N : \E k \in new : g[k] = n
      OBVIOUS
    <3>2. \A j, k \in new : g[j] = g[k] => j = k
      BY <1>5
    <3> HIDE DEF g, N
    <3> QED BY <3>1, <3>2 DEF Bijection, Injection, Surjection, IsInjective
  <2>3. ExistsBijection(new, N)
    BY <2>2 DEF ExistsBijection
  <2> QED BY <1>6, <2>1, <2>3, FS_Bijection
<1>10. /\ D \in SUBSET Names /\ IsFiniteSet(D) /\ Cardinality(D) \in Nat
       /\ \A n \in D : known[n] \in 1 .. Cardinality(D)
       /\ \A m, n \in D : known[m] = known[n] => m = n
  BY FS_CardinalityType DEF Numbering
<1> HIDE DEF D, N, number, f
<1>11. /\ IsFiniteSet(D \cup N) /\ Cardinality(D \cup N) = Cardinality(D) + Cardinality(new)
       /\ Cardinality(new) \in Nat
  <2>1. /\ IsFiniteSet(D \cup N)
        /\ Cardinality(D \cup N) = Cardinality(D) + Cardinality(N) - Cardinality(D \cap N)
    BY <1>9, <1>10, FS_Union
  <2>2. D \cap N = {}
    BY <1>9
  <2>3. Cardinality(D \cap N) = 0
    BY <2>2, FS_EmptySet
  <2>4. Cardinality(new) \in Nat
    BY <1>6, FS_CardinalityType
  <2> QED BY <1>9, <1>10, <2>1, <2>3, <2>4
<1>12. DOMAIN f = D \cup N /\ \A n \in D : f[n] = known[n]
  BY <1>1
<1>13. ASSUME NEW n \in N
       PROVE  /\ f[n] = Cardinality(D) + Cardinality(UpTo(new, number(n)))
              /\ Cardinality(UpTo(new, number(n))) \in 1 .. Cardinality(new)
  <2>1. n \notin D
    BY <1>9
  <2>2. f[n] = Cardinality(D) + Cardinality(UpTo(new, number(n)))
    BY <1>1, <2>1
  <2>3. number(n) \in new
    BY <1>8
  <2>4. \A k \in new : k \in Int
    BY <1>4
  <2>5. ASSUME NEW k \in new PROVE Cardinality(UpTo(new, k)) \in 1 .. Cardinality(new)
    BY <1>6, <2>4, Ranks
  <2> QED BY <2>2, <2>3, <2>5
<1>14. ASSUME NEW m \in N, NEW n \in N, f[m] = f[n] PROVE m = n
  <2> DEFINE c(k) == Cardinality(UpTo(new, k))
  <2>1. \A k \in new : k \in Int
    BY <1>4
  <2>2. ASSUME NEW k \in new
        PROVE  c(k) \in 1 .. Cardinality(new) /\ \A j \in new : j < k => c(j) < c(k)
    BY <1>6, <2>1, Ranks
  <2> HIDE DEF c
  <2>3. \A j, k \in new : c(j) = c(k) => j = k
    <3> SUFFICES ASSUME NEW j \in new, NEW k \in new, c(j) = c(k) PROVE j = k
      OBVIOUS
    <3>1. c(j) \in 1 .. Cardinality(new) /\ c(k) \in 1 .. Cardinality(new)
      BY <2>2
    <3>2. ~ (c(j) < c(k)) /\ ~ (c(k) < c(j))
      BY <1>11, <3>1
    <3>3. ~ (j < k) /\ ~ (k < j)
      BY <2>2, <3>2
    <3> QED BY <2>1, <3>3
  <2>4. /\ f[m] = Cardinality(D) + c(number(m)) /\ f[n] = Cardinality(D) + c(number(n))
        /\ c(number(m)) \in 1 .. Cardinality(new) /\ c(number(n)) \in 1 .. Cardinality(new)
    BY <1>13 DEF c
  <2>5. c(number(m)) = c(number(n))
    <3>1. Cardinality(D) + c(number(m)) = Cardinality(D) + c(number(n))
      BY <1>14, <2>4
    <3>2. c(number(m)) \in Int /\ c(number(n)) \in Int /\ Cardinality(D) \in Int
      BY <1>10, <1>11, <2>4
    <3>3. \A x, y, z \in Int : x + y = x + z => y = z
      OBVIOUS
    <3> QED BY <3>1, <3>2, <3>3
  <2>6. number(m) = number(n)
    BY <1>8, <2>3, <2>5
  <2> QED BY <1>8, <2>6
<1>15. \A n \in D : f[n] \in 1 .. Cardinality(D)
  BY <1>10, <1>12
<1>16. \A n \in N : f[n] \in Cardinality(D) + 1 .. Cardinality(D) + Cardinality(new)
  BY <1>10, <1>11, <1>13
<1>17. \A n \in D \cup N : f[n] \in 1 .. Cardinality(D \cup N)
  BY <1>10, <1>11, <1>15, <1>16
<1>18. \A m \in D, n \in N : f[m] # f[n]
  BY <1>10, <1>11, <1>15, <1>16
<1>19. \A m, n \in D \cup N : f[m] = f[n] => m = n
  BY <1>10, <1>12, <1>14, <1>18
<1>20. Numbering(f)
  BY <1>9, <1>10, <1>11, <1>12, <1>17, <1>19 DEF Numbering
<1> QED BY <1>7, <1>12, <1>20 DEF D, f

-----------------------------------------------------------------------------
(* The invariant.                                                          *)
OutcomeCodes ==
  Codes \cup {"EXC_STAGE6_UNAVAILABLE", "EXC_SINGLING_OUT", "DROP", "none"}
Callings == UNION {[S -> Nat] : S \in SUBSET Names}
Attestations ==
  [excluded : BOOLEAN, before : 0 .. Cardinality(QiTypes), after : 0 .. Cardinality(QiTypes),
   types : SUBSET QiTypes]
Outcomes ==
  [prompt : Prompts, kind : {"kept", "dropped", "excluded"}, code : OutcomeCodes, left : SUBSET Hit,
   edited : SUBSET Hit, shown : SUBSET Nat, called : Callings, attestation : Attestations]

(* What is true of an outcome by itself: one that is kept has passed the   *)
(* gates, and its attestation is about what was edited and what is left.   *)
Sound(o) ==
  /\ o.kind = "kept" <=> o.code = "none"
  /\ o.shown \subseteq DOMAIN o.prompt.sentences
  /\ o.left \cup o.edited \subseteq Hits(o.prompt)
  /\ o.attestation.excluded <=> o.kind = "excluded"
  /\ o.kind = "kept" =>
       /\ Shut(o.prompt) = {}
       /\ o.attestation.types = Types(o.edited)
       /\ o.left \cup o.edited = Hits(o.prompt)
       /\ Types(o.left) \cap Types(o.edited) = {}
       /\ o.attestation.after = Cardinality(Types(o.left))
       /\ o.attestation.before = Cardinality(Types(Hits(o.prompt)))
       /\ Cardinality(Types(o.left)) <= 3

(* Nothing has been done about the bundle yet.                             *)
Fresh(o) ==
  /\ o.code # "EXC_SINGLING_OUT"
  /\ ~ (o.attestation.after < 3 /\ o.attestation.after < o.attestation.before)

(* Who is called something is called by the pseudonym.                     *)
CalledBy(o, f) == \A n \in DOMAIN o.called : n \in DOMAIN f /\ o.called[n] = f[n]

DeidInv ==
  /\ outcomes \in Seq(Outcomes) /\ done \in BOOLEAN
  /\ Numbering(pseudonyms)
  /\ \A i \in DOMAIN outcomes : Sound(outcomes[i]) /\ CalledBy(outcomes[i], pseudonyms)
  /\ ~ done => \A i \in DOMAIN outcomes : Fresh(outcomes[i])
  /\ NobodySingledOut
  /\ KeptWhole

(* What is sensitive in a kept prompt is nobody's.                         *)
LEMMA InvNothingSensitive ==
  ASSUME DeidInv
  PROVE  NothingSensitive
<1> SUFFICES ASSUME NEW i \in DOMAIN outcomes, outcomes[i].kind = "kept"
             PROVE  /\ Spans(outcomes[i].prompt, "secret") = {}
                    /\ \A j \in {j \in DOMAIN outcomes[i].prompt.sentences :
                                   outcomes[i].prompt.sentences[j].category = "exclude"}
                                 \cup Groups(outcomes[i].prompt, "high") :
                         /\ outcomes[i].prompt.sentences[j].markers = {}
                         /\ \/ outcomes[i].prompt.sentences[j].fiction = "strong"
                            \/ /\ outcomes[i].prompt.sentences[j].fiction = "none"
                               /\ ~ PersonIn(outcomes[i].prompt, j)
  BY DEF NothingSensitive
<1> DEFINE p == outcomes[i].prompt
<1>1. outcomes[i] \in Outcomes /\ Sound(outcomes[i])
  <2>1. \A z \in DOMAIN outcomes : outcomes[z] \in Outcomes
    BY LenProperties, ElementOfSeq DEF DeidInv
  <2> QED BY <2>1 DEF DeidInv
<1>2. p \in Prompts /\ Shut(p) = {}
  BY <1>1 DEF Outcomes, Sound
<1> HIDE DEF p
<1>3. \A j \in Groups(p, "high") : j \in DOMAIN p.sentences
  BY <1>2, PromptShape DEF Groups, Spans
<1>4. /\ Spans(p, "secret") = {}
      /\ \A j \in DOMAIN p.sentences :
           p.sentences[j].category = "exclude" \/ j \in Groups(p, "high") => ~ Attributed(p, j)
  BY <1>2, GatesShape
<1>5. ASSUME NEW j \in {j \in DOMAIN p.sentences : p.sentences[j].category = "exclude"}
                         \cup Groups(p, "high")
      PROVE  /\ p.sentences[j].markers = {}
             /\ p.sentences[j].fiction = "strong"
                  \/ (p.sentences[j].fiction = "none" /\ ~ PersonIn(p, j))
  <2>1. j \in DOMAIN p.sentences /\ ~ Attributed(p, j)
    BY <1>3, <1>4
  <2>2. ASSUME NEW k \in DOMAIN p.sentences, ~ Attributed(p, k)
        PROVE  /\ p.sentences[k].markers = {}
               /\ p.sentences[k].fiction = "strong"
                    \/ (p.sentences[k].fiction = "none" /\ ~ PersonIn(p, k))
    BY <1>2, <2>2, Nobodys
  <2> QED BY <2>1, <2>2
<1> QED BY <1>4, <1>5 DEF p

LEMMA InvOnePerson ==
  ASSUME DeidInv
  PROVE  OnePersonOnePseudonym
<1> SUFFICES ASSUME NEW i \in DOMAIN outcomes, NEW j \in DOMAIN outcomes,
                    NEW m \in DOMAIN outcomes[i].called, NEW n \in DOMAIN outcomes[j].called
             PROVE  m = n <=> outcomes[i].called[m] = outcomes[j].called[n]
  BY DEF OnePersonOnePseudonym
<1>1. /\ m \in DOMAIN pseudonyms /\ outcomes[i].called[m] = pseudonyms[m]
      /\ n \in DOMAIN pseudonyms /\ outcomes[j].called[n] = pseudonyms[n]
  BY DEF DeidInv, CalledBy
<1>2. pseudonyms[m] = pseudonyms[n] => m = n
  BY <1>1 DEF DeidInv, Numbering
<1> QED BY <1>1, <1>2

LEMMA InvAttestedAsIs ==
  ASSUME DeidInv
  PROVE  AttestedAsIs
BY DEF DeidInv, Sound, AttestedAsIs

LEMMA InvTypeOK ==
  ASSUME DeidInv
  PROVE  TypeOK
<1>1. \A i \in DOMAIN outcomes : outcomes[i] \in Outcomes
  BY LenProperties, ElementOfSeq DEF DeidInv
<1>2. ASSUME NEW i \in DOMAIN outcomes
      PROVE  LET o == outcomes[i] IN
             /\ o.prompt \in Prompts
             /\ o.kind \in {"kept", "dropped", "excluded"}
             /\ o.kind = "kept" <=> o.code = "none"
             /\ o.left \cup o.edited \subseteq Hits(o.prompt) /\ o.attestation.types \subseteq QiTypes
             /\ o.shown \subseteq DOMAIN o.prompt.sentences
             /\ {o.attestation.before, o.attestation.after} \subseteq 0 .. Cardinality(QiTypes)
  BY <1>1 DEF DeidInv, Sound, Outcomes, Attestations
<1> QED BY <1>2 DEF DeidInv, Numbering, TypeOK

-----------------------------------------------------------------------------
(* Outcomes one by one.                                                    *)
LEMMA CallingsHold ==
  ASSUME NEW f, Numbering(f), NEW S \in SUBSET (DOMAIN f)
  PROVE  <<>> \in Callings /\ [n \in S |-> f[n]] \in Callings
<1>1. <<>> \in [{} -> Nat]
  OBVIOUS
<1>2. {} \in SUBSET Names /\ S \in SUBSET Names
  BY DEF Numbering
<1>3. \A n \in S : f[n] \in Nat
  <2>1. Cardinality(DOMAIN f) \in Nat
    BY FS_CardinalityType DEF Numbering
  <2> QED BY <2>1 DEF Numbering
<1>4. [n \in S |-> f[n]] \in [S -> Nat]
  BY <1>3
<1> QED BY <1>1, <1>2, <1>4 DEF Callings

LEMMA ExcludedSound ==
  ASSUME NEW p \in Prompts, NEW code \in Codes \cup {"EXC_STAGE6_UNAVAILABLE"},
         NEW f, Numbering(f)
  PROVE  /\ Excluded(p, code) \in Outcomes /\ Sound(Excluded(p, code))
         /\ Fresh(Excluded(p, code)) /\ CalledBy(Excluded(p, code), f)
<1> DEFINE a == Attestation(TRUE, 0, 0, {})
           o == Excluded(p, code)
<1>1. a \in Attestations /\ a.excluded /\ a.before = 0 /\ a.after = 0
  <2>1. 0 \in 0 .. Cardinality(QiTypes)
    BY TypesFinite
  <2> QED BY <2>1 DEF Attestation, Attestations
<1>2. <<>> \in Callings
  BY CallingsHold
<1>3. code \in OutcomeCodes /\ code # "none" /\ code # "EXC_SINGLING_OUT"
  <2>1. \/ code = "EXC_LIVE_SECRET" \/ code = "EXC_PII_DENSITY" \/ code = "EXC_SPECIAL_CATEGORY"
        \/ code = "EXC_ATTRIBUTION_AMBIGUOUS" \/ code = "EXC_STAGE6_UNAVAILABLE"
    BY DEF Codes
  <2>2. code \in OutcomeCodes
    BY DEF OutcomeCodes
  <2>3. code # "none" /\ code # "EXC_SINGLING_OUT"
    BY <2>1
  <2> QED BY <2>2, <2>3
<1> HIDE DEF a
<1>4. o = [prompt |-> p, kind |-> "excluded", code |-> code, left |-> {}, edited |-> {},
           shown |-> {}, called |-> <<>>, attestation |-> a]
  BY DEF Excluded, a
<1> HIDE DEF o
<1>5. o \in Outcomes
  BY <1>1, <1>2, <1>3, <1>4 DEF Outcomes
<1>6. Sound(o) /\ Fresh(o)
  BY <1>1, <1>3, <1>4 DEF Sound, Fresh
<1>7. CalledBy(o, f)
  BY <1>4 DEF CalledBy
<1> QED BY <1>5, <1>6, <1>7 DEF o

LEMMA PassedSound ==
  ASSUME NEW p \in Prompts, Shut(p) = {}, NEW kind \in {"kept", "dropped"},
         NEW f, Numbering(f),
         \A k \in DOMAIN p.spans : Renamed(p, k) => p.spans[k].name \in DOMAIN f
  PROVE  /\ Passed(p, f, kind) \in Outcomes /\ Sound(Passed(p, f, kind))
         /\ Fresh(Passed(p, f, kind)) /\ CalledBy(Passed(p, f, kind), f)
<1> DEFINE H == Hits(p)
           T == Types(H)
           t == Cardinality(T)
           M == MostDistinctive(T, t - MAX_QI_TYPES)
           E == OfTypes(H, M)
           S == {p.spans[k].name : k \in {k \in DOMAIN p.spans : Renamed(p, k)}}
           called == [n \in S |-> f[n]]
           a == Attestation(FALSE, t, t - Cardinality(M), M)
           o == Passed(p, f, kind)
<1>1. /\ H \in SUBSET Hit
      /\ T \in SUBSET QiTypes /\ IsFiniteSet(T) /\ t \in 0 .. Cardinality(QiTypes) /\ t \in Nat
      /\ Cardinality(QiTypes) \in Nat
  <2>1. H \in SUBSET Hit
    BY HitsKnown
  <2>2. T \in SUBSET QiTypes
    BY <2>1, HitTypes
  <2> HIDE DEF H
  <2>3. IsFiniteSet(T) /\ t \in Nat /\ t <= Cardinality(QiTypes) /\ Cardinality(QiTypes) \in Nat
    BY <2>2, TypesFinite
  <2> QED BY <2>1, <2>2, <2>3
<1>2. /\ M \in SUBSET T
      /\ Cardinality(M) = IF t - 3 < 0 THEN 0 ELSE t - 3
  <2>1. t - 3 \in Int /\ t - 3 <= t
    BY <1>1
  <2>2. ASSUME NEW m \in Int, m <= t
        PROVE  /\ MostDistinctive(T, m) \in SUBSET T
               /\ Cardinality(MostDistinctive(T, m)) = IF m < 0 THEN 0 ELSE m
    BY <1>1, <2>2, MostDistinctiveCount
  <2> QED BY <2>1, <2>2 DEF MAX_QI_TYPES
<1>3. S \in SUBSET DOMAIN f
  OBVIOUS
<1>4. called \in Callings /\ CalledBy([called |-> called], f)
  <2>1. called \in Callings
    BY <1>3, CallingsHold
  <2> HIDE DEF S
  <2>2. DOMAIN called = S /\ \A n \in S : called[n] = f[n]
    OBVIOUS
  <2> QED BY <1>3, <2>1, <2>2 DEF CalledBy
<1>5. Shown(p) \subseteq DOMAIN p.sentences /\ Shown(p) \in SUBSET Nat
  <2>1. Shown(p) \subseteq DOMAIN p.sentences
    BY DEF Shown
  <2> QED BY <2>1, PromptShape
<1>6. o = [prompt |-> p, kind |-> kind, code |-> IF kind = "kept" THEN "none" ELSE "DROP",
           left |-> H \ E, edited |-> E, shown |-> Shown(p), called |-> called, attestation |-> a]
  BY DEF Passed
<1>13. /\ Types(E) = M /\ Types(H \ E) = T \ M /\ E \subseteq H
  <2>1. ASSUME NEW G, NEW U
        PROVE  /\ Types(OfTypes(G, U)) = Types(G) \cap U
               /\ Types(G \ OfTypes(G, U)) = Types(G) \ U
               /\ OfTypes(G, U) \subseteq G
    BY TypesSplit
  <2> HIDE DEF H, M
  <2>2. Types(E) = T \cap M /\ Types(H \ E) = T \ M /\ E \subseteq H
    BY <2>1
  <2> HIDE DEF T, E
  <2> QED BY <1>2, <2>2
<1> HIDE DEF H, T, M, E, S, called, o
<1>7. /\ Cardinality(T \ M) = t - Cardinality(M)
      /\ t - Cardinality(M) \in 0 .. Cardinality(QiTypes) /\ t - Cardinality(M) <= 3
      /\ t - Cardinality(M) < t => t - Cardinality(M) = 3
  <2>1. T \cap M = M
    BY <1>2
  <2>2. Cardinality(T \ M) = t - Cardinality(M)
    BY <1>1, <2>1, FS_Difference
  <2> HIDE DEF t
  <2> QED BY <1>1, <1>2, <2>2
<1>8. /\ a \in Attestations /\ a.excluded = FALSE /\ a.before = t /\ a.after = t - Cardinality(M)
      /\ a.types = M
  <2>1. M \in SUBSET QiTypes
    BY <1>1, <1>2
  <2> HIDE DEF t
  <2> QED BY <1>1, <1>7, <2>1 DEF Attestation, Attestations
<1> HIDE DEF a, t
<1>9. o \in Outcomes
  <2>1. H \ E \in SUBSET Hit /\ E \in SUBSET Hit
    BY <1>1, <1>13
  <2>2. kind \in {"kept", "dropped", "excluded"}
        /\ (IF kind = "kept" THEN "none" ELSE "DROP") \in OutcomeCodes
    BY DEF OutcomeCodes
  <2>3. Shown(p) \in SUBSET Nat /\ called \in Callings /\ a \in Attestations
    BY <1>4, <1>5, <1>8
  <2> QED BY <1>6, <2>1, <2>2, <2>3 DEF Outcomes
<1>10. Sound(o)
  <2>1. (H \ E) \cup E = H /\ (T \ M) \cap M = {}
    BY <1>13
  <2>2. /\ o.prompt = p /\ o.kind = kind /\ o.left = H \ E /\ o.edited = E /\ o.shown = Shown(p)
        /\ o.attestation = a /\ o.code = IF kind = "kept" THEN "none" ELSE "DROP"
    BY <1>6
  <2>3. /\ Shut(o.prompt) = {}
        /\ o.attestation.types = Types(o.edited)
        /\ o.left \cup o.edited = Hits(o.prompt)
        /\ Types(o.left) \cap Types(o.edited) = {}
        /\ o.attestation.after = Cardinality(Types(o.left))
        /\ o.attestation.before = Cardinality(Types(Hits(o.prompt)))
        /\ Cardinality(Types(o.left)) <= 3
    BY <1>7, <1>8, <1>13, <2>1, <2>2 DEF H, T, t
  <2> QED BY <1>5, <1>8, <2>2, <2>3 DEF Sound
<1>11. Fresh(o)
  <2>1. o.code # "EXC_SINGLING_OUT" /\ o.attestation = a
    BY <1>6
  <2>2. ~ (a.after < 3 /\ a.after < a.before)
    BY <1>7, <1>8
  <2> QED BY <2>1, <2>2 DEF Fresh
<1>12. CalledBy(o, f)
  BY <1>4, <1>6 DEF CalledBy
<1> QED BY <1>9, <1>10, <1>11, <1>12 DEF o

(* What ExcludeConversation and Suppress make of one outcome.              *)
Ban(o) ==
  [o EXCEPT !.kind = "excluded", !.code = "EXC_SINGLING_OUT", !.attestation.excluded = TRUE]
Strike(o, types, kind) ==
  [o EXCEPT !.left = @ \ OfTypes(o.left, types),
            !.edited = @ \cup OfTypes(o.left, types),
            !.attestation.types = @ \cup Types(OfTypes(o.left, types)),
            !.attestation.after = @ - Cardinality(Types(OfTypes(o.left, types))),
            !.kind = IF kind = "dropped" THEN "dropped" ELSE @,
            !.code = IF kind = "dropped" THEN "DROP" ELSE @]

LEMMA BanSound ==
  ASSUME NEW o \in Outcomes, Sound(o)
  PROVE  Ban(o) \in Outcomes /\ Sound(Ban(o)) /\ Ban(o).kind = "excluded" /\ Ban(o).called = o.called
<1> DEFINE a == [o.attestation EXCEPT !.excluded = TRUE]
           b == Ban(o)
<1>1. o.attestation \in Attestations
  BY DEF Outcomes
<1>2. a \in Attestations /\ a.excluded = TRUE
  BY <1>1 DEF Attestations
<1>3. /\ b.prompt = o.prompt /\ b.kind = "excluded" /\ b.code = "EXC_SINGLING_OUT"
      /\ b.shown = o.shown /\ b.called = o.called /\ b.attestation = a
      /\ b.left = o.left /\ b.edited = o.edited
  BY DEF Ban, Outcomes
<1>4. b \in Outcomes
  <2>1. "EXC_SINGLING_OUT" \in OutcomeCodes
    BY DEF OutcomeCodes
  <2>2. b = [[[o EXCEPT !.kind = "excluded"] EXCEPT !.code = "EXC_SINGLING_OUT"] EXCEPT !.attestation = a]
    BY DEF Ban, Outcomes
  <2> HIDE DEF a, b
  <2> QED BY <1>2, <2>1, <2>2 DEF Outcomes
<1> HIDE DEF a, b
<1>5. Sound(b)
  BY <1>2, <1>3 DEF Sound
<1> QED BY <1>3, <1>4, <1>5 DEF b

(* Of the types that were left, some are not left any more.                *)
Without(b, o, types) == Types(b.left) = Types(o.left) \ types

LEMMA StrikeSound ==
  ASSUME NEW o \in Outcomes, Sound(o), Fresh(o), o.kind = "kept",
         NEW types \in SUBSET QiTypes, OfTypes(o.left, types) # {}, NEW kind \in {"kept", "dropped"}
  PROVE  /\ Strike(o, types, kind) \in Outcomes /\ Sound(Strike(o, types, kind))
         /\ Strike(o, types, kind).kind = kind
         /\ Strike(o, types, kind).called = o.called
         /\ Without(Strike(o, types, kind), o, types)
         /\ Strike(o, types, kind).code # "EXC_SINGLING_OUT"
         /\ Strike(o, types, kind).attestation.after < 3
         /\ Strike(o, types, kind).attestation.after < Strike(o, types, kind).attestation.before
<1> DEFINE H == Hits(o.prompt)
           E == OfTypes(o.left, types)
           L == Types(o.left)
           h == Types(E)
           rest == Types(o.left \ E)
           n == o.attestation.after - Cardinality(h)
           a == [[o.attestation EXCEPT !.types = @ \cup h] EXCEPT !.after = n]
           b == Strike(o, types, kind)
<1>1. /\ o.attestation \in Attestations /\ o.prompt \in Prompts
      /\ o.left \in SUBSET Hit /\ o.edited \in SUBSET Hit
      /\ o.attestation.types \in SUBSET QiTypes
  BY DEF Outcomes, Attestations
<1>2. /\ o.code = "none" /\ ~ o.attestation.excluded
      /\ Shut(o.prompt) = {}
      /\ o.attestation.types = Types(o.edited)
      /\ o.left \cup o.edited = H
      /\ L \cap Types(o.edited) = {}
      /\ o.attestation.after = Cardinality(L)
      /\ o.attestation.before = Cardinality(Types(H))
      /\ Cardinality(L) <= 3
      /\ o.shown \subseteq DOMAIN o.prompt.sentences
  BY DEF Sound
<1>3. /\ E \subseteq o.left /\ h = L \cap types /\ rest = L \ types
      /\ h # {}
  <2>1. ASSUME NEW G
        PROVE  /\ Types(OfTypes(G, types)) = Types(G) \cap types
               /\ Types(G \ OfTypes(G, types)) = Types(G) \ types
               /\ OfTypes(G, types) \subseteq G
               /\ OfTypes(G, types) = {} <=> Types(G) \cap types = {}
    BY TypesSplit
  <2> QED BY <2>1
<1>4. Types(o.edited \cup E) = Types(o.edited) \cup h /\ Types(H) = L \cup Types(o.edited)
  <2>1. Types(o.edited \cup E) = Types(o.edited) \cup h
    BY TypesJoined
  <2>2. Types(o.left \cup o.edited) = L \cup Types(o.edited)
    BY TypesJoined
  <2> QED BY <1>2, <2>1, <2>2
<1>5. /\ L \in SUBSET QiTypes /\ h \in SUBSET QiTypes /\ rest \in SUBSET QiTypes
      /\ Types(H) \in SUBSET QiTypes
  <2>1. L \in SUBSET QiTypes
    BY <1>1, HitTypes
  <2>2. Types(o.edited) \in SUBSET QiTypes
    BY <1>1, HitTypes
  <2> HIDE DEF L, h, rest, H
  <2> QED BY <1>3, <1>4, <2>1, <2>2
<1>6. b = [[[[[o EXCEPT !.left = @ \ E] EXCEPT !.edited = @ \cup E] EXCEPT !.attestation = a]
               EXCEPT !.kind = IF kind = "dropped" THEN "dropped" ELSE @]
             EXCEPT !.code = IF kind = "dropped" THEN "DROP" ELSE @]
  BY DEF Strike, Outcomes
<1> HIDE DEF H, E, L, h, rest
<1>7. /\ IsFiniteSet(L) /\ Cardinality(L) \in Nat
      /\ Cardinality(h) \in Nat /\ Cardinality(h) # 0
      /\ Cardinality(Types(H)) \in Nat /\ Cardinality(L) <= Cardinality(Types(H))
      /\ Cardinality(rest) \in Nat
      /\ Cardinality(rest) <= Cardinality(QiTypes) /\ Cardinality(QiTypes) \in Nat
  <2>1. IsFiniteSet(Types(H)) /\ Cardinality(Types(H)) \in Nat
    BY <1>5, TypesFinite
  <2>2. IsFiniteSet(h) /\ Cardinality(h) \in Nat
    BY <1>5, TypesFinite
  <2>3. IsFiniteSet(L) /\ Cardinality(L) \in Nat
    BY <1>5, TypesFinite
  <2>4. Cardinality(L) <= Cardinality(Types(H))
    BY <1>4, <2>1, FS_Subset
  <2>5. Cardinality(h) # 0
    BY <1>3, <2>2, FS_EmptySet
  <2>6. /\ Cardinality(rest) \in Nat
        /\ Cardinality(rest) <= Cardinality(QiTypes) /\ Cardinality(QiTypes) \in Nat
    BY <1>5, TypesFinite
  <2> QED BY <2>1, <2>2, <2>3, <2>4, <2>5, <2>6
<1>8. Cardinality(rest) = Cardinality(L) - Cardinality(h)
  <2>1. Cardinality(L \ types) = Cardinality(L) - Cardinality(L \cap types)
    BY <1>7, FS_Difference
  <2> QED BY <1>3, <2>1
<1>9. /\ n = Cardinality(rest) /\ n \in 0 .. Cardinality(QiTypes)
      /\ n < 3 /\ n < Cardinality(Types(H))
  BY <1>2, <1>7, <1>8
<1> HIDE DEF n
<1>10. /\ a \in Attestations /\ a.excluded = o.attestation.excluded
       /\ a.before = o.attestation.before /\ a.after = n /\ a.types = o.attestation.types \cup h
  BY <1>1, <1>5, <1>9 DEF Attestations
<1> HIDE DEF a, b
<1>11. /\ b.prompt = o.prompt /\ b.shown = o.shown /\ b.called = o.called /\ b.attestation = a
       /\ b.left = o.left \ E /\ b.edited = o.edited \cup E
       /\ b.kind = kind /\ b.code = IF kind = "dropped" THEN "DROP" ELSE "none"
  BY <1>2, <1>6 DEF Outcomes
<1>12. b \in Outcomes
  <2>1. (IF kind = "dropped" THEN "DROP" ELSE o.code) \in OutcomeCodes
    BY <1>2 DEF OutcomeCodes
  <2>2. (IF kind = "dropped" THEN "dropped" ELSE o.kind) \in {"kept", "dropped", "excluded"}
    OBVIOUS
  <2>3. o.left \ E \in SUBSET Hit /\ o.edited \cup E \in SUBSET Hit
    BY <1>1, <1>3
  <2> QED BY <1>6, <1>10, <2>1, <2>2, <2>3 DEF Outcomes
<1>13. Sound(b)
  <2>1. b.left \cup b.edited = Hits(b.prompt)
    BY <1>2, <1>3, <1>11 DEF H
  <2>2. Types(b.left) = rest /\ Types(b.edited) = Types(o.edited) \cup h
    BY <1>4, <1>11 DEF rest
  <2>3. Types(b.left) \cap Types(b.edited) = {}
    BY <1>2, <1>3, <2>2
  <2>4. b.attestation.types = Types(b.edited)
    BY <1>2, <1>10, <1>11, <2>2
  <2>5. b.attestation.before = Cardinality(Types(Hits(b.prompt)))
    BY <1>2, <1>10, <1>11 DEF H
  <2>6. b.attestation.after = Cardinality(Types(b.left)) /\ Cardinality(Types(b.left)) <= 3
    BY <1>7, <1>9, <1>10, <1>11, <2>2
  <2>7. /\ b.kind = "kept" <=> b.code = "none"
        /\ b.shown \subseteq DOMAIN b.prompt.sentences
        /\ b.attestation.excluded <=> b.kind = "excluded"
        /\ Shut(b.prompt) = {}
    BY <1>2, <1>10, <1>11
  <2> QED BY <2>1, <2>3, <2>4, <2>5, <2>6, <2>7 DEF Sound
<1>14. b.attestation.after < 3 /\ b.attestation.after < b.attestation.before
  BY <1>2, <1>9, <1>10, <1>11
<1>15. Without(b, o, types)
  BY <1>3, <1>11 DEF rest, L, Without
<1> QED BY <1>11, <1>12, <1>13, <1>14, <1>15 DEF b

-----------------------------------------------------------------------------
(* The steps.                                                              *)
LEMMA ShapeOfOutcomes ==
  ASSUME NEW os \in Seq(Outcomes)
  PROVE  /\ Len(os) \in Nat /\ DOMAIN os = 1 .. Len(os)
         /\ \A i \in DOMAIN os : os[i] \in Outcomes
         /\ \A I \in SUBSET DOMAIN os : IsFiniteSet(I) /\ Cardinality(I) \in Nat
<1>1. Len(os) \in Nat /\ DOMAIN os = 1 .. Len(os)
  BY LenProperties
<1>2. \A i \in DOMAIN os : os[i] \in Outcomes
  BY <1>1, ElementOfSeq
<1>3. 1 \in Int /\ Len(os) \in Int
  BY <1>1
<1>4. IsFiniteSet(DOMAIN os)
  BY <1>1, <1>3, FS_Interval
<1>5. ASSUME NEW I \in SUBSET DOMAIN os PROVE IsFiniteSet(I) /\ Cardinality(I) \in Nat
  BY <1>4, FS_Subset, FS_CardinalityType
<1> QED BY <1>1, <1>2, <1>5

LEMMA InitInv ==
  ASSUME Init
  PROVE  DeidInv
<1>1. outcomes = <<>> /\ pseudonyms = <<>> /\ done = FALSE
  BY DEF Init
<1>2. outcomes \in Seq(Outcomes) /\ DOMAIN outcomes = {} /\ DOMAIN pseudonyms = {}
  <2>1. <<>> \in Seq(Outcomes)
    BY EmptySeq
  <2>2. DOMAIN <<>> = {}
    OBVIOUS
  <2> QED BY <1>1, <2>1, <2>2
<1>3. Numbering(pseudonyms)
  BY <1>2, FS_EmptySet DEF Numbering
<1>4. NobodySingledOut /\ KeptWhole
  BY <1>1, <1>2 DEF NobodySingledOut, KeptWhole
<1> QED BY <1>1, <1>2, <1>3, <1>4 DEF DeidInv

(* A further outcome.                                                      *)
LEMMA AddInv ==
  ASSUME DeidInv, ~ done, done' = done, Numbering(pseudonyms'),
         \A n \in DOMAIN pseudonyms : n \in DOMAIN pseudonyms' /\ pseudonyms'[n] = pseudonyms[n],
         NEW o \in Outcomes, outcomes' = Append(outcomes, o),
         Sound(o), Fresh(o), CalledBy(o, pseudonyms')
  PROVE  DeidInv'
<1>1. outcomes \in Seq(Outcomes)
  BY DEF DeidInv
<1>2. /\ outcomes' \in Seq(Outcomes)
      /\ Len(outcomes') = Len(outcomes) + 1
      /\ \A i \in 1 .. Len(outcomes) : outcomes'[i] = outcomes[i]
      /\ outcomes'[Len(outcomes) + 1] = o
  BY <1>1, AppendProperties
<1>3. /\ Len(outcomes) \in Nat /\ DOMAIN outcomes = 1 .. Len(outcomes)
      /\ DOMAIN outcomes' = 1 .. Len(outcomes')
  BY <1>1, <1>2, ShapeOfOutcomes
<1>4. \A i \in DOMAIN outcomes' :
        \/ i \in DOMAIN outcomes /\ outcomes'[i] = outcomes[i]
        \/ outcomes'[i] = o
  BY <1>2, <1>3
<1>5. ASSUME NEW x, CalledBy(x, pseudonyms) PROVE CalledBy(x, pseudonyms')
  BY <1>5 DEF CalledBy
<1>6. \A i \in DOMAIN outcomes' :
        Sound(outcomes'[i]) /\ CalledBy(outcomes'[i], pseudonyms') /\ Fresh(outcomes'[i])
  BY <1>4, <1>5 DEF DeidInv
<1>7. NobodySingledOut'
  <2>1. \A i \in DOMAIN outcomes' : outcomes'[i].kind = "kept" => Cardinality(Types(outcomes'[i].left)) <= 3
    BY <1>6 DEF Sound
  <2> QED BY <2>1 DEF NobodySingledOut
<1>8. KeptWhole'
  BY DEF KeptWhole
<1> QED BY <1>2, <1>6, <1>7, <1>8 DEF DeidInv

LEMMA ProcessRecordInv ==
  ASSUME DeidInv, NEW p \in Prompts, ProcessRecord(p)
  PROVE  DeidInv'
<1>1. ~ done /\ done' = done /\ Numbering(pseudonyms)
  BY DEF ProcessRecord, DeidInv
<1>2. CASE /\ \E first \in Shut(p) : outcomes' = Append(outcomes, Excluded(p, Gates(p)[first].code))
           /\ UNCHANGED pseudonyms
  <2>1. PICK first \in Shut(p) : outcomes' = Append(outcomes, Excluded(p, Gates(p)[first].code))
    BY <1>2
  <2> DEFINE o == Excluded(p, Gates(p)[first].code)
  <2>2. Gates(p)[first].code \in Codes
    BY GatesShape DEF Shut
  <2>3. Numbering(pseudonyms')
    BY <1>1, <1>2
  <2>4. o \in Outcomes /\ Sound(o) /\ Fresh(o) /\ CalledBy(o, pseudonyms')
    BY <2>2, <2>3, ExcludedSound
  <2> HIDE DEF o
  <2>5. outcomes' = Append(outcomes, o)
    BY <2>1 DEF o
  <2> QED BY <1>1, <1>2, <2>3, <2>4, <2>5, AddInv
<1>3. CASE /\ Shut(p) = {}
           /\ pseudonyms' = Numbered(p, pseudonyms)
           /\ \E kind \in {"kept", "dropped"} :
                outcomes' = Append(outcomes, Passed(p, pseudonyms', kind))
  <2>1. PICK kind \in {"kept", "dropped"} : outcomes' = Append(outcomes, Passed(p, pseudonyms', kind))
    BY <1>3
  <2> DEFINE o == Passed(p, pseudonyms', kind)
  <2>2. /\ Numbering(pseudonyms')
        /\ \A n \in DOMAIN pseudonyms : n \in DOMAIN pseudonyms' /\ pseudonyms'[n] = pseudonyms[n]
        /\ \A k \in DOMAIN p.spans : Renamed(p, k) => p.spans[k].name \in DOMAIN pseudonyms'
    BY <1>1, <1>3, NumberedOn
  <2>3. o \in Outcomes /\ Sound(o) /\ Fresh(o) /\ CalledBy(o, pseudonyms')
    BY <1>3, <2>2, PassedSound
  <2> HIDE DEF o
  <2>4. outcomes' = Append(outcomes, o)
    BY <2>1 DEF o
  <2> QED BY <1>1, <2>2, <2>3, <2>4, AddInv
<1> QED BY <1>2, <1>3 DEF ProcessRecord

LEMMA FailClosedInv ==
  ASSUME DeidInv, NEW p \in Prompts, FailClosed(p)
  PROVE  DeidInv'
<1> DEFINE o == Excluded(p, "EXC_STAGE6_UNAVAILABLE")
<1>1. /\ ~ done /\ done' = done /\ Numbering(pseudonyms) /\ pseudonyms' = pseudonyms
      /\ outcomes' = Append(outcomes, o)
  BY DEF FailClosed, DeidInv
<1>2. Numbering(pseudonyms')
  BY <1>1
<1>3. o \in Outcomes /\ Sound(o) /\ Fresh(o) /\ CalledBy(o, pseudonyms')
  BY <1>2, ExcludedSound
<1> HIDE DEF o
<1> QED BY <1>1, <1>2, <1>3, AddInv

(* The end of a conversation: outcomes that are sound, as many as before,  *)
(* and called as before.                                                   *)
LEMMA EndInv ==
  ASSUME DeidInv, done' = TRUE, pseudonyms' = pseudonyms,
         outcomes' \in Seq(Outcomes), DOMAIN outcomes' = DOMAIN outcomes,
         \A i \in DOMAIN outcomes : /\ Sound(outcomes'[i])
                                    /\ outcomes'[i].called = outcomes[i].called,
         NobodySingledOut', KeptWhole'
  PROVE  DeidInv'
<1>1. Numbering(pseudonyms')
  BY DEF DeidInv
<1>2. \A i \in DOMAIN outcomes' : CalledBy(outcomes'[i], pseudonyms')
  BY DEF DeidInv, CalledBy
<1> QED BY <1>1, <1>2 DEF DeidInv

(* A conversation of which nothing is kept.                                *)
LEMMA NothingKept ==
  ASSUME Kept(outcomes') = {}
  PROVE  NobodySingledOut' /\ KeptWhole'
<1>1. {i \in DOMAIN outcomes' : outcomes'[i].kind = "kept"} = {}
  BY DEF Kept
<1>2. UNION {Types(outcomes'[i].left) : i \in {}} = {}
  OBVIOUS
<1>3. Cardinality({}) = 0
  BY FS_EmptySet
<1>4. NobodySingledOut'
  BY <1>1, <1>2, <1>3 DEF NobodySingledOut
<1>5. KeptWhole'
  BY <1>1 DEF KeptWhole
<1> QED BY <1>4, <1>5

LEMMA ExcludeConversationShape ==
  ASSUME NEW os \in Seq(Outcomes), \A i \in DOMAIN os : Sound(os[i])
  PROVE  LET to == ExcludeConversation(os) IN
         /\ to \in Seq(Outcomes) /\ DOMAIN to = DOMAIN os /\ Kept(to) = {}
         /\ \A i \in DOMAIN os : Sound(to[i]) /\ to[i].called = os[i].called
<1> DEFINE to == ExcludeConversation(os)
<1>1. to = [i \in DOMAIN os |-> IF os[i].kind = "kept" THEN Ban(os[i]) ELSE os[i]]
  BY DEF ExcludeConversation, Ban
<1> HIDE DEF to
<1>2. /\ Len(os) \in Nat /\ DOMAIN os = 1 .. Len(os)
      /\ \A i \in DOMAIN os : os[i] \in Outcomes
  BY ShapeOfOutcomes
<1>3. ASSUME NEW i \in DOMAIN os
      PROVE  /\ to[i] \in Outcomes /\ Sound(to[i]) /\ to[i].called = os[i].called
             /\ to[i].kind # "kept"
  <2>1. os[i] \in Outcomes /\ Sound(os[i])
    BY <1>2
  <2>2. /\ Ban(os[i]) \in Outcomes /\ Sound(Ban(os[i])) /\ Ban(os[i]).kind = "excluded"
        /\ Ban(os[i]).called = os[i].called
    BY <2>1, BanSound
  <2>3. to[i] = IF os[i].kind = "kept" THEN Ban(os[i]) ELSE os[i]
    BY <1>1
  <2> QED BY <2>1, <2>2, <2>3
<1>4. DOMAIN to = DOMAIN os
  BY <1>1
<1>5. to \in [1 .. Len(os) -> Outcomes]
  BY <1>1, <1>2, <1>3
<1>6. to \in Seq(Outcomes)
  BY <1>2, <1>5, SeqDef
<1>7. Kept(to) = {}
  BY <1>3, <1>4 DEF Kept
<1> QED BY <1>3, <1>4, <1>6, <1>7 DEF to

LEMMA SuppressShape ==
  ASSUME NEW os \in Seq(Outcomes), \A i \in DOMAIN os : Sound(os[i]) /\ Fresh(os[i]),
         NEW types \in SUBSET QiTypes, NEW dropped \in SUBSET Touched(os, types)
  PROVE  LET to == Suppress(os, types, dropped) IN
         /\ to \in Seq(Outcomes) /\ DOMAIN to = DOMAIN os /\ Kept(to) = Kept(os) \ dropped
         /\ \A i \in DOMAIN os :
              /\ Sound(to[i]) /\ to[i].called = os[i].called /\ to[i].code # "EXC_SINGLING_OUT"
              /\ to[i].attestation.after < 3 /\ to[i].attestation.after < to[i].attestation.before
                   <=> i \in Touched(os, types)
         /\ \A i \in Kept(os) : Without(to[i], os[i], types)
<1> DEFINE to == Suppress(os, types, dropped)
           I == Touched(os, types)
           kind(i) == IF i \in dropped THEN "dropped" ELSE "kept"
<1>1. to = [i \in DOMAIN os |-> IF i \in I THEN Strike(os[i], types, kind(i)) ELSE os[i]]
  <2>1. \A i : kind(i) = "dropped" <=> i \in dropped
    OBVIOUS
  <2> HIDE DEF kind
  <2>2. ASSUME NEW i \in I
        PROVE  Strike(os[i], types, kind(i)) =
                 LET hits == OfTypes(os[i].left, types) IN
                 [os[i] EXCEPT !.left = @ \ hits, !.edited = @ \cup hits,
                               !.attestation.types = @ \cup Types(hits),
                               !.attestation.after = @ - Cardinality(Types(hits)),
                               !.kind = IF i \in dropped THEN "dropped" ELSE @,
                               !.code = IF i \in dropped THEN "DROP" ELSE @]
    BY <2>1 DEF Strike
  <2> HIDE DEF I
  <2>3. to = [i \in DOMAIN os |->
                IF i \in I
                THEN LET hits == OfTypes(os[i].left, types) IN
                     [os[i] EXCEPT !.left = @ \ hits, !.edited = @ \cup hits,
                                   !.attestation.types = @ \cup Types(hits),
                                   !.attestation.after = @ - Cardinality(Types(hits)),
                                   !.kind = IF i \in dropped THEN "dropped" ELSE @,
                                   !.code = IF i \in dropped THEN "DROP" ELSE @]
                ELSE os[i]]
    BY DEF Suppress, I
  <2> QED BY <2>2, <2>3
<1>2. I = {i \in DOMAIN os : os[i].kind = "kept" /\ OfTypes(os[i].left, types) # {}}
  BY DEF Touched, Kept
<1> HIDE DEF to, I
<1>3. /\ Len(os) \in Nat /\ DOMAIN os = 1 .. Len(os)
      /\ \A i \in DOMAIN os : os[i] \in Outcomes
  BY ShapeOfOutcomes
<1>4. ASSUME NEW i \in DOMAIN os
      PROVE  /\ to[i] \in Outcomes
             /\ Sound(to[i]) /\ to[i].called = os[i].called /\ to[i].code # "EXC_SINGLING_OUT"
             /\ to[i].attestation.after < 3 /\ to[i].attestation.after < to[i].attestation.before
                  <=> i \in I
             /\ to[i].kind = "kept" <=> os[i].kind = "kept" /\ i \notin dropped
             /\ os[i].kind = "kept" => Without(to[i], os[i], types)
  <2>1. os[i] \in Outcomes /\ Sound(os[i]) /\ Fresh(os[i])
    BY <1>3
  <2>2. CASE i \in I
    <3> DEFINE b == Strike(os[i], types, kind(i))
    <3>1. to[i] = b
      BY <1>1, <2>2
    <3>2. os[i].kind = "kept" /\ OfTypes(os[i].left, types) # {} /\ kind(i) \in {"kept", "dropped"}
      BY <1>2, <2>2
    <3>3. kind(i) = "kept" <=> i \notin dropped
      OBVIOUS
    <3> HIDE DEF kind
    <3>4. /\ b \in Outcomes /\ Sound(b)
          /\ b.kind = kind(i) /\ b.called = os[i].called
          /\ Without(b, os[i], types)
          /\ b.code # "EXC_SINGLING_OUT"
          /\ b.attestation.after < 3 /\ b.attestation.after < b.attestation.before
      BY <2>1, <3>2, StrikeSound
    <3> HIDE DEF b
    <3> QED BY <2>2, <3>1, <3>2, <3>3, <3>4
  <2>3. CASE i \notin I
    <3>1. to[i] = os[i] /\ i \notin dropped
      BY <1>1, <2>3 DEF I
    <3>2. os[i].kind = "kept" => Without(os[i], os[i], types)
      <4>1. ASSUME NEW G, OfTypes(G, types) = {} PROVE Types(G) = Types(G) \ types
        BY <4>1, TypesSplit
      <4>2. os[i].kind = "kept" => OfTypes(os[i].left, types) = {}
        BY <1>2, <2>3
      <4> QED BY <4>1, <4>2 DEF Without
    <3>3. /\ os[i].code # "EXC_SINGLING_OUT"
          /\ ~ (os[i].attestation.after < 3 /\ os[i].attestation.after < os[i].attestation.before)
      BY <2>1 DEF Fresh
    <3> QED BY <2>1, <2>3, <3>1, <3>2, <3>3
  <2> QED BY <2>2, <2>3
<1>5. DOMAIN to = DOMAIN os
  BY <1>1
<1>6. to \in [1 .. Len(os) -> Outcomes]
  BY <1>1, <1>3, <1>4
<1>7. to \in Seq(Outcomes)
  BY <1>3, <1>6, SeqDef
<1>8. Kept(to) = Kept(os) \ dropped
  BY <1>4, <1>5 DEF Kept
<1>9. \A i \in Kept(os) : Without(to[i], os[i], types)
  BY <1>4 DEF Kept
<1> QED BY <1>4, <1>5, <1>7, <1>8, <1>9 DEF to, I

(* What is left of a bundle of five to seven types is four.                *)
LEMMA BundleLeft ==
  ASSUME NEW os \in Seq(Outcomes), NEW to \in Seq(Outcomes), DOMAIN to = DOMAIN os,
         NEW n \in Nat, n = Cardinality(BundleTypes(os)), n >= QI_CONVERSATION_TARGET,
         NEW types, types = MostDistinctive(BundleTypes(os), n - QI_CONVERSATION_TARGET),
         Kept(to) \subseteq Kept(os), \A i \in Kept(os) : Without(to[i], os[i], types)
  PROVE  /\ types \in SUBSET QiTypes
         /\ Cardinality(BundleTypes(to)) <= 4
<1> DEFINE B == BundleTypes(os)
<1>1. B \in SUBSET QiTypes
  <2>1. \A i \in Kept(os) : Types(os[i].left) \in SUBSET QiTypes
    <3>1. \A i \in Kept(os) : os[i].left \in SUBSET Hit
      BY ShapeOfOutcomes DEF Kept, Outcomes
    <3> QED BY <3>1, HitTypes
  <2> QED BY <2>1 DEF BundleTypes
<1>2. IsFiniteSet(B)
  BY <1>1, TypesFinite
<1>3. types \in SUBSET B /\ Cardinality(types) = n - 4
  <2>1. n - 4 \in Int /\ n - 4 <= n /\ ~ (n - 4 < 0)
    BY DEF QI_CONVERSATION_TARGET
  <2>2. ASSUME NEW m \in Int, m <= n
        PROVE  /\ MostDistinctive(B, m) \in SUBSET B
               /\ Cardinality(MostDistinctive(B, m)) = IF m < 0 THEN 0 ELSE m
    BY <1>1, <2>2, MostDistinctiveCount
  <2>3. types = MostDistinctive(B, n - 4)
    BY DEF QI_CONVERSATION_TARGET
  <2> QED BY <2>1, <2>2, <2>3
<1>4. Cardinality(B \ types) = 4 /\ IsFiniteSet(B \ types)
  <2>1. B \cap types = types
    BY <1>3
  <2>2. IsFiniteSet(B \ types) /\ Cardinality(B \ types) = Cardinality(B) - Cardinality(types)
    <3>1. IsFiniteSet(B \ types) /\ Cardinality(B \ types) = Cardinality(B) - Cardinality(B \cap types)
      BY <1>2, FS_Difference
    <3> QED BY <2>1, <3>1
  <2> QED BY <1>3, <2>2
<1>5. BundleTypes(to) \in SUBSET (B \ types)
  BY DEF BundleTypes, Without
<1>6. Cardinality(BundleTypes(to)) <= 4
  <2> HIDE DEF B
  <2> QED BY <1>4, <1>5, FS_Subset
<1> QED BY <1>1, <1>3, <1>6

LEMMA SinglingOutInv ==
  ASSUME DeidInv, SinglingOut
  PROVE  DeidInv'
<1> DEFINE os == outcomes
           B == BundleTypes(os)
           n == Cardinality(B)
           types == MostDistinctive(B, n - QI_CONVERSATION_TARGET)
           I == Touched(os, types)
<1>1. /\ os \in Seq(Outcomes) /\ ~ done
      /\ \A i \in DOMAIN os : Sound(os[i]) /\ Fresh(os[i])
  BY DEF DeidInv, SinglingOut
<1>2. done' = TRUE /\ pseudonyms' = pseudonyms
  BY DEF SinglingOut
<1>3. PICK dropped \in SUBSET I :
        outcomes' = IF n < QI_CONVERSATION_SUPPRESS THEN os
                    ELSE IF n >= QI_CONVERSATION_EXCLUDE THEN ExcludeConversation(os)
                    ELSE IF Gutted(os, I, Suppress(os, types, dropped))
                      THEN ExcludeConversation(Suppress(os, types, dropped))
                      ELSE Suppress(os, types, dropped)
  BY DEF SinglingOut
<1> DEFINE rest == Suppress(os, types, dropped)
<1>4. B \in SUBSET QiTypes /\ n \in Nat
  <2>1. \A i \in Kept(os) : Types(os[i].left) \in SUBSET QiTypes
    <3>1. \A i \in Kept(os) : os[i].left \in SUBSET Hit
      BY <1>1, ShapeOfOutcomes DEF Kept, Outcomes
    <3> QED BY <3>1, HitTypes
  <2>2. B \in SUBSET QiTypes
    BY <2>1 DEF BundleTypes
  <2> QED BY <2>2, TypesFinite
<1>5. /\ \A J \in SUBSET DOMAIN os : IsFiniteSet(J) /\ Cardinality(J) \in Nat
      /\ I \subseteq Kept(os) /\ Kept(os) \subseteq DOMAIN os
  BY <1>1, ShapeOfOutcomes DEF Kept, Touched
<1> HIDE DEF os, B, n, types, I, rest
<1>6. ASSUME NEW to \in Seq(Outcomes), DOMAIN to = DOMAIN os, outcomes' = to,
             \A i \in DOMAIN os : Sound(to[i]) /\ to[i].called = os[i].called,
             NobodySingledOut', KeptWhole'
      PROVE  DeidInv'
  BY <1>2, <1>6, EndInv DEF os
<1>7. ASSUME \A i \in DOMAIN outcomes' : Sound(outcomes'[i]),
             Cardinality(BundleTypes(outcomes')) <= 4
      PROVE  NobodySingledOut'
  <2>1. UNION {Types(outcomes'[i].left) : i \in {i \in DOMAIN outcomes' : outcomes'[i].kind = "kept"}} =
          BundleTypes(outcomes')
    BY DEF BundleTypes, Kept
  <2>2. \A i \in DOMAIN outcomes' : outcomes'[i].kind = "kept" => Cardinality(Types(outcomes'[i].left)) <= 3
    BY <1>7 DEF Sound
  <2> QED BY <1>7, <2>1, <2>2 DEF NobodySingledOut
<1>8. CASE outcomes' = os /\ n < QI_CONVERSATION_SUPPRESS
  <2>1. NobodySingledOut'
    <3>1. Cardinality(BundleTypes(outcomes')) <= 4
      BY <1>4, <1>8 DEF n, B, QI_CONVERSATION_SUPPRESS
    <3> QED BY <1>1, <1>7, <1>8, <3>1
  <2>2. KeptWhole'
    BY <1>1, <1>8 DEF KeptWhole, Fresh
  <2> QED BY <1>1, <1>6, <1>8, <2>1, <2>2
<1>9. ASSUME NEW from \in Seq(Outcomes), DOMAIN from = DOMAIN os,
             \A i \in DOMAIN os : Sound(from[i]) /\ from[i].called = os[i].called,
             outcomes' = ExcludeConversation(from)
      PROVE  DeidInv'
  <2> DEFINE to == ExcludeConversation(from)
  <2>1. /\ to \in Seq(Outcomes) /\ DOMAIN to = DOMAIN os /\ Kept(to) = {}
        /\ \A i \in DOMAIN os : Sound(to[i]) /\ to[i].called = os[i].called
    BY <1>9, ExcludeConversationShape
  <2> HIDE DEF to
  <2>2. outcomes' = to
    BY <1>9 DEF to
  <2>3. NobodySingledOut' /\ KeptWhole'
    BY <2>1, <2>2, NothingKept
  <2> QED BY <1>6, <2>1, <2>2, <2>3
<1>10. CASE outcomes' = ExcludeConversation(os)
  BY <1>1, <1>9, <1>10
<1>11. ASSUME n >= QI_CONVERSATION_SUPPRESS
       PROVE  /\ types \in SUBSET QiTypes
              /\ rest \in Seq(Outcomes) /\ DOMAIN rest = DOMAIN os
              /\ Kept(rest) = Kept(os) \ dropped
              /\ \A i \in DOMAIN os :
                   /\ Sound(rest[i]) /\ rest[i].called = os[i].called
                   /\ rest[i].code # "EXC_SINGLING_OUT"
                   /\ rest[i].attestation.after < 3
                        /\ rest[i].attestation.after < rest[i].attestation.before
                        <=> i \in I
              /\ Cardinality(BundleTypes(rest)) <= 4
  <2>1. types \in SUBSET QiTypes
    <3>1. n - 4 \in Int /\ n - 4 <= n
      BY <1>4
    <3>2. ASSUME NEW m \in Int, m <= n PROVE MostDistinctive(B, m) \in SUBSET B
      BY <1>4, <3>2, MostDistinctiveCount DEF n
    <3> QED BY <1>4, <3>1, <3>2 DEF types, QI_CONVERSATION_TARGET
  <2>2. /\ rest \in Seq(Outcomes) /\ DOMAIN rest = DOMAIN os
        /\ Kept(rest) = Kept(os) \ dropped
        /\ \A i \in DOMAIN os :
             /\ Sound(rest[i]) /\ rest[i].called = os[i].called
             /\ rest[i].code # "EXC_SINGLING_OUT"
             /\ rest[i].attestation.after < 3
                  /\ rest[i].attestation.after < rest[i].attestation.before
                  <=> i \in I
        /\ \A i \in Kept(os) : Without(rest[i], os[i], types)
    <3>1. dropped \in SUBSET Touched(os, types)
      BY <1>3 DEF I
    <3>2. Suppress(os, types, dropped) = rest /\ Touched(os, types) = I
      BY DEF rest, I
    <3>3. /\ os \in Seq(Outcomes) /\ \A i \in DOMAIN os : Sound(os[i]) /\ Fresh(os[i])
          /\ types \in SUBSET QiTypes
      BY <1>1, <2>1
    <3> QED BY <3>1, <3>2, <3>3, SuppressShape
  <2>3. n >= QI_CONVERSATION_TARGET
    BY <1>4, <1>11 DEF QI_CONVERSATION_SUPPRESS, QI_CONVERSATION_TARGET
  <2>4. Cardinality(BundleTypes(rest)) <= 4
    BY <1>1, <1>4, <2>2, <2>3, BundleLeft DEF types, n, B
  <2> QED BY <2>1, <2>2, <2>4
<1>12. CASE outcomes' = ExcludeConversation(rest) /\ n >= QI_CONVERSATION_SUPPRESS
  BY <1>9, <1>11, <1>12
<1>13. CASE outcomes' = rest /\ n >= QI_CONVERSATION_SUPPRESS /\ ~ Gutted(os, I, rest)
  <2>1. NobodySingledOut'
    BY <1>7, <1>11, <1>13
  <2> DEFINE kept == {i \in DOMAIN rest : rest[i].kind = "kept"}
             touched == {i \in DOMAIN rest : /\ rest[i].attestation.after < 3
                                             /\ rest[i].attestation.after < rest[i].attestation.before}
  <2>2. kept = Kept(os) \ dropped /\ kept = Kept(rest)
    BY <1>11, <1>13 DEF Kept
  <2>3. touched = I
    <3>1. \A i \in DOMAIN rest : i \in touched <=> i \in I
      BY <1>11, <1>13
    <3>2. I \subseteq DOMAIN rest
      BY <1>5, <1>11, <1>13
    <3> QED BY <3>1, <3>2
  <2>4. kept \cup touched = Kept(os)
    BY <1>3, <1>5, <2>2, <2>3
  <2>5. Cardinality(I) \in Nat /\ Cardinality(Kept(os)) \in Nat /\ Cardinality(Kept(rest)) \in Nat
    BY <1>5, <2>2
  <2>6. ~ (10 * Cardinality(I) > 4 * Cardinality(Kept(os))) /\ ~ (Cardinality(Kept(rest)) < 2)
    BY <1>13 DEF Gutted, GUTTING_MIN_USABLE_PROMPTS
  <2>7. 5 * Cardinality(I) <= 2 * Cardinality(Kept(os)) /\ Cardinality(Kept(rest)) >= 2
    <3>1. \A x, y \in Nat : ~ (10 * x > 4 * y) => 5 * x <= 2 * y
      OBVIOUS
    <3> QED BY <2>5, <2>6, <3>1
  <2>8. \A i \in DOMAIN rest : rest[i].code # "EXC_SINGLING_OUT"
    BY <1>11, <1>13
  <2>9. /\ Cardinality(kept) >= 2
        /\ 5 * Cardinality(touched) <= 2 * Cardinality(kept \cup touched)
    BY <2>2, <2>3, <2>4, <2>7
  <2>10. KeptWhole'
    BY <1>13, <2>8, <2>9 DEF KeptWhole
  <2> QED BY <1>6, <1>11, <1>13, <2>1, <2>10
<1>14. n < QI_CONVERSATION_SUPPRESS \/ n >= QI_CONVERSATION_SUPPRESS
  BY <1>4 DEF QI_CONVERSATION_SUPPRESS
<1> QED BY <1>3, <1>8, <1>10, <1>12, <1>13, <1>14 DEF rest

LEMMA StepInv ==
  ASSUME DeidInv, [Next]_vars
  PROVE  DeidInv'
<1>1. CASE Next
  BY <1>1, ProcessRecordInv, FailClosedInv, SinglingOutInv DEF Next
<1>2. CASE UNCHANGED vars
  BY <1>2 DEF vars, DeidInv, NobodySingledOut, KeptWhole, Numbering
<1> QED BY <1>1, <1>2

LEMMA InvAlways == Spec => []DeidInv
<1>1. Init => DeidInv
  BY InitInv
<1>2. DeidInv /\ [Next]_vars => DeidInv'
  BY StepInv
<1> QED BY <1>1, <1>2, PTL DEF Spec

-----------------------------------------------------------------------------
(* Outcomes, pseudonyms and attestations have their types; a prompt is     *)
(* kept exactly if it has no code.                                         *)
THEOREM DeidentificationTypeCorrect == Spec => []TypeOK
BY InvAlways, InvTypeOK, PTL

(* Whatever the detector and the regular expressions find, wherever, a     *)
(* kept prompt has no secret, and sensitive content only as plain fiction  *)
(* or as a fact about the world.                                           *)
THEOREM NothingSensitiveAlways == Spec => []NothingSensitive
BY InvAlways, InvNothingSensitive, PTL

(* In a conversation of any length, a pseudonym is one person's and a      *)
(* person has one.                                                         *)
THEOREM OnePersonAlways == Spec => []OnePersonOnePseudonym
BY InvAlways, InvOnePerson, PTL

(* A kept prompt has three types of quasi-identifiers at most, and what is *)
(* kept of a conversation has four, however its prompts accumulate.        *)
THEOREM NobodySingledOutAlways == Spec => []NobodySingledOut
<1>1. DeidInv => NobodySingledOut
  BY DEF DeidInv
<1> QED BY <1>1, InvAlways, PTL

(* The attestation of a kept prompt is about the edits that were made to   *)
(* it, by its own suppression and by the bundle's: the suppressed types    *)
(* are those of the hits that were edited away, all the hits of them.      *)
THEOREM AttestedAlways == Spec => []AttestedAsIs
BY InvAlways, InvAttestedAsIs, PTL

(* Of a conversation that was suppressed in, two prompts are left and two  *)
(* fifths were touched at most; or nothing of it is left.                  *)
THEOREM KeptWholeAlways == Spec => []KeptWhole
<1>1. DeidInv => KeptWhole
  BY DEF DeidInv
<1> QED BY <1>1, InvAlways, PTL
====
