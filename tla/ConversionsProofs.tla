------------------------- MODULE ConversionsProofs -------------------------
(***************************************************************************)
(* The pure conversions on inputs of any length.                           *)
(*                                                                         *)
(* A fold is a recursive function on the subsets of its positions; that it *)
(* exists, and steps through 1..n, needs induction.  Inductive gives it    *)
(* for a set instead of an operator, from the well-foundedness of <.       *)
(***************************************************************************)
EXTENDS MCConversions, ObjectsProofs, FiniteSetTheorems, SequenceTheorems

(* Induction over the natural numbers, for a set. *)
LEMMA LessThan == \A n, m \in Nat : n < m => <<n, m>> \in OpToRel(<, Nat)
<1> TAKE n \in Nat, m \in Nat
<1> HAVE n < m
<1> DEFINE p == <<n, m>>
<1>1. p \in Nat \X Nat /\ p[1] = n /\ p[2] = m
  OBVIOUS
<1>2. p[1] < p[2]
  BY <1>1
<1> QED BY <1>1, <1>2 DEF OpToRel

(* Every set of numbers but the empty one has a least member.              *)
LEMMA LeastNat ==
    ASSUME NEW S \in SUBSET Nat, S # {} PROVE \E m \in S : \A n \in S : m <= n
<1>1. \E m \in S : \A n \in S : <<n, m>> \notin OpToRel(<, Nat)
  BY NatLessThanWellFounded, WFMin, Zenon
<1>2. \E m \in S : \A n \in S : ~(n < m)
  BY <1>1, LessThan, Zenon
<1> QED BY <1>2

(* Induction, with a set for what is to be shown.                          *)
LEMMA Inductive ==
    ASSUME NEW T, 0 \in T, \A n \in Nat : n \in T => n + 1 \in T PROVE Nat \subseteq T
<1> SUFFICES ASSUME Nat \ T # {} PROVE FALSE
  OBVIOUS
<1>1. PICK m \in Nat \ T : \A n \in Nat \ T : m <= n
  BY LeastNat
<1>2. m # 0 /\ m - 1 \in Nat
  BY <1>1
<1>3. m - 1 \in T
  BY <1>1, <1>2
<1> QED BY <1>1, <1>2, <1>3

(* What the maximum, by which a fold picks its next position, is.          *)
LEMMA GreatestBelow ==
    ASSUME NEW n \in Nat, NEW S \in SUBSET (1..n), S # {}
    PROVE  /\ Seqs!Max(S) \in S
           /\ \A x \in S : x <= Seqs!Max(S)
<1>1. PICK U : U = {u \in Nat : n - u \in S}
  OBVIOUS
<1>2. U \in SUBSET Nat /\ \A x \in S : n - x \in U
  BY <1>1
<1>3. PICK u \in U : \A v \in U : u <= v
  <2>1. U # {}
    BY <1>2
  <2> QED BY <1>2, <2>1, LeastNat
<1>4. n - u \in S /\ u \in Nat
  BY <1>1, <1>3
<1>5. \A y \in S : n - u >= y
  <2> TAKE y \in S
  <2>1. n - y \in U /\ u <= n - y /\ y \in Nat
    BY <1>2, <1>3
  <2> QED BY <1>4, <2>1
<1> QED
  <2>1. \E x \in S : \A y \in S : x >= y
    BY <1>4, <1>5
  <2>2. Seqs!Max(S) \in S /\ \A y \in S : Seqs!Max(S) >= y
    BY <2>1 DEF Seqs!Max
  <2> QED BY <2>2

LEMMA GreatestUpTo ==
    ASSUME NEW n \in Nat, n # 0
    PROVE  Seqs!Max(1..n) = n /\ (1..n) \ {n} = 1..(n - 1)
<1>1. n \in 1..n
  OBVIOUS
<1>2. 1..n # {}
  BY <1>1
<1>3. Seqs!Max(1..n) \in 1..n /\ n <= Seqs!Max(1..n)
  BY <1>1, <1>2, GreatestBelow
<1>4. (1..n) \ {n} = 1..(n - 1)
  OBVIOUS
<1> QED BY <1>3, <1>4

(* The function a fold over 1..n is looked up in: it exists, and is typed. *)
Folding(g, n, base, step) ==
    \A s \in SUBSET (1..n) :
        g[s] = IF s = {} THEN base ELSE step[g[s \ {Seqs!Max(s)}], Seqs!Max(s)]

(* By induction on the number of positions.                                *)
LEMMA FoldingExists ==
    ASSUME NEW D, NEW base \in D
    PROVE  \A n \in Nat : \A step \in [D \X (1..n) -> D] :
               \E g \in [SUBSET (1..n) -> D] : Folding(g, n, base, step)
<1> DEFINE T == {n \in Nat : \A step \in [D \X (1..n) -> D] :
                                \E g \in [SUBSET (1..n) -> D] : Folding(g, n, base, step)}
<1>1. 0 \in T
  <2> SUFFICES ASSUME NEW step \in [D \X (1..0) -> D]
               PROVE  \E g \in [SUBSET (1..0) -> D] : Folding(g, 0, base, step)
    OBVIOUS
  <2> DEFINE g == [s \in SUBSET (1..0) |-> base]
  <2>1. g \in [SUBSET (1..0) -> D]
    OBVIOUS
  <2>2. 1..0 = {}
    OBVIOUS
  <2>3. Folding(g, 0, base, step)
    BY <2>2, Zenon DEF Folding
  <2> QED BY <2>1, <2>3
<1>2. ASSUME NEW n \in Nat, n \in T PROVE n + 1 \in T
  <2> SUFFICES ASSUME NEW step \in [D \X (1..(n + 1)) -> D]
               PROVE  \E g \in [SUBSET (1..(n + 1)) -> D] : Folding(g, n + 1, base, step)
    <3>1. n + 1 \in Nat
      OBVIOUS
    <3> QED BY <3>1
  <2>1. PICK less : less = [x \in D \X (1..n) |-> step[x]]
    OBVIOUS
  <2>a. 1..n \subseteq 1..(n + 1) /\ n + 1 \in Nat /\ n + 1 \in 1..(n + 1)
    OBVIOUS
  <2>2. less \in [D \X (1..n) -> D] /\ \A d \in D, i \in 1..n : less[d, i] = step[d, i]
    <3>1. \A d \in D, i \in 1..n : <<d, i>> \in D \X (1..n) /\ <<d, i>> \in D \X (1..(n + 1))
      BY <2>a
    <3> QED BY <2>1, <3>1, <2>a, Zenon
  <2>3. PICK h \in [SUBSET (1..n) -> D] : Folding(h, n, base, less)
    BY <1>2, <2>2, Zenon
  <2>4. PICK g : g = [s \in SUBSET (1..(n + 1)) |->
                        IF n + 1 \in s THEN step[h[s \ {n + 1}], n + 1] ELSE h[s]]
    BY Zenon
  <2>5. \A s \in SUBSET (1..(n + 1)) : s \ {n + 1} \in SUBSET (1..n)
    OBVIOUS
  <2>6. g \in [SUBSET (1..(n + 1)) -> D]
    <3>1. ASSUME NEW s \in SUBSET (1..(n + 1))
          PROVE (IF n + 1 \in s THEN step[h[s \ {n + 1}], n + 1] ELSE h[s]) \in D
      <4>1. h[s \ {n + 1}] \in D
        BY <2>3, <2>5
      <4>2. n + 1 \notin s => s = s \ {n + 1}
        OBVIOUS
      <4> QED BY <4>1, <4>2, Zenon
    <3> QED BY <2>4, <3>1, Zenon
  <2>7. ASSUME NEW s \in SUBSET (1..(n + 1))
        PROVE  g[s] = IF s = {} THEN base ELSE step[g[s \ {Seqs!Max(s)}], Seqs!Max(s)]
    <3>1. CASE n + 1 \in s
      <4>1. Seqs!Max(s) = n + 1
        <5>1. Seqs!Max(s) \in s /\ n + 1 <= Seqs!Max(s)
          BY <2>a, <3>1, GreatestBelow
        <5>2. Seqs!Max(s) \in 1..(n + 1)
          BY <5>1
        <5> QED BY <5>1, <5>2
      <4>2. g[s \ {n + 1}] = h[s \ {n + 1}]
        BY <2>4, <2>5, Zenon
      <4> QED BY <2>4, <3>1, <4>1, <4>2, Zenon
    <3>2. CASE n + 1 \notin s
      <4>1. s \in SUBSET (1..n) /\ g[s] = h[s]
        <5>1. s \ {n + 1} = s
          BY <3>2
        <5> QED BY <2>4, <2>5, <3>2, <5>1, Zenon
      <4>2. CASE s # {}
        <5>1. Seqs!Max(s) \in 1..n /\ s \ {Seqs!Max(s)} \in SUBSET (1..n)
          BY <4>1, <4>2, GreatestBelow
        <5>2. g[s \ {Seqs!Max(s)}] = h[s \ {Seqs!Max(s)}] /\ h[s \ {Seqs!Max(s)}] \in D
          BY <2>3, <2>4, <3>2, <5>1, Zenon
        <5> QED BY <2>2, <2>3, <4>1, <4>2, <5>1, <5>2, Zenon DEF Folding
      <4>3. CASE s = {}
        BY <2>3, <4>1, <4>3, Zenon DEF Folding
      <4> QED BY <4>2, <4>3, Zenon
    <3> QED BY <3>1, <3>2, Zenon
  <2> QED BY <2>6, <2>7, Zenon DEF Folding
<1> HIDE DEF T
<1>3. Nat \subseteq T
  BY <1>1, <1>2, Inductive
<1> QED BY <1>3 DEF T

(* What every step keeps holds of all of them. *)
LEMMA Stepwise ==
    ASSUME NEW n \in Nat, NEW h, NEW D, h[0] \in D,
           \A i \in 1..n : h[i - 1] \in D => h[i] \in D
    PROVE  \A i \in 0..n : h[i] \in D
<1> DEFINE T == {i \in Nat : i <= n => h[i] \in D}
<1>1. 0 \in T
  OBVIOUS
<1>2. ASSUME NEW i \in Nat, i \in T PROVE i + 1 \in T
  <2> SUFFICES ASSUME i + 1 <= n PROVE h[i + 1] \in D
    OBVIOUS
  <2>1. i + 1 \in 1..n /\ (i + 1) - 1 = i /\ h[i] \in D
    BY <1>2
  <2> QED BY <2>1
<1> HIDE DEF T
<1>3. Nat \subseteq T
  BY <1>1, <1>2, Inductive
<1> QED BY <1>3 DEF T


(* The fold of a step over 1..n, one step after the other.                 *)
Unrolls(g, n, step, D) ==
    \A s \in SUBSET (1..n) : s # {} /\ g[s \ {Seqs!Max(s)}] \in D =>
        g[s] = step[g[s \ {Seqs!Max(s)}], Seqs!Max(s)]

Unrolled(g, n, step, D, base) ==
    \E h \in [0..n -> D] :
        h[0] = base /\ h[n] = g[1..n] /\ \A i \in 1..n : h[i] = step[h[i - 1], i]

(* A fold over 1..n is the last of n results, each made from the one before.*)
LEMMA Unrolling ==
    ASSUME NEW D, NEW base \in D, NEW n \in Nat, NEW step \in [D \X (1..n) -> D], NEW g, g[{}] = base,
           Unrolls(g, n, step, D)
    PROVE  Unrolled(g, n, step, D, base)
<1>1. PICK h : h = [i \in 0..n |-> g[1..i]]
  OBVIOUS
<1>2. h[0] = base
  <2>1. 1..0 = {} /\ 0 \in 0..n
    OBVIOUS
  <2> QED BY <1>1, <2>1
<1>3. ASSUME NEW i \in 1..n, h[i - 1] \in D PROVE h[i] = step[h[i - 1], i] /\ h[i] \in D
  <2>1. /\ i \in Nat /\ i # 0 /\ i \in 0..n /\ i - 1 \in 0..n
        /\ 1..i \in SUBSET (1..n) /\ 1..i # {}
    OBVIOUS
  <2>2. Seqs!Max(1..i) = i /\ (1..i) \ {i} = 1..(i - 1)
    BY <2>1, GreatestUpTo
  <2>3. g[1..i] = step[g[1..(i - 1)], i]
    BY <1>1, <1>3, <2>1, <2>2, Zenon DEF Unrolls
  <2>4. <<h[i - 1], i>> \in D \X (1..n)
    BY <1>3
  <2> QED BY <1>1, <2>1, <2>3, <2>4, Zenon
<1>4. \A i \in 0..n : h[i] \in D
  BY <1>2, <1>3, Stepwise, Zenon
<1>5. \A i \in 1..n : i - 1 \in 0..n
  OBVIOUS
<1>6. n \in 0..n /\ h[n] = g[1..n]
  BY <1>1
<1>7. h \in [0..n -> D]
  BY <1>1, <1>4
<1>8. \A i \in 1..n : h[i] = step[h[i - 1], i]
  BY <1>3, <1>4, <1>5, Zenon
<1> QED BY <1>2, <1>6, <1>7, <1>8, Zenon DEF Unrolled

LEMMA SameMax == \A S : EntrySeqs!Max(S) = Seqs!Max(S)
BY DEF EntrySeqs!Max, Seqs!Max

-----------------------------------------------------------------------------
(* The inputs. *)

Symbol == Typed \cup Scheme \cup {"n", "/"}

FormFields == TextFields \cup {"is_s3", "save_secret_to_keychain"}

FormSet ==
    {f \in [FormFields -> BOOLEAN \cup Seq(Symbol)] :
        /\ f.is_s3 \in BOOLEAN /\ f.save_secret_to_keychain \in BOOLEAN
        /\ \A k \in TextFields : f[k] \in Seq(Symbol)}

Apart(after) == after # <<>> => after[1] = Blank

InputTyped ==
    \/ input \in [kind : {"path"}, raw : Seq(Component)]
    \/ input \in [kind : {"form"}, form : FormSet, typed : Nat]
    \/ /\ input \in [kind : {"probe"}, before : Seq({"w", Blank}),
                     after : Seq({"w", Blank, "version=", "sha="})]
       /\ Apart(input.after)
    \/ input \in [kind : {"listing"}, entries : Seq(EntryNames)]
    \/ input \in [kind : {"health"}, answered : BOOLEAN, modules : Seq(Modules), running : Shas, host : Shas]

(* Every input is of the shape InputTyped gives it.                        *)
LEMMA InitInput == Init => InputTyped
<1> SUFFICES ASSUME Init PROVE InputTyped
  OBVIOUS
<1>1. CASE input = [kind |-> "path", raw |-> <<>>]
  BY <1>1 DEF InputTyped
<1>2. CASE input \in [kind : {"form"}, form : Forms, typed : {0}]
  <2>1. Forms \subseteq FormSet
    <3> SUFFICES ASSUME NEW f \in Forms PROVE f \in FormSet
      OBVIOUS
    <3>1. PICK s3 \in BOOLEAN, saved \in BOOLEAN :
              f = [k \in TextFields \cup {"is_s3", "save_secret_to_keychain"} |->
                      CASE k = "is_s3" -> s3 [] k = "save_secret_to_keychain" -> saved [] OTHER -> BlankForm[k]]
      BY DEF Forms
    <3>2. \A k \in TextFields : BlankForm[k] \in Seq(Symbol)
      <4>1. {"n", "/", "w", Blank, "on"} \subseteq Symbol
        BY DEF Symbol, Typed
      <4>2. BlankForm.name \in Seq(Symbol) /\ BlankForm.mount_point \in Seq(Symbol)
        BY <4>1 DEF BlankForm
      <4>3. \A k \in TextFields \ {"name", "mount_point"} : BlankForm[k] \in Seq(Symbol)
        <5>1. <<>> \in Seq(Symbol) /\ <<"w">> \in Seq(Symbol)
          BY <4>1
        <5>2. /\ BlankForm.bucket = <<"w">> /\ BlankForm.region = <<"w">> /\ BlankForm.endpoint = <<>>
              /\ BlankForm.access_key_id = <<"w">> /\ BlankForm.session_token = <<>> /\ BlankForm.secret = <<"w">>
          BY DEF BlankForm
        <5> QED BY <5>1, <5>2 DEF TextFields
      <4> QED BY <4>2, <4>3
    <3>3. \A k \in TextFields : k # "is_s3" /\ k # "save_secret_to_keychain"
      BY DEF TextFields
    <3>4. "is_s3" \in FormFields /\ "save_secret_to_keychain" \in FormFields /\ TextFields \subseteq FormFields
      BY DEF FormFields
    <3>5. f.is_s3 = s3 /\ f.save_secret_to_keychain = saved /\ \A k \in TextFields : f[k] = BlankForm[k]
      BY <3>1, <3>3, <3>4 DEF FormFields
    <3>6. f \in [FormFields -> BOOLEAN \cup Seq(Symbol)]
      <4>1. \A k \in FormFields : f[k] \in BOOLEAN \cup Seq(Symbol)
        BY <3>2, <3>5 DEF FormFields
      <4> QED BY <3>1, <4>1 DEF FormFields
    <3> QED BY <3>2, <3>5, <3>6 DEF FormSet
  <2> QED BY <1>2, <2>1 DEF InputTyped
<1>3. CASE input = [kind |-> "probe", before |-> <<>>, after |-> <<>>]
  BY <1>3 DEF InputTyped, Apart
<1>4. CASE input = [kind |-> "listing", entries |-> <<>>]
  BY <1>4 DEF InputTyped
<1>5. CASE input \in [kind : {"health"}, answered : BOOLEAN, modules : {<<>>}, running : Shas, host : Shas]
  <2>1. <<>> \in Seq(Modules)
    OBVIOUS
  <2> QED BY <1>5, <2>1 DEF InputTyped
<1> QED BY <1>1, <1>2, <1>3, <1>4, <1>5 DEF Init

LEMMA StepInput == InputTyped /\ [Next]_input => InputTyped'
<1> SUFFICES ASSUME InputTyped, [Next]_input PROVE InputTyped'
  OBVIOUS
<1>1. CASE AddComponent
  <2>1. input \in [kind : {"path"}, raw : Seq(Component)]
    BY <1>1 DEF AddComponent, InputTyped
  <2>2. PICK c \in Component : input' = [input EXCEPT !.raw = Append(@, c)]
    BY <1>1, Zenon DEF AddComponent, Component
  <2>3. Append(input.raw, c) \in Seq(Component)
    BY <2>1
  <2> QED BY <2>1, <2>2, <2>3 DEF InputTyped
<1>2. CASE TypeIn
  <2>1. PICK k \in TextFields, c \in Symbol :
            input' = [input EXCEPT !.form[k] = Append(@, c), !.typed = @ + 1]
    BY <1>2, Zenon DEF TypeIn, Symbol
  <2>2. input \in [kind : {"form"}, form : FormSet, typed : Nat]
    BY <1>2 DEF TypeIn, InputTyped
  <2>3. [input.form EXCEPT ![k] = Append(@, c)] \in FormSet
    <3>1. k # "is_s3" /\ k # "save_secret_to_keychain" /\ k \in FormFields
      BY DEF TextFields, FormFields
    <3>2. Append(input.form[k], c) \in Seq(Symbol)
      BY <2>2 DEF FormSet
    <3> QED BY <2>2, <3>1, <3>2 DEF FormSet, FormFields
  <2>4. input' = [input EXCEPT !.form = [input.form EXCEPT ![k] = Append(@, c)], !.typed = input.typed + 1]
    BY <2>1
  <2>5. input' \in [kind : {"form"}, form : FormSet, typed : Nat]
    <3>1. input.typed + 1 \in Nat
      BY <2>2
    <3> HIDE DEF FormSet
    <3> QED BY <2>2, <2>3, <2>4, <3>1
  <2> QED BY <2>5 DEF InputTyped
<1>3. CASE AddOutput
  <2> DEFINE Before == Seq({"w", Blank})  After == Seq({"w", Blank, "version=", "sha="})
  <2>1. input \in [kind : {"probe"}, before : Before, after : After] /\ Apart(input.after)
    BY <1>3 DEF AddOutput, InputTyped
  <2>2. CASE \E c \in {"w", Blank} : input' = [input EXCEPT !.before = Append(@, c)]
    <3>1. PICK c \in {"w", Blank} : input' = [input EXCEPT !.before = Append(@, c)]
      BY <2>2
    <3>2. Append(input.before, c) \in Before
      BY <2>1
    <3>3. input' \in [kind : {"probe"}, before : Before, after : After] /\ input'.after = input.after
      BY <2>1, <3>1, <3>2
    <3> QED BY <2>1, <3>3 DEF InputTyped, Apart
  <2>3. ASSUME NEW c \in {"w", Blank, "version=", "sha="}, input.after = <<>> => c = Blank,
               input' = [input EXCEPT !.after = Append(@, c)]
        PROVE  InputTyped'
    <3>1. Append(input.after, c) \in After /\ Apart(Append(input.after, c))
      BY <2>1, <2>3 DEF Apart
    <3>2. input' \in [kind : {"probe"}, before : Before, after : After] /\ input'.after = Append(input.after, c)
      BY <2>1, <2>3, <3>1
    <3> QED BY <3>1, <3>2 DEF InputTyped, Apart
  <2> QED BY <1>3, <2>2, <2>3 DEF AddOutput
<1>4. CASE AddEntry
  <2>1. input \in [kind : {"listing"}, entries : Seq(EntryNames)]
    BY <1>4 DEF AddEntry, InputTyped
  <2>2. PICK name \in EntryNames : input' = [input EXCEPT !.entries = Append(@, name)]
    BY <1>4 DEF AddEntry
  <2>3. Append(input.entries, name) \in Seq(EntryNames)
    BY <2>1
  <2> QED BY <2>1, <2>2, <2>3 DEF InputTyped
<1>5. CASE AddModule
  <2>1. input \in [kind : {"health"}, answered : BOOLEAN, modules : Seq(Modules), running : Shas, host : Shas]
    BY <1>5 DEF AddModule, InputTyped
  <2>2. PICK m \in Modules : input' = [input EXCEPT !.modules = Append(@, m)]
    BY <1>5 DEF AddModule
  <2>3. Append(input.modules, m) \in Seq(Modules)
    BY <2>1
  <2> QED BY <2>1, <2>2, <2>3 DEF InputTyped
<1>6. CASE UNCHANGED input
  BY <1>6 DEF InputTyped
<1> QED BY <1>1, <1>2, <1>3, <1>4, <1>5, <1>6 DEF Next

LEMMA InputsTyped == Spec => []InputTyped
BY InitInput, StepInput, PTL DEF Spec
-----------------------------------------------------------------------------
(* The elements at some positions, in order. *)

Rank(S, i) == Cardinality(S \cap (1..i))

LEMMA Ranks ==
    ASSUME NEW n \in Nat, NEW S \in SUBSET (1..n)
    PROVE  /\ IsFiniteSet(S) /\ Cardinality(S) \in 0..n
           /\ \A i \in S : Rank(S, i) \in 1..Cardinality(S)
           /\ \A i, j \in S : i < j => Rank(S, i) < Rank(S, j)
<1>1. IsFiniteSet(1..n) /\ Cardinality(1..n) = n
  BY FS_Interval
<1>2. \A T \in SUBSET S : IsFiniteSet(T) /\ Cardinality(T) \in Nat /\ Cardinality(T) <= Cardinality(S)
  <2>1. IsFiniteSet(S)
    BY <1>1, FS_Subset
  <2> QED BY <2>1, FS_Subset, FS_CardinalityType
<1>3. IsFiniteSet(S) /\ Cardinality(S) \in 0..n
  <2>1. Cardinality(S) <= n
    BY <1>1, FS_Subset
  <2>2. S \in SUBSET S
    OBVIOUS
  <2> QED BY <1>2, <2>1, <2>2
<1>4. ASSUME NEW i \in S PROVE Rank(S, i) \in 1..Cardinality(S)
  <2>1. S \cap (1..i) \in SUBSET S /\ i \in S \cap (1..i)
    OBVIOUS
  <2>2. Cardinality(S \cap (1..i)) # 0
    BY <1>2, <2>1, FS_EmptySet
  <2> QED BY <1>2, <1>3, <2>1, <2>2 DEF Rank
<1>5. ASSUME NEW i \in S, NEW j \in S, i < j PROVE Rank(S, i) < Rank(S, j)
  <2> DEFINE T == S \cap (1..i)
  <2>1. T \in SUBSET S /\ j \notin T /\ T \cup {j} \in SUBSET (S \cap (1..j)) /\ S \cap (1..j) \in SUBSET S
    BY <1>5
  <2>2. Cardinality(T \cup {j}) = Cardinality(T) + 1
    BY <1>2, <2>1, FS_AddElement
  <2>3. Cardinality(T \cup {j}) <= Cardinality(S \cap (1..j))
    BY <1>2, <2>1, FS_Subset
  <2> QED BY <1>2, <2>1, <2>2, <2>3 DEF Rank
<1> QED BY <1>3, <1>4, <1>5

LEMMA RankGrows ==
    ASSUME NEW n \in Nat, NEW S \in SUBSET (1..n), NEW i \in S, NEW j \in S, i < j
    PROVE  Rank(S, i) < Rank(S, j)
BY Ranks

(* A position after all others gets the next rank, and changes none.       *)
LEMMA AddLast ==
    ASSUME NEW n \in Nat, NEW S \in SUBSET (1..n)
    PROVE  /\ Cardinality(S \cup {n + 1}) = Cardinality(S) + 1
           /\ S \cup {n + 1} \in SUBSET (1..(n + 1))
           /\ \A i \in S : Rank(S \cup {n + 1}, i) = Rank(S, i)
           /\ Rank(S \cup {n + 1}, n + 1) = Cardinality(S) + 1
<1>1. IsFiniteSet(S) /\ n + 1 \notin S
  BY Ranks
<1>2. Cardinality(S \cup {n + 1}) = Cardinality(S) + 1
  BY <1>1, FS_AddElement
<1>3. \A i \in S : (S \cup {n + 1}) \cap (1..i) = S \cap (1..i)
  OBVIOUS
<1>4. (S \cup {n + 1}) \cap (1..(n + 1)) = S \cup {n + 1} /\ S \cup {n + 1} \in SUBSET (1..(n + 1))
  <2>1. \A i \in S : i \in 1..(n + 1)
    OBVIOUS
  <2>2. n + 1 \in 1..(n + 1)
    OBVIOUS
  <2> QED BY <2>1, <2>2
<1> QED BY <1>2, <1>3, <1>4 DEF Rank

(* Every rank belongs to one position.                                     *)
LEMMA EveryRank ==
    ASSUME NEW n \in Nat, NEW S \in SUBSET (1..n), NEW k \in 1..Cardinality(S)
    PROVE  \E i \in S : Rank(S, i) = k
<1> DEFINE T == {m \in Nat : \A U \in SUBSET (1..m) : \A r \in 1..Cardinality(U) :
                                 \E i \in U : Rank(U, i) = r}
<1>1. 0 \in T
  <2>1. \A U \in SUBSET (1..0) : U = {} /\ Cardinality(U) = 0
    <3>1. 1..0 = {}
      OBVIOUS
    <3> QED BY <3>1, FS_EmptySet
  <2>2. 1..0 = {}
    OBVIOUS
  <2> QED BY <2>1, <2>2
<1>2. ASSUME NEW m \in Nat, m \in T PROVE m + 1 \in T
  <2> SUFFICES ASSUME NEW U \in SUBSET (1..(m + 1)), NEW r \in 1..Cardinality(U)
               PROVE  \E i \in U : Rank(U, i) = r
    <3>1. m + 1 \in Nat
      OBVIOUS
    <3> QED BY <3>1
  <2> DEFINE V == U \ {m + 1}
  <2>1. V \in SUBSET (1..m)
    OBVIOUS
  <2>2. \A q \in 1..Cardinality(V) : \E i \in V : Rank(V, i) = q
    BY <1>2, <2>1
  <2>3. CASE m + 1 \notin U
    <3>1. V = U
      BY <2>3
    <3> QED BY <2>2, <3>1
  <2>4. CASE m + 1 \in U
    <3>1. U = V \cup {m + 1} /\ V \subseteq U
      BY <2>4
    <3>2. /\ Cardinality(U) = Cardinality(V) + 1 /\ Rank(U, m + 1) = Cardinality(V) + 1
          /\ \A i \in V : Rank(U, i) = Rank(V, i)
      BY <2>1, <3>1, AddLast
    <3>3. Cardinality(V) \in Nat
      BY <2>1, Ranks
    <3>4. r = Cardinality(V) + 1 \/ r \in 1..Cardinality(V)
      BY <3>2, <3>3
    <3> HIDE DEF V
    <3> QED BY <2>2, <2>4, <3>1, <3>2, <3>4
  <2> QED BY <2>3, <2>4
<1> HIDE DEF T
<1>3. Nat \subseteq T
  BY <1>1, <1>2, Inductive
<1> QED BY <1>3 DEF T

(* At its rank each position has its own element.                          *)
LEMMA Ordered ==
    ASSUME NEW n \in Nat, NEW S \in SUBSET (1..n), NEW seq
    PROVE  /\ InOrder(seq, S) \in [1..Cardinality(S) -> {seq[i] : i \in S}]
           /\ \A i \in S : InOrder(seq, S)[Rank(S, i)] = seq[i]
<1>1. \A i \in S : Rank(S, i) \in 1..Cardinality(S) /\ i \in Nat
  BY Ranks
<1>2. \A k \in 1..Cardinality(S) : \E i \in S : Rank(S, i) = k
  BY EveryRank
<1>3. \A i, j \in S : Rank(S, i) = Rank(S, j) => i = j
  <2> SUFFICES ASSUME NEW i \in S, NEW j \in S, i # j PROVE Rank(S, i) # Rank(S, j)
    OBVIOUS
  <2>1. i < j \/ j < i
    BY <1>1
  <2>2. Rank(S, i) < Rank(S, j) \/ Rank(S, j) < Rank(S, i)
    BY <2>1, Ranks
  <2>3. Rank(S, i) \in Int /\ Rank(S, j) \in Int
    BY <1>1, Ranks
  <2> QED BY <2>2, <2>3
<1>4. InOrder(seq, S) = [k \in 1..Cardinality(S) |-> seq[CHOOSE i \in S : Rank(S, i) = k]]
  BY DEF InOrder, Rank
<1>5. \A k \in 1..Cardinality(S) : /\ (CHOOSE i \in S : Rank(S, i) = k) \in S
                                   /\ Rank(S, CHOOSE i \in S : Rank(S, i) = k) = k
  BY <1>2
<1>6. InOrder(seq, S) \in [1..Cardinality(S) -> {seq[i] : i \in S}]
  BY <1>4, <1>5
<1>7. ASSUME NEW i \in S PROVE InOrder(seq, S)[Rank(S, i)] = seq[i]
  <2>1. (CHOOSE j \in S : Rank(S, j) = Rank(S, i)) = i
    BY <1>1, <1>3, <1>5
  <2> QED BY <1>1, <1>4, <2>1
<1> QED BY <1>6, <1>7

(* One more position, after the others, puts its element at the end.       *)
LEMMA OrderedAppend ==
    ASSUME NEW n \in Nat, NEW S \in SUBSET (1..n), NEW seq
    PROVE  InOrder(seq, S \cup {n + 1}) = Append(InOrder(seq, S), seq[n + 1])
<1> DEFINE T == S \cup {n + 1}  c == Cardinality(S)  old == InOrder(seq, S)  new == InOrder(seq, T)
<1>1. c \in Nat /\ T \in SUBSET (1..(n + 1)) /\ Cardinality(T) = c + 1 /\ Rank(T, n + 1) = c + 1
      /\ \A i \in S : Rank(T, i) = Rank(S, i)
  <2>1. c \in Nat
    BY Ranks
  <2> QED BY <2>1, AddLast
<1>2. old \in [1..c -> {seq[i] : i \in S}] /\ \A i \in S : old[Rank(S, i)] = seq[i]
  BY Ordered
<1>3. new \in [1..(c + 1) -> {seq[i] : i \in T}] /\ \A i \in T : new[Rank(T, i)] = seq[i]
  <2>1. n + 1 \in Nat
    OBVIOUS
  <2> HIDE DEF T
  <2>2. new \in [1..Cardinality(T) -> {seq[i] : i \in T}] /\ \A i \in T : new[Rank(T, i)] = seq[i]
    BY <1>1, <2>1, Ordered
  <2> QED BY <1>1, <2>2
<1>4. \A k \in 1..c : new[k] = old[k]
  <2> TAKE k \in 1..c
  <2>1. PICK i \in S : Rank(S, i) = k
    BY EveryRank
  <2> QED BY <1>1, <1>2, <1>3, <2>1
<1>5. new[c + 1] = seq[n + 1]
  <2>1. n + 1 \in T
    OBVIOUS
  <2> HIDE DEF T, c, new
  <2> QED BY <1>1, <1>3, <2>1
<1> HIDE DEF T, c, old, new
<1>6. old \in Seq({seq[i] : i \in S}) /\ Len(old) = c
  BY <1>1, <1>2
<1>7. new = Append(old, seq[n + 1])
  BY <1>1, <1>3, <1>4, <1>5, <1>6
<1> QED BY <1>7 DEF new, old, T

(* No positions, no elements.                                              *)
LEMMA OrderedNothing == ASSUME NEW seq PROVE InOrder(seq, {}) = <<>>
<1>1. Cardinality({}) = 0
  BY FS_EmptySet
<1> QED BY <1>1 DEF InOrder

-----------------------------------------------------------------------------
(* Normalisation. *)

LEMMA Collapsed == ASSUME NEW p \in PathSet, NEW c \in Component PROVE Collapse(p, c) \in PathSet
<1>1. CASE p = Root \/ c # ".."
  <2>1. CASE c \in Name
    <3>1. c \notin {"", ".", ".."}
      BY <2>1, NameAssumption, Zenon
    <3>2. Collapse(p, c) = Append(p, c)
      BY <3>1, Zenon DEF Collapse
    <3> QED BY <2>1, <3>2 DEF PathSet
  <2>2. CASE c \notin Name
    BY <1>1, <2>2, Zenon DEF Collapse, Component, PathSet, Root
  <2> QED BY <2>1, <2>2
<1>2. CASE p # Root /\ c = ".."
  <2>1. Seqs!Front(p) \in Seq(Name)
    BY <1>2 DEF Seqs!Front, PathSet, Root
  <2> QED BY <1>2, <2>1, NameAssumption, Zenon DEF Collapse, PathSet, Root
<1> QED BY <1>1, <1>2

(* path::normalize takes the components one after the other.               *)
LEMMA NormalizeSteps ==
    ASSUME NEW cs \in Seq(Component)
    PROVE  \E h \in [0..Len(cs) -> PathSet] :
               /\ h[0] = Root /\ Normalize(cs) = h[Len(cs)]
               /\ \A i \in 1..Len(cs) : h[i] = Collapse(h[i - 1], cs[i])
<1> DEFINE n == Len(cs)
<1>1. n \in Nat /\ DOMAIN cs = 1..n /\ (\A i \in 1..n : cs[i] \in Component) /\ Root \in PathSet
  BY DEF Root, PathSet
<1>2. PICK step : step = [x \in PathSet \X (1..n) |-> Collapse(x[1], cs[x[2]])]
  OBVIOUS
<1>3. step \in [PathSet \X (1..n) -> PathSet] /\ \A d \in PathSet, i \in 1..n : step[d, i] = Collapse(d, cs[i])
  BY <1>1, <1>2, Collapsed, Zenon
<1>4. PICK f \in [SUBSET (1..n) -> PathSet] : Folding(f, n, Root, step)
  BY <1>1, <1>3, FoldingExists, Zenon
<1> DEFINE Solves(g) == g = [s \in SUBSET (1..n) |-> IF s = {} THEN Root
                                      ELSE Collapse(g[s \ {Seqs!Max(s)}], cs[Seqs!Max(s)])]
<1>5. Normalize(cs) = (CHOOSE g : Solves(g))[1..n]
  BY <1>1 DEF Normalize, Seqs!FoldLeft, Seqs!MapThenFoldSet
<1> HIDE DEF n
<1>6. \A s \in SUBSET (1..n) : s # {} => Seqs!Max(s) \in 1..n /\ s \ {Seqs!Max(s)} \in SUBSET (1..n)
  BY <1>1, GreatestBelow
<1>7. Solves(f)
  BY <1>3, <1>4, <1>6, Zenon DEF Folding
<1>8. PICK g : Solves(g) /\ Normalize(cs) = g[1..n]
  <2>1. Solves(CHOOSE g : Solves(g))
    BY <1>7
  <2> HIDE DEF Solves
  <2> QED BY <1>5, <2>1
<1>9. g[{}] = Root /\ Unrolls(g, n, step, PathSet)
  <2>1. ASSUME NEW s \in SUBSET (1..n), s # {}, g[s \ {Seqs!Max(s)}] \in PathSet
        PROVE  g[s] = step[g[s \ {Seqs!Max(s)}], Seqs!Max(s)]
    <3>1. g[s] = Collapse(g[s \ {Seqs!Max(s)}], cs[Seqs!Max(s)])
      BY <1>6, <1>8, <2>1
    <3> QED BY <1>3, <1>6, <2>1, <3>1, Zenon
  <2>2. g[{}] = Root
    BY <1>8
  <2> QED BY <2>1, <2>2, Zenon DEF Unrolls
<1> HIDE DEF Solves
<1>10. Unrolled(g, n, step, PathSet, Root)
  BY <1>1, <1>3, <1>9, Unrolling, Zenon
<1>11. PICK h \in [0..n -> PathSet] : h[0] = Root /\ h[n] = g[1..n] /\ \A i \in 1..n : h[i] = step[h[i - 1], i]
  BY <1>10, Zenon DEF Unrolled
<1>12. \A i \in 1..n : h[i] = Collapse(h[i - 1], cs[i])
  <2>1. \A i \in 1..n : i - 1 \in 0..n
    BY <1>1
  <2> QED BY <1>3, <1>11, <2>1, Zenon
<1> QED BY <1>8, <1>11, <1>12, Zenon DEF n

LEMMA Normalized == ASSUME NEW cs \in Seq(Component) PROVE Normalize(cs) \in PathSet
<1>1. Len(cs) \in Nat /\ Len(cs) \in 0..Len(cs)
  OBVIOUS
<1> QED BY <1>1, NormalizeSteps

LEMMA RawTyped == ASSUME InputTyped PROVE raw \in Seq(Component)
<1>1. <<>> \in Seq(Component)
  OBVIOUS
<1> QED BY <1>1 DEF InputTyped, raw

LEMMA PathsRight == InputTyped => ParentAndBasename /\ RekeyInverts
<1> SUFFICES ASSUME InputTyped PROVE ParentAndBasename /\ RekeyInverts
  OBVIOUS
<1> PICK p : p = Normalize(raw)
  OBVIOUS
<1>1. p \in PathSet
  BY RawTyped, Normalized
<1>2. ParentAndBasename
  <2>1. p # Root => Join(Parent(p), Basename(p)) = p
    BY <1>1, JoinTakesApart
  <2> QED BY <2>1, Zenon DEF ParentAndBasename, Parent, Basename
<1>3. RekeyInverts
  <2> SUFFICES ASSUME NEW i \in 1..Len(p), NEW d \in BOOLEAN, NEW n \in Name,
                      StartsWith([path |-> p, dir |-> d], SubSeq(p, 1, i))
               PROVE  LET k == [path |-> p, dir |-> d]
                          from == SubSeq(p, 1, i)
                          to == <<n>>
                      IN  /\ StartsWith(Rekey(k, from, to), to)
                          /\ Rekey(Rekey(k, from, to), to, from) = k
    BY DEF RekeyInverts
  <2> DEFINE k == [path |-> p, dir |-> d]  from == SubSeq(p, 1, i)  to == <<n>>
  <2>1. from \in PathSet /\ Len(from) = i /\ from # Root /\ p # Root
    BY <1>1 DEF PathSet, Root
  <2>2. to \in PathSet /\ to # Root
    BY DEF PathSet, Root
  <2>3. k \in Key
    BY <1>1, <2>1 DEF Key
  <2> HIDE DEF k, from, to
  <2> QED BY <2>1, <2>2, <2>3, RenamingBackRestoresKeys DEF k, from, to
<1> QED BY <1>2, <1>3

(* The names among the first m components that are left after these.       *)
Alive(m) ==
    {i \in 1..m : /\ raw[i] \in Name
                  /\ \A j \in (i + 1)..m : Count(i + 1, j, {".."}) <= Count(i + 1, j, Name)}

(* What is left after a name is what the ".."s have not outbalanced.       *)
Balance(m) ==
    \A i \in Alive(m) :
        Count(i + 1, m, Name) + Rank(Alive(m), i) = Count(i + 1, m, {".."}) + Cardinality(Alive(m))

(* A count by its last component.                                          *)
LEMMA Counting ==
    ASSUME NEW S, NEW i \in Nat, NEW m \in Nat
    PROVE  /\ Count(i, m, S) \in Nat
           /\ i > m => Count(i, m, S) = 0
           /\ i <= m + 1 => Count(i, m + 1, S) = Count(i, m, S) + (IF raw[m + 1] \in S THEN 1 ELSE 0)
<1> DEFINE C == {k \in i..m : raw[k] \in S}
<1>1. IsFiniteSet(i..m) /\ C \in SUBSET (i..m)
  BY FS_Interval
<1>2. IsFiniteSet(C) /\ Cardinality(C) \in Nat
  BY <1>1, FS_Subset, FS_CardinalityType
<1>3. ASSUME i > m PROVE Cardinality(C) = 0
  <2>1. C = {}
    BY <1>3
  <2> QED BY <2>1, FS_EmptySet
<1>4. ASSUME i <= m + 1 PROVE Count(i, m + 1, S) = Cardinality(C) + (IF raw[m + 1] \in S THEN 1 ELSE 0)
  <2>1. i..(m + 1) = (i..m) \cup {m + 1} /\ m + 1 \notin C
    BY <1>4
  <2>2. CASE raw[m + 1] \in S
    <3>1. {k \in i..(m + 1) : raw[k] \in S} = C \cup {m + 1}
      BY <2>1, <2>2
    <3>2. Cardinality(C \cup {m + 1}) = Cardinality(C) + 1
      BY <1>2, <2>1, FS_AddElement
    <3> QED BY <2>2, <3>1, <3>2 DEF Count
  <2>3. CASE raw[m + 1] \notin S
    <3>1. {k \in i..(m + 1) : raw[k] \in S} = C
      BY <2>1, <2>3
    <3> QED BY <1>2, <2>3, <3>1 DEF Count
  <2> QED BY <2>2, <2>3
<1> QED BY <1>2, <1>3, <1>4 DEF Count

(* What one more component does to the names left.                         *)
LEMMA AliveStep ==
    ASSUME NEW m \in Nat, Balance(m)
    PROVE  /\ raw[m + 1] \in {"", "."} => Alive(m + 1) = Alive(m)
           /\ raw[m + 1] \in Name => Alive(m + 1) = Alive(m) \cup {m + 1}
           /\ raw[m + 1] = ".." =>
                  Alive(m + 1) = {i \in Alive(m) : Rank(Alive(m), i) # Cardinality(Alive(m))}
<1> DEFINE A == Alive(m)
<1>1. A \in SUBSET (1..m)
  BY DEF Alive
<1>2. \A i \in A : /\ Rank(A, i) \in 1..Cardinality(A) /\ Cardinality(A) \in Nat
                    /\ Count(i + 1, m, {".."}) + (Cardinality(A) - Rank(A, i)) = Count(i + 1, m, Name)
                    /\ Count(i + 1, m, {".."}) \in Nat /\ Count(i + 1, m, Name) \in Nat
  <2> TAKE i \in A
  <2>1. Rank(A, i) \in 1..Cardinality(A) /\ Cardinality(A) \in Nat
    BY <1>1, Ranks
  <2>2. Count(i + 1, m, {".."}) \in Nat /\ Count(i + 1, m, Name) \in Nat
    BY <1>1, Counting
  <2>3. Count(i + 1, m, Name) + Rank(A, i) = Count(i + 1, m, {".."}) + Cardinality(A)
    BY DEF Balance
  <2> HIDE DEF A
  <2> QED BY <2>1, <2>2, <2>3
<1>3. \A i \in 1..m : i \in Alive(m + 1) <=>
          i \in A /\ Count(i + 1, m + 1, {".."}) <= Count(i + 1, m + 1, Name)
  <2> TAKE i \in 1..m
  <2>1. i \in 1..(m + 1) /\ m + 1 \in (i + 1)..(m + 1)
    OBVIOUS
  <2>2. \A j \in (i + 1)..(m + 1) : j \in (i + 1)..m \/ j = m + 1
    OBVIOUS
  <2>3. \A j \in (i + 1)..m : j \in (i + 1)..(m + 1)
    OBVIOUS
  <2> QED BY <2>1, <2>2, <2>3 DEF Alive
<1>4. m + 1 \in Alive(m + 1) <=> raw[m + 1] \in Name
  BY DEF Alive
<1>5. Alive(m + 1) \subseteq 1..m \cup {m + 1}
  BY DEF Alive
<1>6. \A i \in A :
          /\ Count(i + 1, m + 1, {".."}) = Count(i + 1, m, {".."}) + (IF raw[m + 1] = ".." THEN 1 ELSE 0)
          /\ Count(i + 1, m + 1, Name) = Count(i + 1, m, Name) + (IF raw[m + 1] \in Name THEN 1 ELSE 0)
  <2> TAKE i \in A
  <2>1. i + 1 \in Nat /\ i + 1 <= m + 1
    BY <1>1
  <2> QED BY <2>1, Counting
<1> HIDE DEF A
<1>7. CASE raw[m + 1] \in {"", "."}
  <2>1. raw[m + 1] \notin Name /\ raw[m + 1] # ".."
    BY <1>7, NameAssumption, Zenon
  <2>2. \A i \in A : Count(i + 1, m + 1, {".."}) <= Count(i + 1, m + 1, Name)
    BY <1>2, <1>6, <2>1
  <2> QED BY <1>1, <1>3, <1>4, <1>5, <2>1, <2>2, Zenon DEF A
<1>8. CASE raw[m + 1] \in Name
  <2>1. raw[m + 1] \notin {"", "."} /\ raw[m + 1] # ".."
    BY <1>8, NameAssumption, Zenon
  <2>2. \A i \in A : Count(i + 1, m + 1, {".."}) <= Count(i + 1, m + 1, Name)
    <3> TAKE i \in A
    <3>1. Count(i + 1, m, {".."}) <= Count(i + 1, m, Name)
      BY <1>2
    <3>2. /\ Count(i + 1, m + 1, {".."}) = Count(i + 1, m, {".."})
          /\ Count(i + 1, m + 1, Name) = Count(i + 1, m, Name) + 1
      <4>1. /\ Count(i + 1, m + 1, {".."}) = Count(i + 1, m, {".."}) + 0
            /\ Count(i + 1, m + 1, Name) = Count(i + 1, m, Name) + 1
        <5>1. (IF raw[m + 1] = ".." THEN 1 ELSE 0) = 0 /\ (IF raw[m + 1] \in Name THEN 1 ELSE 0) = 1
          BY <1>8, <2>1, Zenon
        <5> QED BY <1>6, <5>1
      <4> QED BY <1>2, <4>1
    <3>3. Count(i + 1, m, {".."}) \in Nat /\ Count(i + 1, m, Name) \in Nat
      BY <1>2
    <3> QED BY <3>1, <3>2, <3>3
  <2> QED BY <1>1, <1>3, <1>4, <1>5, <1>8, <2>1, <2>2, Zenon DEF A
<1>9. CASE raw[m + 1] = ".."
  <2>1. raw[m + 1] \notin {"", "."} /\ raw[m + 1] \notin Name
    BY <1>9, NameAssumption, Zenon
  <2>2. \A i \in A : Count(i + 1, m + 1, {".."}) <= Count(i + 1, m + 1, Name)
                      <=> Rank(A, i) # Cardinality(A)
    BY <1>2, <1>6, <1>9, <2>1
  <2> QED BY <1>1, <1>3, <1>4, <1>5, <1>9, <2>1, <2>2 DEF A
<1> QED BY <1>7, <1>8, <1>9, Zenon

(* The counts after a name, when one more component is read.               *)
LEMMA CountsOn ==
    ASSUME NEW m \in Nat, NEW i \in 1..m
    PROVE  /\ Count(i + 1, m, {".."}) \in Nat /\ Count(i + 1, m, Name) \in Nat
           /\ Count(i + 1, m + 1, {".."}) = Count(i + 1, m, {".."}) + (IF raw[m + 1] = ".." THEN 1 ELSE 0)
           /\ Count(i + 1, m + 1, Name) = Count(i + 1, m, Name) + (IF raw[m + 1] \in Name THEN 1 ELSE 0)
<1>1. i + 1 \in Nat /\ i + 1 <= m + 1
  OBVIOUS
<1> QED BY <1>1, Counting

(* What one component does to the path is what it does to the names left.  *)
LEMMA NormalStep ==
    ASSUME NEW m \in Nat, Balance(m), raw[m + 1] \in Component
    PROVE  /\ Balance(m + 1)
           /\ InOrder(raw, Alive(m + 1)) = Collapse(InOrder(raw, Alive(m)), raw[m + 1])
<1> DEFINE A == Alive(m)  B == Alive(m + 1)  c == raw[m + 1]
<1>1. A \in SUBSET (1..m) /\ m + 1 \in Nat
  BY DEF Alive
<1>2. \A i \in A : Count(i + 1, m, Name) + Rank(A, i) = Count(i + 1, m, {".."}) + Cardinality(A)
  BY DEF Balance
<1>3. IsFiniteSet(A) /\ Cardinality(A) \in Nat /\ \A i \in A : Rank(A, i) \in 1..Cardinality(A)
  BY <1>1, Ranks
<1>4. SUFFICES /\ \A i \in B : Count(i + 1, m + 1, Name) + Rank(B, i) = Count(i + 1, m + 1, {".."}) + Cardinality(B)
               /\ InOrder(raw, B) = Collapse(InOrder(raw, A), c)
  BY DEF Balance
<1>5. /\ c \in {"", "."} => B = A
      /\ c \in Name => B = A \cup {m + 1}
      /\ c = ".." => B = {i \in A : Rank(A, i) # Cardinality(A)}
  BY AliveStep, Zenon
<1>6. c \in Name => c \notin {"", ".", ".."}
  BY NameAssumption, Zenon
<1>7. \A i \in A : /\ Count(i + 1, m, {".."}) \in Nat /\ Count(i + 1, m, Name) \in Nat
                    /\ Count(i + 1, m + 1, {".."}) = Count(i + 1, m, {".."}) + (IF c = ".." THEN 1 ELSE 0)
                    /\ Count(i + 1, m + 1, Name) = Count(i + 1, m, Name) + (IF c \in Name THEN 1 ELSE 0)
  BY <1>1, CountsOn
<1>8. c \in Component
  OBVIOUS
<1> HIDE DEF A, B, c
<1>9. CASE c \in {"", "."}
  <2>1. c \notin Name /\ c # ".."
    BY <1>6, <1>9, Zenon
  <2>2. Collapse(InOrder(raw, A), c) = InOrder(raw, A)
    BY <1>9, Zenon DEF Collapse
  <2>3. ASSUME NEW i \in A
        PROVE  Count(i + 1, m + 1, Name) + Rank(A, i) = Count(i + 1, m + 1, {".."}) + Cardinality(A)
    <3>1. (IF c = ".." THEN 1 ELSE 0) = 0 /\ (IF c \in Name THEN 1 ELSE 0) = 0
      BY <2>1
    <3>2. /\ Count(i + 1, m + 1, {".."}) = Count(i + 1, m, {".."})
          /\ Count(i + 1, m + 1, Name) = Count(i + 1, m, Name)
      BY <1>7, <3>1
    <3> QED BY <1>2, <3>2
  <2> QED BY <1>5, <1>9, <2>2, <2>3, Zenon
<1>10. CASE c \in Name
  <2>1. /\ B = A \cup {m + 1} /\ Cardinality(B) = Cardinality(A) + 1 /\ Rank(B, m + 1) = Cardinality(A) + 1
        /\ \A i \in A : Rank(B, i) = Rank(A, i)
    <3>1. B = A \cup {m + 1}
      BY <1>5, <1>10, Zenon
    <3> QED BY <1>1, <3>1, AddLast
  <2>2. Count(m + 2, m + 1, Name) = 0 /\ Count(m + 2, m + 1, {".."}) = 0
    <3>1. m + 2 \in Nat /\ m + 2 > m + 1
      OBVIOUS
    <3> QED BY <1>1, <3>1, Counting
  <2>3. ASSUME NEW i \in A
        PROVE  Count(i + 1, m + 1, Name) + Rank(B, i) = Count(i + 1, m + 1, {".."}) + Cardinality(B)
    <3>1. /\ Count(i + 1, m + 1, {".."}) = Count(i + 1, m, {".."})
          /\ Count(i + 1, m + 1, Name) = Count(i + 1, m, Name) + 1
      <4>1. (IF c = ".." THEN 1 ELSE 0) = 0 /\ (IF c \in Name THEN 1 ELSE 0) = 1
        BY <1>6, <1>10, Zenon
      <4> QED BY <1>7, <4>1
    <3>2. Count(i + 1, m, {".."}) \in Nat /\ Count(i + 1, m, Name) \in Nat /\ Rank(A, i) \in Nat
      BY <1>3, <1>7
    <3>3. Rank(B, i) = Rank(A, i) /\ Cardinality(B) = Cardinality(A) + 1
      BY <2>1
    <3>4. Count(i + 1, m, Name) + Rank(A, i) = Count(i + 1, m, {".."}) + Cardinality(A)
      BY <1>2
    <3> QED BY <1>3, <3>1, <3>2, <3>3, <3>4
  <2>4. Count((m + 1) + 1, m + 1, Name) + Rank(B, m + 1) = Count((m + 1) + 1, m + 1, {".."}) + Cardinality(B)
    <3>1. (m + 1) + 1 = m + 2
      OBVIOUS
    <3> QED BY <2>1, <2>2, <3>1
  <2>5. Collapse(InOrder(raw, A), c) = Append(InOrder(raw, A), c)
    BY <1>6, <1>10, Zenon DEF Collapse
  <2>6. InOrder(raw, B) = Append(InOrder(raw, A), c)
    BY <1>1, <2>1, OrderedAppend DEF c
  <2> QED BY <2>1, <2>3, <2>4, <2>5, <2>6
<1>11. CASE c = ".." /\ A = {}
  <2>1. B = {} /\ InOrder(raw, A) = Root
    BY <1>5, <1>11, OrderedNothing DEF Root
  <2> QED BY <1>11, <2>1 DEF Collapse
<1>12. CASE c = ".." /\ A # {}
  <2>1. Cardinality(A) \in 1..Cardinality(A)
    BY <1>3, <1>12, FS_EmptySet
  <2>2. PICK x \in A : Rank(A, x) = Cardinality(A)
    BY <1>1, <2>1, EveryRank
  <2>3. x \in Nat \ {0} /\ \A i \in A : i \in Nat /\ (i # x => i < x)
    <3>1. \A i \in A : ~(x < i)
      <4>1. \A i \in A : x < i => Rank(A, x) < Rank(A, i)
        BY <1>1, Ranks
      <4> QED BY <1>3, <2>2, <4>1
    <3> QED BY <1>1, <3>1
  <2>4. B = A \ {x}
    <3>1. \A i \in A : i # x => Rank(A, i) < Rank(A, x)
      BY <1>1, <2>3, Ranks
    <3>2. \A i \in A : i # x => Rank(A, i) # Cardinality(A)
      BY <1>3, <2>2, <3>1
    <3> QED BY <1>5, <1>12, <2>2, <3>2
  <2>5. B \in SUBSET (1..(x - 1)) /\ x - 1 \in Nat /\ (x - 1) + 1 = x /\ A = B \cup {x}
    <3>1. \A i \in B : i \in 1..(x - 1)
      BY <1>1, <2>3, <2>4
    <3> QED BY <2>2, <2>3, <2>4, <3>1
  <2>6. /\ Cardinality(A) = Cardinality(B) + 1
        /\ \A i \in B : Rank(A, i) = Rank(B, i)
    <3>1. PICK y : y = x - 1
      OBVIOUS
    <3>2. y \in Nat /\ B \in SUBSET (1..y) /\ A = B \cup {y + 1}
      BY <2>5, <3>1
    <3> HIDE DEF A, B
    <3>3. /\ Cardinality(B \cup {y + 1}) = Cardinality(B) + 1
          /\ \A i \in B : Rank(B \cup {y + 1}, i) = Rank(B, i)
      BY <3>2, AddLast
    <3> QED BY <3>2, <3>3
  <2>7. Cardinality(B) \in Nat
    BY <2>5, Ranks
  <2>8. ASSUME NEW i \in B
        PROVE  Count(i + 1, m + 1, Name) + Rank(B, i) = Count(i + 1, m + 1, {".."}) + Cardinality(B)
    <3>1. i \in A /\ c \notin Name
      BY <1>6, <1>12, <2>4
    <3>2. /\ Count(i + 1, m + 1, {".."}) = Count(i + 1, m, {".."}) + 1
          /\ Count(i + 1, m + 1, Name) = Count(i + 1, m, Name)
      BY <1>7, <1>12, <3>1
    <3>3. Count(i + 1, m, {".."}) \in Nat /\ Count(i + 1, m, Name) \in Nat /\ Rank(A, i) \in Nat
      BY <1>3, <1>7, <3>1
    <3>4. Count(i + 1, m, Name) + Rank(A, i) = Count(i + 1, m, {".."}) + Cardinality(A)
      BY <1>2, <3>1
    <3> QED BY <2>6, <2>7, <3>2, <3>3, <3>4
  <2>9. PICK old : old = InOrder(raw, B)
    OBVIOUS
  <2>10. InOrder(raw, A) = Append(old, raw[x])
    BY <2>5, <2>9, OrderedAppend
  <2>11. old \in Seq({raw[i] : i \in B})
    <3>1. old \in [1..Cardinality(B) -> {raw[i] : i \in B}]
      <4>1. PICK q \in Nat : q = x - 1
        BY <2>5
      <4>2. B \in SUBSET (1..q)
        BY <2>5, <4>1
      <4>3. InOrder(raw, B) \in [1..Cardinality(B) -> {raw[i] : i \in B}]
        BY <4>2, Ordered, Zenon
      <4> QED BY <2>9, <4>3, Zenon
    <3> QED BY <2>7, <3>1
  <2>12. PICK X : old \in Seq(X) /\ raw[x] \in X
    <3>1. old \in Seq({raw[i] : i \in B} \cup {raw[x]})
      BY <2>11
    <3> QED BY <3>1
  <2>13. Append(old, raw[x]) # Root /\ Seqs!Front(Append(old, raw[x])) = old
    BY <2>12 DEF Seqs!Front, Root
  <2> QED BY <1>12, <2>8, <2>9, <2>10, <2>13 DEF Collapse
<1> QED BY <1>8, <1>9, <1>10, <1>11, <1>12, Zenon DEF Component

(* So what is left after all of them is the path.                          *)
LEMMA NormalizeRight == InputTyped => NormalizeIsReference
<1> SUFFICES ASSUME InputTyped PROVE NormalizeIsReference
  OBVIOUS
<1>1. /\ raw \in Seq(Component) /\ Len(raw) \in Nat
      /\ \A i \in 1..Len(raw) : raw[i] \in Component
  BY RawTyped
<1>2. PICK h : /\ h[0] = Root /\ Normalize(raw) = h[Len(raw)]
               /\ \A i \in 1..Len(raw) : h[i] = Collapse(h[i - 1], raw[i])
  BY <1>1, NormalizeSteps
<1> DEFINE T == {m \in Nat : m <= Len(raw) => h[m] = InOrder(raw, Alive(m)) /\ Balance(m)}
<1>3. 0 \in T
  <2>1. Alive(0) = {}
    BY DEF Alive
  <2> QED BY <1>2, <2>1, OrderedNothing DEF Balance, Root
<1>4. ASSUME NEW m \in Nat, m \in T PROVE m + 1 \in T
  <2> SUFFICES ASSUME m + 1 <= Len(raw) PROVE h[m + 1] = InOrder(raw, Alive(m + 1)) /\ Balance(m + 1)
    OBVIOUS
  <2>1. m <= Len(raw) /\ m + 1 \in 1..Len(raw) /\ (m + 1) - 1 = m
    BY <1>1
  <2>2. h[m] = InOrder(raw, Alive(m)) /\ Balance(m)
    BY <1>4, <2>1
  <2>3. h[m + 1] = Collapse(h[m], raw[m + 1]) /\ raw[m + 1] \in Component
    BY <1>1, <1>2, <2>1
  <2> QED BY <2>2, <2>3, NormalStep
<1> HIDE DEF T
<1>5. Nat \subseteq T
  BY <1>3, <1>4, Inductive
<1>6. h[Len(raw)] = InOrder(raw, Alive(Len(raw)))
  BY <1>1, <1>5 DEF T
<1>7. Alive(Len(raw)) = Kept
  BY DEF Alive, Kept, Survives
<1> QED BY <1>2, <1>6, <1>7 DEF NormalizeIsReference

-----------------------------------------------------------------------------
(* Listings. *)

LEMMA VisibleSteps ==
    ASSUME NEW es \in Seq(EntryNames)
    PROVE  \E h \in [0..Len(es) -> Seq(EntryNames)] :
               /\ h[0] = <<>> /\ Visible(es) = h[Len(es)]
               /\ \A i \in 1..Len(es) : h[i] = IF IsHidden(es[i]) THEN h[i - 1] ELSE Append(h[i - 1], es[i])
<1> DEFINE n == Len(es)  D == Seq(EntryNames)
           op(seen, name) == IF IsHidden(name) THEN seen ELSE Append(seen, name)
<1>1. n \in Nat /\ DOMAIN es = 1..n /\ (\A i \in 1..n : es[i] \in EntryNames) /\ <<>> \in D
  OBVIOUS
<1>2. PICK step : step = [x \in D \X (1..n) |-> op(x[1], es[x[2]])]
  OBVIOUS
<1>3. step \in [D \X (1..n) -> D] /\ \A d \in D, i \in 1..n : step[d, i] = op(d, es[i])
  <2>1. \A d \in D, i \in 1..n : op(d, es[i]) \in D
    BY <1>1
  <2> HIDE DEF op, D, n
  <2> QED BY <1>2, <2>1, Zenon
<1>4. PICK f \in [SUBSET (1..n) -> D] : Folding(f, n, <<>>, step)
  BY <1>1, <1>3, FoldingExists, Zenon
<1> DEFINE Solves(g) == g = [s \in SUBSET (1..n) |-> IF s = {} THEN <<>>
                                      ELSE op(g[s \ {EntrySeqs!Max(s)}], es[EntrySeqs!Max(s)])]
<1>5. Visible(es) = (CHOOSE g : Solves(g))[1..n]
  BY <1>1 DEF Visible, EntrySeqs!FoldLeft, EntrySeqs!MapThenFoldSet
<1> HIDE DEF n, D, op
<1>6. \A s \in SUBSET (1..n) : s # {} =>
          EntrySeqs!Max(s) \in 1..n /\ s \ {EntrySeqs!Max(s)} \in SUBSET (1..n) /\ EntrySeqs!Max(s) = Seqs!Max(s)
  BY <1>1, GreatestBelow, SameMax
<1>7. Solves(f)
  BY <1>3, <1>4, <1>6, Zenon DEF Folding
<1>8. PICK g : Solves(g) /\ Visible(es) = g[1..n]
  <2>1. Solves(CHOOSE g : Solves(g))
    BY <1>7
  <2> HIDE DEF Solves
  <2> QED BY <1>5, <2>1
<1>9. PICK h \in [0..n -> D] : h[0] = <<>> /\ h[n] = g[1..n] /\ \A i \in 1..n : h[i] = step[h[i - 1], i]
  <2>1. g[{}] = <<>>
    BY <1>8
  <2>2. ASSUME NEW s \in SUBSET (1..n), s # {}, g[s \ {Seqs!Max(s)}] \in D
        PROVE  g[s] = step[g[s \ {Seqs!Max(s)}], Seqs!Max(s)]
    <3>1. g[s] = op(g[s \ {Seqs!Max(s)}], es[Seqs!Max(s)])
      BY <1>6, <1>8, <2>2
    <3> QED BY <1>3, <1>6, <2>2, <3>1, Zenon
  <2>3. Unrolls(g, n, step, D)
    BY <2>2, Zenon DEF Unrolls
  <2>4. n \in Nat /\ <<>> \in D /\ step \in [D \X (1..n) -> D]
    BY <1>1, <1>3, Zenon
  <2> HIDE DEF Solves
  <2>5. Unrolled(g, n, step, D, <<>>)
    BY <2>1, <2>3, <2>4, Unrolling
  <2> QED BY <2>5, Zenon DEF Unrolled
<1>10. \A i \in 1..n : h[i] = op(h[i - 1], es[i])
  <2>1. \A i \in 1..n : i - 1 \in 0..n
    BY <1>1
  <2> QED BY <1>3, <1>9, <2>1, Zenon
<1> QED BY <1>8, <1>9, <1>10, Zenon DEF n, D, op

(* What it lets through are the visible entries, in order.                 *)
LEMMA VisibleInOrder ==
    ASSUME NEW es \in Seq(EntryNames)
    PROVE  Visible(es) = InOrder(es, From(es, 0))
<1>1. Len(es) \in Nat /\ DOMAIN es = 1..Len(es)
  OBVIOUS
<1>2. PICK h : /\ h[0] = <<>> /\ Visible(es) = h[Len(es)]
               /\ \A i \in 1..Len(es) : h[i] = IF IsHidden(es[i]) THEN h[i - 1] ELSE Append(h[i - 1], es[i])
  BY VisibleSteps
<1> DEFINE Seen(m) == {i \in 1..m : ~IsHidden(es[i])}
           T == {m \in Nat : m <= Len(es) => h[m] = InOrder(es, Seen(m))}
<1>3. 0 \in T
  <2>1. Seen(0) = {}
    OBVIOUS
  <2> QED BY <1>2, <2>1, OrderedNothing
<1>4. ASSUME NEW m \in Nat, m \in T PROVE m + 1 \in T
  <2> SUFFICES ASSUME m + 1 <= Len(es) PROVE h[m + 1] = InOrder(es, Seen(m + 1))
    OBVIOUS
  <2>1. m <= Len(es) /\ m + 1 \in 1..Len(es) /\ (m + 1) - 1 = m
    BY <1>1
  <2>2. h[m] = InOrder(es, Seen(m))
    BY <1>4, <2>1
  <2>3. h[m + 1] = IF IsHidden(es[m + 1]) THEN h[m] ELSE Append(h[m], es[m + 1])
    BY <1>2, <2>1
  <2>4. \A i \in 1..(m + 1) : i \in 1..m \/ i = m + 1
    OBVIOUS
  <2>5. \A i \in 1..m : i \in 1..(m + 1)
    OBVIOUS
  <2>6. m + 1 \in 1..(m + 1)
    OBVIOUS
  <2>7. CASE IsHidden(es[m + 1])
    <3>1. Seen(m + 1) = Seen(m)
      BY <2>4, <2>5, <2>7
    <3> QED BY <2>2, <2>3, <2>7, <3>1
  <2>8. CASE ~IsHidden(es[m + 1])
    <3>1. Seen(m + 1) = Seen(m) \cup {m + 1}
      BY <2>4, <2>5, <2>6, <2>8
    <3>2. Seen(m) \in SUBSET (1..m)
      OBVIOUS
    <3> HIDE DEF Seen
    <3>3. InOrder(es, Seen(m) \cup {m + 1}) = Append(InOrder(es, Seen(m)), es[m + 1])
      BY <3>2, OrderedAppend
    <3> QED BY <2>2, <2>3, <2>8, <3>1, <3>3
  <2> QED BY <2>7, <2>8
<1> HIDE DEF T
<1>5. Nat \subseteq T
  BY <1>3, <1>4, Inductive
<1>6. h[Len(es)] = InOrder(es, Seen(Len(es)))
  BY <1>1, <1>5 DEF T
<1>7. Seen(Len(es)) = From(es, 0)
  BY <1>1 DEF From
<1> QED BY <1>2, <1>6, <1>7

(* The elements are elements of the sequence.                              *)
LEMMA OrderedTyping ==
    ASSUME NEW n \in Nat, NEW S \in SUBSET (1..n), NEW seq, NEW X, \A i \in 1..n : seq[i] \in X
    PROVE  InOrder(seq, S) \in Seq(X)
<1>1. InOrder(seq, S) \in [1..Cardinality(S) -> {seq[i] : i \in S}]
  BY Ordered
<1>2. InOrder(seq, S) \in [1..Cardinality(S) -> X]
  BY <1>1
<1>3. Cardinality(S) \in Nat
  BY Ranks
<1> QED BY <1>2, <1>3

(* The elements up to a position, then those after it.                     *)
Splits(seq, U, x) == InOrder(seq, U) = InOrder(seq, U \cap (1..x)) \o InOrder(seq, U \ (1..x))

LEMMA OrderedSplit ==
    ASSUME NEW n \in Nat, NEW S \in SUBSET (1..n), NEW seq, NEW X, \A i \in 1..n : seq[i] \in X, NEW x \in Nat
    PROVE  Splits(seq, S, x)
<1> DEFINE T == {m \in Nat : m <= n => \A U \in SUBSET (1..m) : Splits(seq, U, x)}
<1>1. 0 \in T
  <2>1. \A U \in SUBSET (1..0) : U = {} /\ U \cap (1..x) = {} /\ U \ (1..x) = {}
    <3>1. 1..0 = {}
      OBVIOUS
    <3> QED BY <3>1
  <2>2. Splits(seq, {}, x)
    <3>1. {} \cap (1..x) = {} /\ {} \ (1..x) = {} /\ <<>> \o <<>> = <<>>
      OBVIOUS
    <3> QED BY <3>1, OrderedNothing DEF Splits
  <2> QED BY <2>1, <2>2
<1>2. ASSUME NEW m \in Nat, m \in T PROVE m + 1 \in T
  <2> SUFFICES ASSUME m + 1 <= n, NEW U \in SUBSET (1..(m + 1)) PROVE Splits(seq, U, x)
    <3>1. m + 1 \in Nat
      OBVIOUS
    <3> QED BY <3>1
  <2> DEFINE V == U \ {m + 1}
  <2>1. V \in SUBSET (1..m) /\ m <= n
    OBVIOUS
  <2>2. Splits(seq, V, x)
    BY <1>2, <2>1
  <2>3. CASE m + 1 \notin U
    <3>1. V = U
      BY <2>3
    <3> QED BY <2>2, <3>1
  <2>4. CASE m + 1 \in U /\ m + 1 <= x
    <3>1. U \cap (1..x) = U /\ U \ (1..x) = {}
      <4>1. \A i \in U : i \in 1..x
        BY <2>4
      <4> QED BY <4>1
    <3>2. InOrder(seq, U) \in Seq(X)
      <4>1. \A i \in 1..(m + 1) : i \in 1..n
        OBVIOUS
      <4>2. U \in SUBSET (1..n)
        BY <4>1
      <4> QED BY <4>2, OrderedTyping
    <3>3. \A p \in Seq(X) : p \o <<>> = p
      OBVIOUS
    <3> QED BY <3>1, <3>2, <3>3, OrderedNothing DEF Splits
  <2>5. CASE m + 1 \in U /\ ~(m + 1 <= x)
    <3>1. /\ U = V \cup {m + 1} /\ U \cap (1..x) = V \cap (1..x)
          /\ U \ (1..x) = (V \ (1..x)) \cup {m + 1}
          /\ V \ (1..x) \in SUBSET (1..m) /\ V \cap (1..x) \in SUBSET (1..m)
      BY <2>1, <2>5
    <3> HIDE DEF V
    <3>2. InOrder(seq, U) = Append(InOrder(seq, V), seq[m + 1])
      BY <2>1, <3>1, OrderedAppend
    <3>3. InOrder(seq, U \ (1..x)) = Append(InOrder(seq, V \ (1..x)), seq[m + 1])
      BY <3>1, OrderedAppend
    <3>4. InOrder(seq, V \cap (1..x)) \in Seq(X) /\ InOrder(seq, V \ (1..x)) \in Seq(X) /\ seq[m + 1] \in X
      <4>1. \A i \in 1..m : seq[i] \in X
        BY <2>1
      <4>2. seq[m + 1] \in X
        OBVIOUS
      <4> QED BY <3>1, <4>1, <4>2, OrderedTyping
    <3>5. \A p \in Seq(X), q \in Seq(X), e \in X : Append(p \o q, e) = p \o Append(q, e)
      OBVIOUS
    <3>6. InOrder(seq, V) = InOrder(seq, V \cap (1..x)) \o InOrder(seq, V \ (1..x))
      BY <2>2 DEF Splits
    <3>7. PICK p \in Seq(X) : p = InOrder(seq, V \cap (1..x))
      BY <3>4
    <3>8. PICK q \in Seq(X) : q = InOrder(seq, V \ (1..x))
      BY <3>4
    <3>9. InOrder(seq, U) = Append(p \o q, seq[m + 1])
      BY <3>2, <3>6, <3>7, <3>8
    <3>10. InOrder(seq, U \cap (1..x)) \o InOrder(seq, U \ (1..x)) = p \o Append(q, seq[m + 1])
      BY <3>1, <3>3, <3>7, <3>8
    <3> QED BY <3>4, <3>5, <3>9, <3>10 DEF Splits
  <2> QED BY <2>3, <2>4, <2>5
<1> HIDE DEF T
<1>3. Nat \subseteq T
  BY <1>1, <1>2, Inductive
<1>4. n \in T
  BY <1>3
<1> QED BY <1>4 DEF T

-----------------------------------------------------------------------------
(* The pages. *)

Due(es, c) == InOrder(es, From(es, c))

PageRooms(es) == [0..Len(es) -> 1..(Len(es) + 1)]

(* A page shows what is due up to where the next one goes on.              *)
LEMMA OnePage ==
    ASSUME NEW es \in Seq(EntryNames), NEW c \in 0..Len(es), NEW room \in Nat \ {0}
    PROVE  LET page == Page(es, c, room)
           IN  /\ page.names \in Seq(EntryNames)
               /\ page.full \in BOOLEAN
               /\ ~page.full => page.names = Due(es, c)
               /\ page.full => /\ page.next \in (c + 1)..Len(es)
                               /\ Due(es, c) = page.names \o Due(es, page.next)
<1> DEFINE n == Len(es)  D == From(es, c)  P == {i \in D : Rank(D, i) <= room}
           last == IF P = {} THEN c ELSE CHOOSE i \in P : \A j \in P : j <= i
<1>1. /\ n \in Nat /\ DOMAIN es = 1..n /\ \A i \in 1..n : es[i] \in EntryNames
  OBVIOUS
<1>2. D \in SUBSET (1..n) /\ P \in SUBSET D
  BY <1>1 DEF From
<1>3. Page(es, c, room) = [names |-> InOrder(es, P), full |-> P # D, next |-> last]
  BY DEF Page, Rank
<1>4. InOrder(es, P) \in Seq(EntryNames) /\ InOrder(es, D) \in Seq(EntryNames)
  BY <1>1, <1>2, OrderedTyping
<1>5. ASSUME P # D
      PROVE  last \in (c + 1)..n /\ P = D \cap (1..last) /\ From(es, last) = D \ (1..last)
  <2>1. PICK e \in D : ~(Rank(D, e) <= room)
    BY <1>5
  <2>2. \A i \in D : Rank(D, i) \in 1..Cardinality(D)
    BY <1>2, Ranks
  <2>3. Cardinality(D) \in Nat
    BY <1>2, Ranks
  <2>4. 1 \in 1..Cardinality(D)
    BY <2>1, <2>2, <2>3
  <2>5. PICK f \in D : Rank(D, f) = 1
    <3> HIDE DEF D
    <3> QED BY <1>1, <1>2, <2>4, EveryRank
  <2>6. f \in P
    BY <2>5
  <2> HIDE DEF P, D
  <2>7. P \in SUBSET (1..n) /\ P # {}
    BY <1>2, <2>6
  <2>8. last \in P /\ \A j \in P : j <= last
    <3>1. Seqs!Max(P) \in P /\ \A j \in P : j <= Seqs!Max(P)
      BY <1>1, <2>7, GreatestBelow
    <3> QED BY <2>7, <3>1
  <2> HIDE DEF last
  <2>9. \A i \in D : i <= last <=> i \in P
    <3> SUFFICES ASSUME NEW i \in D, i <= last PROVE i \in P
      BY <2>8
    <3>1. last \in D /\ Rank(D, last) <= room /\ i \in Nat /\ last \in Nat
      BY <1>2, <2>8 DEF P
    <3>2. i # last => Rank(D, i) < Rank(D, last)
      <4>1. D \in SUBSET (1..n) /\ i \in D /\ last \in D /\ n \in Nat
        BY <1>1, <1>2, <3>1
      <4>2. i # last => i < last
        BY <3>1
      <4> HIDE DEF D
      <4> QED BY <4>1, <4>2, RankGrows
    <3>3. Rank(D, i) <= room
      BY <2>2, <2>3, <3>1, <3>2
    <3> QED BY <3>3 DEF P
  <2>10. last \in 1..n /\ last > c
    BY <1>1, <1>2, <2>8 DEF D, From
  <2>11. P = D \cap (1..last)
    <3>1. \A i \in D : i \in 1..last <=> i \in P
      <4>1. \A i \in D : i \in 1..n
        BY <1>2
      <4> QED BY <1>1, <2>9, <2>10, <4>1
    <3> QED BY <1>2, <3>1
  <2>12. From(es, last) = D \ (1..last)
    <3>1. \A i \in 1..n : i > last <=> i > c /\ i \notin 1..last
      BY <2>10
    <3> QED BY <1>1, <3>1 DEF From, D
  <2>13. last \in (c + 1)..n
    BY <2>10
  <2> QED BY <2>11, <2>12, <2>13
<1> HIDE DEF n, D, P, last
<1>6. ASSUME P # D PROVE InOrder(es, D) = InOrder(es, P) \o Due(es, last)
  <2>1. last \in Nat /\ P = D \cap (1..last) /\ From(es, last) = D \ (1..last)
    BY <1>1, <1>5, <1>6
  <2>2. Splits(es, D, last)
    BY <1>1, <1>2, <2>1, OrderedSplit
  <2> QED BY <2>1, <2>2 DEF Splits, Due
<1>7. Due(es, c) = InOrder(es, D)
  BY DEF Due, D
<1>8. PICK page : page = Page(es, c, room)
  OBVIOUS
<1>9. page.names = InOrder(es, P) /\ page.full = (P # D) /\ page.next = last
  BY <1>3, <1>8
<1>10. CASE P = D
  BY <1>4, <1>7, <1>8, <1>9, <1>10
<1>11. CASE P # D
  <2>1. last \in (c + 1)..n /\ Due(es, c) = page.names \o Due(es, last)
    BY <1>5, <1>6, <1>7, <1>9, <1>11
  <2> QED BY <1>4, <1>8, <1>9, <1>11, <2>1 DEF n
<1> QED BY <1>10, <1>11

(* Page by page from c on.                                                 *)
Rest(es, room, rest, c) ==
    LET page == Page(es, c, room[c])
    IN  page.names \o (IF page.full THEN rest[page.next] ELSE <<>>)

(* Whatever shows from the next page on what is due there shows from here  *)
(* on what is due here.                                                    *)
LEMMA RestIsDue ==
    ASSUME NEW es \in Seq(EntryNames), NEW room \in PageRooms(es), NEW c \in 0..Len(es), NEW rest,
           \A d \in (c + 1)..Len(es) : rest[d] = Due(es, d)
    PROVE  Rest(es, room, rest, c) = Due(es, c)
<1>1. PICK page : page = Page(es, c, room[c])
  OBVIOUS
<1>2. room[c] \in Nat \ {0}
  <2>1. Len(es) \in Nat
    OBVIOUS
  <2> QED BY <2>1 DEF PageRooms
<1>3. /\ page.names \in Seq(EntryNames)
      /\ page.full \in BOOLEAN
      /\ ~page.full => page.names = Due(es, c)
      /\ page.full => /\ page.next \in (c + 1)..Len(es)
                      /\ Due(es, c) = page.names \o Due(es, page.next)
  BY <1>1, <1>2, OnePage
<1>4. CASE page.full
  BY <1>1, <1>3, <1>4 DEF Rest
<1>5. CASE ~page.full
  <2>1. page.names \o <<>> = page.names
    BY <1>3
  <2> QED BY <1>1, <1>3, <1>5, <2>1 DEF Rest
<1> QED BY <1>3, <1>4, <1>5

LEMMA PagesRight == InputTyped => PagesShowEachEntryOnce
<1> SUFFICES ASSUME InputTyped, input.kind = "listing" PROVE PagesShowEachEntryOnce
  BY DEF PagesShowEachEntryOnce
<1> DEFINE es == input.entries  n == Len(es)
<1>1. es \in Seq(EntryNames) /\ n \in Nat
  BY DEF InputTyped
<1>2. SUFFICES ASSUME NEW room \in [0..n -> 1..(n + 1)]
               PROVE  LET rest[c \in 0..n] ==
                              LET page == Page(es, c, room[c])
                              IN  page.names \o (IF page.full THEN rest[page.next] ELSE <<>>)
                      IN  rest[0] = Visible(es)
  BY DEF PagesShowEachEntryOnce
<1> DEFINE Solves(g) == g = [c \in 0..n |-> Rest(es, room, g, c)]
<1>3. SUFFICES (CHOOSE g : Solves(g))[0] = Visible(es)
  BY DEF Rest
<1> HIDE DEF es, n
<1>4. room \in PageRooms(es) /\ n = Len(es)
  BY DEF PageRooms, n
<1>5. \A c \in 0..n : \A d \in (c + 1)..n : d \in 0..n
  BY <1>1
<1>6. Solves([c \in 0..n |-> Due(es, c)])
  <2>1. ASSUME NEW c \in 0..n PROVE Rest(es, room, [d \in 0..n |-> Due(es, d)], c) = Due(es, c)
    <3>1. \A d \in (c + 1)..n : [k \in 0..n |-> Due(es, k)][d] = Due(es, d)
      BY <1>5
    <3> QED BY <1>1, <1>4, <3>1, RestIsDue
  <2> QED BY <2>1
<1>7. PICK rest : Solves(rest) /\ rest = (CHOOSE g : Solves(g))
  <2> HIDE DEF Solves
  <2> QED BY <1>6
<1> DEFINE T == {k \in Nat : k <= n => \A c \in (n - k)..n : rest[c] = Due(es, c)}
<1>8. ASSUME NEW c \in 0..n, \A d \in (c + 1)..n : rest[d] = Due(es, d) PROVE rest[c] = Due(es, c)
  <2>1. rest[c] = Rest(es, room, rest, c)
    BY <1>7
  <2> QED BY <1>1, <1>4, <1>8, <2>1, RestIsDue
<1> HIDE DEF Solves
<1>9. 0 \in T
  <2>1. \A c \in (n - 0)..n : c \in 0..n /\ \A d \in (c + 1)..n : rest[d] = Due(es, d)
    BY <1>1
  <2> QED BY <1>8, <2>1
<1>10. ASSUME NEW k \in Nat, k \in T PROVE k + 1 \in T
  <2> SUFFICES ASSUME k + 1 <= n, NEW c \in (n - (k + 1))..n PROVE rest[c] = Due(es, c)
    OBVIOUS
  <2>1. c \in 0..n /\ \A d \in (c + 1)..n : d \in (n - k)..n
    BY <1>1
  <2>2. k <= n
    BY <1>1
  <2>3. \A d \in (c + 1)..n : rest[d] = Due(es, d)
    BY <1>10, <2>1, <2>2
  <2> QED BY <1>8, <2>1, <2>3
<1> HIDE DEF T
<1>11. n \in T
  BY <1>1, <1>9, <1>10, Inductive
<1>12. 0 \in (n - n)..n
  BY <1>1
<1>13. rest[0] = Due(es, 0)
  BY <1>1, <1>11, <1>12 DEF T
<1> QED BY <1>1, <1>7, <1>13, VisibleInOrder DEF Due

-----------------------------------------------------------------------------

(* The module the check looks at is the first that is the extension's.     *)
FirstOurs(ms, i) == i \in DOMAIN ms /\ ms[i].ours /\ \A j \in 1..(i - 1) : ~ms[j].ours

LEMMA FirstMatch ==
    ASSUME NEW ms \in Seq(Modules)
    PROVE  LET i == Lists!SelectInSeq(ms, LAMBDA m : m.ours)
           IN  IF \E j \in DOMAIN ms : ms[j].ours THEN FirstOurs(ms, i) ELSE i = 0
<1> DEFINE S == {i \in 1..Len(ms) : ms[i].ours}
<1>1. Lists!SelectInSeq(ms, LAMBDA m : m.ours) = IF S # {} THEN Lists!Min(S) ELSE 0
  BY DEF Lists!SelectInSeq
<1>2. CASE S # {}
  <2>1. PICK i \in S : \A j \in S : i <= j
    <3>1. S \in SUBSET Nat
      OBVIOUS
    <3> HIDE DEF S
    <3> QED BY <1>2, <3>1, LeastNat
  <2>2. Lists!Min(S) \in S /\ \A j \in S : Lists!Min(S) <= j
    BY <2>1 DEF Lists!Min
  <2>3. \A j \in 1..(Lists!Min(S) - 1) : j \notin S /\ j \in 1..Len(ms)
    BY <2>2
  <2> QED BY <1>1, <1>2, <2>2, <2>3 DEF FirstOurs
<1>3. CASE S = {}
  BY <1>1, <1>3
<1> QED BY <1>2, <1>3

Real(sha) == sha \in {"s1", "s2-dirty"}

Differs(sha, host) == {sha, host} \cap {NoSha, "", "unknown"} = {} /\ sha # host

(* What the comparison of two commits tells.                               *)
LEMMA Compared ==
    ASSUME NEW sha \in Shas, NEW host \in Shas
    PROVE  /\ (Freshness(sha, host).kind = "mismatch") <=> Differs(sha, host)
           /\ (Freshness(sha, host) # Unknown) <=> (Real(sha) /\ Real(host))
<1>1. (IsRealSha(sha) <=> Real(sha)) /\ (IsRealSha(host) <=> Real(host))
  BY Zenon DEF IsRealSha, NoSha, Shas, Real
<1>2. Differs(sha, host) <=> Real(sha) /\ Real(host) /\ sha # host
  BY Zenon DEF NoSha, Shas, Real, Differs
<1>3. CASE ~Real(sha) \/ ~Real(host)
  BY <1>1, <1>2, <1>3 DEF Freshness, Unknown
<1>4. CASE Real(sha) /\ Real(host) /\ sha = host
  <2>1. Freshness(sha, host).kind = "match"
    BY <1>1, <1>4 DEF Freshness
  <2> QED BY <1>2, <1>4, <2>1 DEF Unknown
<1>5. CASE Real(sha) /\ Real(host) /\ sha # host
  <2>1. Freshness(sha, host).kind = "mismatch"
    BY <1>1, <1>5 DEF Freshness
  <2> QED BY <1>2, <1>5, <2>1 DEF Unknown
<1> QED BY <1>3, <1>4, <1>5

(* When the plain cloud is shown of a report.                              *)
LEMMA Shown ==
    ASSUME NEW report
    PROVE  (BarSymbol(report) = "cloud.fill") <=> (report.health = "ready" /\ report.freshness.kind # "mismatch")
BY DEF BarSymbol

LEMMA CloudRight == InputTyped => CloudMeansRightBuild
<1> SUFFICES ASSUME InputTyped, input.kind = "health" PROVE CloudMeansRightBuild
  BY DEF CloudMeansRightBuild
<1> DEFINE ms == input.modules
           i == Lists!SelectInSeq(ms, LAMBDA m : m.ours)
           report == BuildReport(input.answered, ms, input.host)
<1>1. /\ ms \in Seq(Modules) /\ input.answered \in BOOLEAN
      /\ input.running \in Shas /\ input.host \in Shas
  BY DEF InputTyped
<1>2. IF \E j \in DOMAIN ms : ms[j].ours THEN FirstOurs(ms, i) ELSE i = 0
  BY <1>1, FirstMatch
<1>3. \A j \in DOMAIN ms : ms[j].ours \in BOOLEAN /\ ms[j].enabled \in BOOLEAN /\ ms[j].sha \in Shas
  <2> TAKE j \in DOMAIN ms
  <2>1. ms[j] \in Modules
    BY <1>1
  <2> QED BY <2>1 DEF Modules
<1>4. \A j \in DOMAIN ms : FirstOurs(ms, j) => j = i
  BY <1>1, <1>2 DEF FirstOurs
<1>5. Check(input.answered, ms, input.running, input.host) =
         IF report.health = "ready" /\ Freshness(input.running, input.host) # Unknown
         THEN [report EXCEPT !.freshness = Freshness(input.running, input.host)] ELSE report
  BY DEF Check
<1>6. report = IF ~input.answered THEN Report("error", Unknown)
               ELSE IF i = 0 THEN Report("not_installed", Unknown)
               ELSE Report(IF ms[i].enabled THEN "ready" ELSE "disabled", Freshness(ms[i].sha, input.host))
  BY DEF BuildReport
<1> HIDE DEF i, report
<1> DEFINE served(k) == IF Real(input.running) THEN input.running ELSE ms[k].sha
<1>8. BarSymbol(Check(input.answered, ms, input.running, input.host)) = "cloud.fill" <=>
          /\ input.answered /\ i # 0 /\ ms[i].enabled /\ ~Differs(served(i), input.host)
  <2>1. CASE input.answered /\ i # 0 /\ ms[i].enabled
    <3>1. report = [health |-> "ready", freshness |-> Freshness(ms[i].sha, input.host)]
      BY <1>6, <2>1 DEF Report
    <3>2. ms[i].sha \in Shas
      BY <1>2, <1>3, <2>1 DEF FirstOurs
    <3>3. CASE Freshness(input.running, input.host) # Unknown
      <4>1. Check(input.answered, ms, input.running, input.host)
              = [health |-> "ready", freshness |-> Freshness(input.running, input.host)]
        BY <1>5, <3>1, <3>3
      <4>2. BarSymbol(Check(input.answered, ms, input.running, input.host)) = "cloud.fill"
              <=> ~Differs(input.running, input.host)
        <5> DEFINE bar == Check(input.answered, ms, input.running, input.host)
        <5>1. bar.health = "ready" /\ bar.freshness = Freshness(input.running, input.host)
          BY <4>1
        <5> HIDE DEF bar
        <5>2. (BarSymbol(bar) = "cloud.fill") <=> ~(Freshness(input.running, input.host).kind = "mismatch")
          BY <5>1, Shown
        <5>3. (Freshness(input.running, input.host).kind = "mismatch") <=> Differs(input.running, input.host)
          BY <1>1, Compared
        <5> QED BY <5>2, <5>3 DEF bar
      <4>3. Real(input.running)
        BY <1>1, <3>3, Compared
      <4> QED BY <2>1, <4>2, <4>3
    <3>4. CASE Freshness(input.running, input.host) = Unknown
      <4>1. Check(input.answered, ms, input.running, input.host) = report
        BY <1>5, <3>4
      <4>2. BarSymbol(report) = "cloud.fill" <=> ~Differs(ms[i].sha, input.host)
        <5>1. report.health = "ready" /\ report.freshness = Freshness(ms[i].sha, input.host)
          BY <3>1
        <5>2. (BarSymbol(report) = "cloud.fill") <=> ~(Freshness(ms[i].sha, input.host).kind = "mismatch")
          BY <5>1, Shown
        <5>3. (Freshness(ms[i].sha, input.host).kind = "mismatch") <=> Differs(ms[i].sha, input.host)
          BY <1>1, <3>2, Compared
        <5> QED BY <5>2, <5>3
      <4>3. ~Real(input.running) \/ ~Real(input.host)
        BY <1>1, Compared, <3>4
      <4>4. ~Real(input.host) => \A a \in Shas : ~Differs(a, input.host)
        BY <1>1, Zenon DEF NoSha, Shas, Differs, Real
      <4> QED BY <1>1, <2>1, <3>2, <4>1, <4>2, <4>3, <4>4
    <3> QED BY <3>3, <3>4
  <2>2. CASE ~(input.answered /\ i # 0 /\ ms[i].enabled)
    <3>1. report.health # "ready"
      BY <1>6, <2>2 DEF Report
    <3>2. BarSymbol(report) # "cloud.fill"
      BY <3>1 DEF BarSymbol
    <3> QED BY <1>5, <2>2, <3>1, <3>2
  <2> QED BY <2>1, <2>2
<1>9. (/\ input.answered /\ i # 0 /\ ms[i].enabled /\ ~Differs(served(i), input.host)) <=>
          /\ input.answered
          /\ \E k \in DOMAIN ms : /\ ms[k].ours /\ ms[k].enabled /\ \A j \in 1..(k - 1) : ~ms[j].ours
                                  /\ ~Differs(served(k), input.host)
  <2>1. ASSUME NEW k \in DOMAIN ms, FirstOurs(ms, k) PROVE k = i /\ i # 0
    <3>1. FirstOurs(ms, i)
      BY <1>1, <1>2, <2>1 DEF FirstOurs
    <3> QED BY <1>1, <2>1, <3>1 DEF FirstOurs
  <2>2. i # 0 => i \in DOMAIN ms /\ FirstOurs(ms, i)
    BY <1>1, <1>2 DEF FirstOurs
  <2> QED BY <2>1, <2>2 DEF FirstOurs
<1> QED BY <1>8, <1>9 DEF CloudMeansRightBuild, Real, Differs
-----------------------------------------------------------------------------
(* Texts. *)

LEMMA Cutting ==
    ASSUME NEW W, NEW t \in Seq(W), NEW n \in Nat, Len(t) = n + 1
    PROVE  /\ SubSeq(t, 1, n) \in Seq(W) /\ Len(SubSeq(t, 1, n)) = n /\ t[n + 1] \in W
           /\ t = Append(SubSeq(t, 1, n), t[n + 1])
OBVIOUS

(* Texts grow symbol by symbol.                                            *)
LEMMA TextInduction ==
    ASSUME NEW W, NEW T, <<>> \in T, \A t \in Seq(W) : \A x \in W : t \in T => Append(t, x) \in T
    PROVE  Seq(W) \subseteq T
<1> DEFINE P == {n \in Nat : \A t \in Seq(W) : Len(t) = n => t \in T}
<1>1. 0 \in P
  OBVIOUS
<1>2. ASSUME NEW n \in Nat, n \in P PROVE n + 1 \in P
  <2> SUFFICES ASSUME NEW t \in Seq(W), Len(t) = n + 1 PROVE t \in T
    OBVIOUS
  <2>1. PICK s \in Seq(W) : s = SubSeq(t, 1, n) /\ Len(s) = n /\ t[n + 1] \in W /\ t = Append(s, t[n + 1])
    BY Cutting
  <2>2. s \in T
    BY <1>2, <2>1
  <2> QED BY <2>1, <2>2
<1> HIDE DEF P
<1>3. Nat \subseteq P
  BY <1>1, <1>2, Inductive
<1>4. \A t \in Seq(W) : Len(t) \in P
  BY <1>3
<1> QED BY <1>4 DEF P

(* Two runs of the same steps agree.                                       *)
Alike(n, h, k) == h[0] = k[0] /\ \A i \in 1..n : h[i - 1] = k[i - 1] => h[i] = k[i]

LEMMA Agreement ==
    ASSUME NEW n \in Nat, NEW h, NEW k, Alike(n, h, k) PROVE h[n] = k[n]
<1> DEFINE T == {i \in Nat : i <= n => h[i] = k[i]}
<1>1. 0 \in T
  BY DEF Alike
<1>2. ASSUME NEW i \in Nat, i \in T PROVE i + 1 \in T
  <2> SUFFICES ASSUME i + 1 <= n PROVE h[i + 1] = k[i + 1]
    OBVIOUS
  <2>1. i + 1 \in 1..n /\ (i + 1) - 1 = i /\ h[i] = k[i]
    BY <1>2
  <2> QED BY <2>1 DEF Alike
<1> HIDE DEF T
<1>3. n \in T
  BY <1>1, <1>2, Inductive
<1> QED BY <1>3 DEF T

Parts(W) == Seq(Seq(W)) \ {<<>>}

Extend(parts, x, c) == IF x = c THEN Append(parts, <<>>) ELSE [parts EXCEPT ![Len(parts)] = Append(@, x)]

LEMMA Extended ==
    ASSUME NEW W, NEW parts \in Parts(W), NEW x \in W, NEW c PROVE Extend(parts, x, c) \in Parts(W)
<1>1. Len(parts) \in DOMAIN parts /\ parts[Len(parts)] \in Seq(W) /\ Append(parts[Len(parts)], x) \in Seq(W)
  BY DEF Parts
<1>2. [parts EXCEPT ![Len(parts)] = Append(@, x)] \in Seq(Seq(W))
  BY <1>1 DEF Parts
<1>3. [parts EXCEPT ![Len(parts)] = Append(@, x)] # <<>>
  BY <1>1 DEF Parts
<1>4. Append(parts, <<>>) \in Parts(W)
  BY DEF Parts
<1> QED BY <1>2, <1>3, <1>4 DEF Extend, Parts

LEMMA SameMaxOfTexts == \A S : Texts!Max(S) = Seqs!Max(S)
BY DEF Texts!Max, Seqs!Max

(* A fold, element by element.                                             *)
FoldRun(t, r, step, base, D) ==
    \E h \in [0..Len(t) -> D] :
        h[0] = base /\ r = h[Len(t)] /\ \A i \in 1..Len(t) : h[i] = step[h[i - 1], t[i]]

Steps(step, r, x, q) == q = step[r, x]

LEMMA Appended == ASSUME NEW W, NEW t \in Seq(W), NEW x \in W PROVE Append(t, x) \in Seq(W)
OBVIOUS

LEMMA FoldGrows ==
    ASSUME NEW W, NEW D, NEW base, NEW step, NEW t \in Seq(W), NEW x \in W, NEW s, s = Append(t, x),
           NEW r, NEW q, FoldRun(t, r, step, base, D), FoldRun(s, q, step, base, D)
    PROVE  Steps(step, r, x, q)
<1> DEFINE n == Len(t)
<1>1. /\ n \in Nat /\ Len(s) = n + 1 /\ s[n + 1] = x /\ (\A i \in 1..n : s[i] = t[i])
      /\ n + 1 \in 1..(n + 1) /\ (n + 1) - 1 = n /\ \A i \in 1..n : i \in 1..(n + 1)
  OBVIOUS
<1>2. PICK h : h[0] = base /\ r = h[n] /\ \A i \in 1..n : h[i] = step[h[i - 1], t[i]]
  BY ZenonT(40) DEF FoldRun
<1>3. PICK k : k[0] = base /\ q = k[Len(s)] /\ \A i \in 1..Len(s) : k[i] = step[k[i - 1], s[i]]
  BY ZenonT(40) DEF FoldRun
<1> HIDE DEF n
<1>4. Alike(n, h, k)
  BY <1>1, <1>2, <1>3, Zenon DEF Alike
<1>5. h[n] = k[n]
  BY <1>1, <1>4, Agreement
<1>6. q = k[n + 1]
  BY <1>1, <1>3, Zenon
<1>7. k[n + 1] = step[k[n], x]
  BY <1>1, <1>3, Zenon
<1> QED BY <1>2, <1>5, <1>6, <1>7, Zenon DEF Steps

LEMMA FoldStarts ==
    ASSUME NEW D, NEW base, NEW step, NEW r, FoldRun(<<>>, r, step, base, D) PROVE r = base
<1>1. Len(<<>>) = 0
  OBVIOUS
<1> QED BY <1>1 DEF FoldRun

LEMMA FoldTyped ==
    ASSUME NEW W, NEW t \in Seq(W), NEW D, NEW base, NEW step, NEW r, FoldRun(t, r, step, base, D) PROVE r \in D
<1>1. Len(t) \in 0..Len(t)
  OBVIOUS
<1> QED BY <1>1, Zenon DEF FoldRun

(* What a solution of a fold's recursion comes to.                         *)
Solution(g, t, step, base, D) ==
    /\ g[{}] = base
    /\ \A s \in SUBSET (1..Len(t)) : s # {} /\ g[s \ {Seqs!Max(s)}] \in D =>
           g[s] = step[g[s \ {Seqs!Max(s)}], t[Seqs!Max(s)]]

LEMMA Maxima ==
    ASSUME NEW W, NEW t \in Seq(W), NEW s \in SUBSET (1..Len(t)), s # {}
    PROVE  /\ Texts!Max(s) = Seqs!Max(s) /\ Seqs!Max(s) \in 1..Len(t) /\ t[Seqs!Max(s)] \in W
           /\ s \ {Seqs!Max(s)} \in SUBSET (1..Len(t))
<1>1. Len(t) \in Nat
  OBVIOUS
<1>2. Seqs!Max(s) \in s
  BY <1>1, GreatestBelow
<1>3. Texts!Max(s) = Seqs!Max(s)
  BY SameMaxOfTexts
<1>4. Seqs!Max(s) \in 1..Len(t)
  BY <1>2
<1>5. \A i \in 1..Len(t) : t[i] \in W
  OBVIOUS
<1> QED BY <1>3, <1>4, <1>5

LEMMA Solvable ==
    ASSUME NEW W, NEW t \in Seq(W), NEW D, NEW base \in D, NEW step \in [D \X W -> D]
    PROVE  \E g \in [SUBSET (1..Len(t)) -> D] : Solution(g, t, step, base, D)
<1> DEFINE n == Len(t)
<1>1. n \in Nat /\ (\A i \in 1..n : t[i] \in W)
  OBVIOUS
<1>2. PICK st : st = [x \in D \X (1..n) |-> step[x[1], t[x[2]]]]
  BY Zenon
<1>3. st \in [D \X (1..n) -> D] /\ \A d \in D, i \in 1..n : st[d, i] = step[d, t[i]]
  <2>1. \A d \in D, i \in 1..n : <<d, t[i]>> \in D \X W
    BY <1>1
  <2> HIDE DEF n
  <2> QED BY <1>2, <2>1, Zenon
<1>4. PICK g \in [SUBSET (1..n) -> D] : Folding(g, n, base, st)
  BY <1>1, <1>3, FoldingExists, Zenon
<1>5. g[{}] = base
  BY <1>4, Zenon DEF Folding
<1>6. ASSUME NEW s \in SUBSET (1..n), s # {}, g[s \ {Seqs!Max(s)}] \in D
      PROVE  g[s] = step[g[s \ {Seqs!Max(s)}], t[Seqs!Max(s)]]
  <2>1. Seqs!Max(s) \in 1..n
    BY <1>6, Maxima
  <2>2. g[s] = st[g[s \ {Seqs!Max(s)}], Seqs!Max(s)]
    BY <1>4, <1>6, Zenon DEF Folding
  <2> QED BY <1>3, <1>6, <2>1, <2>2, Zenon
<1> QED BY <1>4, <1>5, <1>6, Zenon DEF Solution

LEMMA Solved ==
    ASSUME NEW W, NEW t \in Seq(W), NEW D, NEW base \in D, NEW step \in [D \X W -> D], NEW g,
           Solution(g, t, step, base, D)
    PROVE  FoldRun(t, g[1..Len(t)], step, base, D)
<1> DEFINE n == Len(t)
<1>1. n \in Nat /\ (\A i \in 1..n : t[i] \in W)
  OBVIOUS
<1>2. PICK st : st = [x \in D \X (1..n) |-> step[x[1], t[x[2]]]]
  BY Zenon
<1>3. st \in [D \X (1..n) -> D] /\ \A d \in D, i \in 1..n : st[d, i] = step[d, t[i]]
  <2>1. \A d \in D, i \in 1..n : <<d, t[i]>> \in D \X W
    BY <1>1
  <2> HIDE DEF n
  <2> QED BY <1>2, <2>1, Zenon
<1>4. g[{}] = base /\ Unrolls(g, n, st, D)
  <2>1. ASSUME NEW s \in SUBSET (1..n), s # {}, g[s \ {Seqs!Max(s)}] \in D
        PROVE  g[s] = st[g[s \ {Seqs!Max(s)}], Seqs!Max(s)]
    <3>1. Seqs!Max(s) \in 1..n
      BY <2>1, Maxima
    <3>2. g[s] = step[g[s \ {Seqs!Max(s)}], t[Seqs!Max(s)]]
      BY <2>1, Zenon DEF Solution
    <3> QED BY <1>3, <2>1, <3>1, <3>2, Zenon
  <2> QED BY <2>1, Zenon DEF Unrolls, Solution
<1> HIDE DEF n
<1>5. Unrolled(g, n, st, D, base)
  BY <1>1, <1>3, <1>4, Unrolling, Zenon
<1>6. PICK h \in [0..n -> D] : h[0] = base /\ h[n] = g[1..n] /\ \A i \in 1..n : h[i] = st[h[i - 1], i]
  BY <1>5, Zenon DEF Unrolled
<1>7. \A i \in 1..n : h[i] = step[h[i - 1], t[i]]
  <2>1. \A i \in 1..n : i - 1 \in 0..n
    BY <1>1
  <2> QED BY <1>3, <1>6, <2>1, Zenon
<1> QED BY <1>6, <1>7, Zenon DEF FoldRun, n

SplitStep(W, c) == [x \in Parts(W) \X W |-> Extend(x[1], x[2], c)]

LEMMA SplitStepTyped ==
    ASSUME NEW W, NEW c
    PROVE  /\ SplitStep(W, c) \in [Parts(W) \X W -> Parts(W)] /\ << <<>> >> \in Parts(W)
           /\ \A d \in Parts(W), x \in W : SplitStep(W, c)[d, x] = Extend(d, x, c)
<1>1. \A d \in Parts(W), x \in W : Extend(d, x, c) \in Parts(W)
  BY Extended
<1>2. << <<>> >> \in Parts(W)
  BY DEF Parts
<1> DEFINE D == Parts(W)
<1> HIDE DEF D
<1> QED BY <1>1, <1>2, Zenon DEF SplitStep, D

LEMMA SplitRuns ==
    ASSUME NEW W, NEW c, NEW t \in Seq(W)
    PROVE  FoldRun(t, Split(t, c), SplitStep(W, c), << <<>> >>, Parts(W))
<1> DEFINE n == Len(t)  D == Parts(W)  base == << <<>> >>  step == SplitStep(W, c)
<1>1. n \in Nat /\ DOMAIN t = 1..n
  OBVIOUS
<1>2. step \in [D \X W -> D] /\ base \in D /\ \A d \in D, x \in W : step[d, x] = Extend(d, x, c)
  BY SplitStepTyped, Zenon
<1> DEFINE Solves(g) == g = [s \in SUBSET (1..n) |-> IF s = {} THEN base
                                      ELSE Extend(g[s \ {Texts!Max(s)}], t[Texts!Max(s)], c)]
<1>3. Split(t, c) = (CHOOSE g : Solves(g))[1..n]
  BY <1>1 DEF Split, Texts!FoldLeft, Texts!MapThenFoldSet, Extend
<1> HIDE DEF D, base, step
<1>4. PICK f \in [SUBSET (1..n) -> D] : Solution(f, t, step, base, D)
  BY <1>2, Solvable, Zenon
<1>5. \A s \in SUBSET (1..n) : s # {} => /\ Texts!Max(s) = Seqs!Max(s) /\ t[Seqs!Max(s)] \in W
                                         /\ s \ {Seqs!Max(s)} \in SUBSET (1..n)
  BY Maxima
<1>6. f = [s \in SUBSET (1..n) |-> f[s]]
  OBVIOUS
<1>7. \A s \in SUBSET (1..n) : f[s] = IF s = {} THEN base ELSE Extend(f[s \ {Texts!Max(s)}], t[Texts!Max(s)], c)
  BY <1>2, <1>4, <1>5, Zenon DEF Solution
<1>8. Solves(f)
  BY <1>6, <1>7
<1>9. PICK g : Solves(g) /\ Split(t, c) = g[1..n]
  <2>1. Solves(CHOOSE g : Solves(g))
    BY <1>8
  <2> HIDE DEF Solves
  <2> QED BY <1>3, <2>1
<1>10. Solution(g, t, step, base, D)
  <2>1. g[{}] = base
    BY <1>9
  <2>2. ASSUME NEW s \in SUBSET (1..n), s # {}, g[s \ {Seqs!Max(s)}] \in D
        PROVE  g[s] = step[g[s \ {Seqs!Max(s)}], t[Seqs!Max(s)]]
    <3>1. g[s] = Extend(g[s \ {Texts!Max(s)}], t[Texts!Max(s)], c)
      BY <1>9, <2>2
    <3> QED BY <1>2, <1>5, <2>2, <3>1, Zenon
  <2> QED BY <2>1, <2>2, Zenon DEF Solution
<1> HIDE DEF Solves
<1>11. FoldRun(t, g[1..n], step, base, D)
  BY <1>2, <1>10, Solved, Zenon
<1> QED BY <1>9, <1>11 DEF D, base, step

(* A symbol more ends the last part or belongs to it.                      *)
LEMMA SplitGrows ==
    ASSUME NEW W, NEW c
    PROVE  /\ Split(<<>>, c) = << <<>> >>
           /\ \A t \in Seq(W) : Split(t, c) \in Parts(W)
           /\ \A t \in Seq(W) : \A x \in W : Split(Append(t, x), c) = Extend(Split(t, c), x, c)
<1>1. ASSUME NEW t \in Seq(W) PROVE Split(t, c) \in Parts(W)
  BY SplitRuns, FoldTyped
<1>2. Split(<<>>, c) = << <<>> >>
  <2>1. <<>> \in Seq(W)
    OBVIOUS
  <2>2. FoldRun(<<>>, Split(<<>>, c), SplitStep(W, c), << <<>> >>, Parts(W))
    BY <2>1, SplitRuns
  <2> QED BY <2>2, FoldStarts
<1>3. ASSUME NEW t \in Seq(W), NEW x \in W PROVE Split(Append(t, x), c) = Extend(Split(t, c), x, c)
  <2>1. PICK s : s = Append(t, x) /\ s \in Seq(W)
    BY <1>3, Appended
  <2>2. /\ FoldRun(t, Split(t, c), SplitStep(W, c), << <<>> >>, Parts(W))
        /\ FoldRun(s, Split(s, c), SplitStep(W, c), << <<>> >>, Parts(W))
    BY <1>3, <2>1, SplitRuns
  <2>3. Split(s, c) = SplitStep(W, c)[Split(t, c), x]
    <3>1. Steps(SplitStep(W, c), Split(t, c), x, Split(s, c))
      BY <1>3, <2>1, <2>2, FoldGrows
    <3> QED BY <3>1, Zenon DEF Steps
  <2> QED BY <1>1, <2>1, <2>3, SplitStepTyped, Zenon
<1> QED BY <1>1, <1>2, <1>3

Plain(t, C) == \A i \in 1..Len(t) : t[i] \notin C

LEMMA Glued ==
    ASSUME NEW W, NEW p \in Seq(W), NEW q \in Seq(W)
    PROVE  /\ p \o q \in Seq(W) /\ Len(p \o q) = Len(p) + Len(q)
           /\ Len(p) \in Nat /\ Len(q) \in Nat
           /\ \A i \in 1..Len(p) : (p \o q)[i] = p[i]
           /\ \A i \in 1..Len(q) : (p \o q)[Len(p) + i] = q[i]
           /\ \A i \in 1..Len(p \o q) : IF i <= Len(p) THEN i \in 1..Len(p) ELSE i - Len(p) \in 1..Len(q)
BY ConcatProperties, LenProperties

LEMMA Same ==
    ASSUME NEW W, NEW s \in Seq(W), NEW t \in Seq(W), Len(s) = Len(t), \A i \in 1..Len(s) : s[i] = t[i]
    PROVE  s = t
BY SeqEqual

LEMMA OneSymbol ==
    ASSUME NEW W, NEW x \in W
    PROVE  <<x>> \in Seq(W) /\ Len(<<x>>) = 1 /\ <<x>>[1] = x /\ \A t \in Seq(W) : Append(t, x) = t \o <<x>>
<1>1. ASSUME NEW t \in Seq(W) PROVE Append(t, x) = t \o <<x>>
  BY <1>1, AppendIsConcat
<1> QED BY <1>1

(* Named, so that Zenon can instantiate it.                                *)
Glues(p, q, r) == (p \o q) \o r = p \o (q \o r)

LEMMA Assoc ==
    ASSUME NEW W, NEW p \in Seq(W), NEW q \in Seq(W), NEW r \in Seq(W) PROVE Glues(p, q, r)
BY ConcatAssociative DEF Glues

LEMMA Replaced ==
    ASSUME NEW W, NEW p \in Seq(W), NEW n, NEW e \in W, n \in 1..Len(p), NEW m, m = [p EXCEPT ![n] = e]
    PROVE  m \in Seq(W) /\ Len(m) = Len(p) /\ \A i \in 1..Len(p) : m[i] = IF i = n THEN e ELSE p[i]
BY ExceptSeq

LEMMA GluedOn ==
    ASSUME NEW W, NEW p \in Seq(W), NEW q \in Seq(W), NEW x \in W
    PROVE  p \o Append(q, x) = Append(p \o q, x)
<1>1. /\ <<x>> \in Seq(W) /\ p \o q \in Seq(W) /\ Append(q, x) = q \o <<x>> /\ Append(p \o q, x) = (p \o q) \o <<x>>
  BY OneSymbol, Glued
<1> QED BY <1>1, ConcatAssociative

LEMMA PlainParts ==
    ASSUME NEW W, NEW p \in Seq(W), NEW q \in Seq(W), NEW C
    PROVE  Plain(p \o q, C) <=> Plain(p, C) /\ Plain(q, C)
<1>1. ASSUME Plain(p, C), Plain(q, C) PROVE Plain(p \o q, C)
  <2> SUFFICES ASSUME NEW i \in 1..Len(p \o q) PROVE (p \o q)[i] \notin C
    BY DEF Plain
  <2>1. CASE i <= Len(p)
    BY <1>1, <2>1, Glued DEF Plain
  <2>2. CASE ~(i <= Len(p))
    <3>1. i - Len(p) \in 1..Len(q) /\ Len(p) + (i - Len(p)) = i
      BY <2>2, Glued
    <3> QED BY <1>1, <3>1, Glued DEF Plain
  <2> QED BY <2>1, <2>2
<1>2. ASSUME Plain(p \o q, C) PROVE Plain(p, C) /\ Plain(q, C)
  <2>1. ASSUME NEW i \in 1..Len(p) PROVE p[i] \notin C
    <3>1. i \in 1..Len(p \o q) /\ (p \o q)[i] = p[i]
      BY Glued
    <3> QED BY <1>2, <3>1 DEF Plain
  <2>2. ASSUME NEW i \in 1..Len(q) PROVE q[i] \notin C
    <3>1. Len(p) + i \in 1..Len(p \o q) /\ (p \o q)[Len(p) + i] = q[i]
      BY Glued
    <3> QED BY <1>2, <3>1 DEF Plain
  <2> QED BY <2>1, <2>2 DEF Plain
<1> QED BY <1>1, <1>2

LEMMA PlainMore ==
    ASSUME NEW W, NEW p \in Seq(W), NEW x \in W, NEW C
    PROVE  Plain(Append(p, x), C) <=> Plain(p, C) /\ x \notin C
<1>1. Plain(<<x>>, C) <=> x \notin C
  BY OneSymbol DEF Plain
<1>2. <<x>> \in Seq(W) /\ Append(p, x) = p \o <<x>>
  BY OneSymbol
<1>3. Plain(p \o <<x>>, C) <=> Plain(p, C) /\ Plain(<<x>>, C)
  BY <1>2, PlainParts
<1> QED BY <1>1, <1>2, <1>3

LEMMA PlainNothing == ASSUME NEW C PROVE Plain(<<>>, C)
BY DEF Plain

LEMMA SplitPlain ==
    ASSUME NEW W, NEW c, NEW t \in Seq(W), Plain(t, {c}) PROVE Split(t, c) = <<t>>
<1> DEFINE T == {p \in Seq(W) : Plain(p, {c}) => Split(p, c) = <<p>>}
<1>1. <<>> \in T
  BY SplitGrows
<1>2. ASSUME NEW p \in Seq(W), NEW x \in W, p \in T PROVE Append(p, x) \in T
  <2>1. Append(p, x) \in Seq(W)
    BY <1>2, Appended
  <2>2. ASSUME Plain(Append(p, x), {c}) PROVE Split(Append(p, x), c) = <<Append(p, x)>>
    <3>1. Plain(p, {c}) /\ x # c
      BY <1>2, <2>2, PlainMore
    <3>2. Split(Append(p, x), c) = Extend(<<p>>, x, c)
      BY <1>2, <3>1, SplitGrows
    <3>3. Extend(<<p>>, x, c) = <<Append(p, x)>>
      BY <3>1 DEF Extend
    <3> QED BY <3>2, <3>3
  <2> QED BY <2>1, <2>2
<1> HIDE DEF T
<1>3. t \in T
  BY <1>1, <1>2, TextInduction
<1> QED BY <1>3 DEF T

LEMMA SplitTyped == ASSUME NEW W, NEW c, NEW t \in Seq(W) PROVE Split(t, c) \in Parts(W)
BY SplitGrows

LEMMA ExtendFirst ==
    ASSUME NEW W, NEW p \in Seq(W), NEW parts \in Parts(W), NEW x \in W, NEW c
    PROVE  Extend(<<p>> \o parts, x, c) = <<p>> \o Extend(parts, x, c)
<1> DEFINE U == Seq(W)  n == Len(parts)
<1>1. parts \in Seq(U) /\ n \in Nat /\ n # 0 /\ n \in 1..n /\ <<p>> \in Seq(U) /\ Len(<<p>>) = 1
  BY DEF Parts
<1>2. /\ <<p>> \o parts \in Seq(U) /\ Len(<<p>> \o parts) = n + 1
      /\ (<<p>> \o parts)[1] = p
      /\ \A i \in 1..n : (<<p>> \o parts)[1 + i] = parts[i]
  <2>1. (<<p>> \o parts)[1] = <<p>>[1]
    BY <1>1, Glued
  <2> QED BY <1>1, <2>1, Glued
<1>3. CASE x = c
  <2>1. <<>> \in U
    OBVIOUS
  <2> HIDE DEF U
  <2>2. Append(<<p>> \o parts, <<>>) = <<p>> \o Append(parts, <<>>)
    BY <1>1, <2>1, GluedOn
  <2> QED BY <1>3, <2>2 DEF Extend
<1>4. CASE x # c
  <2>1. parts[n] \in U /\ Append(parts[n], x) \in U /\ (<<p>> \o parts)[n + 1] = parts[n]
    <3>1. parts[n] \in U
      BY <1>1
    <3>2. (<<p>> \o parts)[1 + n] = parts[n] /\ 1 + n = n + 1
      BY <1>1, <1>2
    <3> QED BY <3>1, <3>2, Appended
  <2> HIDE DEF U
  <2>2. PICK e : e = Append(parts[n], x)
    OBVIOUS
  <2>3. PICK l : l = [parts EXCEPT ![n] = e]
    OBVIOUS
  <2>4. l \in Seq(U) /\ Len(l) = n /\ \A i \in 1..n : l[i] = IF i = n THEN e ELSE parts[i]
    BY <1>1, <2>1, <2>2, <2>3, ExceptSeq
  <2>5. PICK g : g = <<p>> \o parts
    OBVIOUS
  <2>6. PICK m : m = [g EXCEPT ![n + 1] = e]
    OBVIOUS
  <2>7. PICK k : k = n + 1
    OBVIOUS
  <2>8. m \in Seq(U) /\ Len(m) = n + 1 /\ \A i \in 1..(n + 1) : m[i] = IF i = n + 1 THEN e ELSE g[i]
    <3>1. k \in 1..Len(g) /\ g \in Seq(U) /\ Len(g) = k
      BY <1>1, <1>2, <2>5, <2>7
    <3>2. m = [g EXCEPT ![k] = e] /\ e \in U
      BY <2>1, <2>2, <2>6, <2>7
    <3>3. m \in Seq(U) /\ Len(m) = Len(g) /\ \A i \in 1..Len(g) : m[i] = IF i = k THEN e ELSE g[i]
      BY <3>1, <3>2, ExceptSeq
    <3> QED BY <2>7, <3>1, <3>3
  <2>9. /\ <<p>> \o l \in Seq(U) /\ Len(<<p>> \o l) = n + 1 /\ (<<p>> \o l)[1] = p
        /\ \A i \in 1..n : (<<p>> \o l)[1 + i] = l[i]
    <3>1. (<<p>> \o l)[1] = <<p>>[1]
      BY <1>1, <2>4, Glued
    <3> QED BY <1>1, <2>4, <3>1, Glued
  <2>10. ASSUME NEW i \in 1..(n + 1) PROVE m[i] = (<<p>> \o l)[i]
    <3>1. CASE i = 1
      BY <1>1, <1>2, <2>5, <2>8, <2>9, <3>1
    <3>2. CASE i # 1
      <4>1. i - 1 \in 1..n /\ 1 + (i - 1) = i
        BY <1>1, <2>10, <3>2
      <4>2. (<<p>> \o l)[i] = l[i - 1] /\ g[i] = parts[i - 1]
        BY <1>2, <2>5, <2>9, <4>1
      <4> QED BY <1>1, <2>4, <2>8, <4>1, <4>2
    <3> QED BY <3>1, <3>2
  <2>11. m = <<p>> \o l
    BY <2>8, <2>9, <2>10, Same
  <2>12. Extend(parts, x, c) = l
    BY <1>4, <2>2, <2>3 DEF Extend
  <2>13. Extend(g, x, c) = m
    BY <1>2, <1>4, <2>1, <2>2, <2>5, <2>6 DEF Extend
  <2> QED BY <2>5, <2>11, <2>12, <2>13
<1> QED BY <1>3, <1>4

(* What a text holds before its first c is the first part.                 *)
LEMMA SplitAt ==
    ASSUME NEW W, NEW c \in W, NEW p \in Seq(W), NEW q \in Seq(W), Plain(p, {c})
    PROVE  Split((p \o <<c>>) \o q, c) = <<p>> \o Split(q, c)
<1> DEFINE s == p \o <<c>>  T == {t \in Seq(W) : Split(s \o t, c) = <<p>> \o Split(t, c)}
<1>1. s \in Seq(W) /\ s = Append(p, c)
  BY OneSymbol, Glued
<1>2. <<>> \in T
  <2>1. Split(s, c) = Extend(<<p>>, c, c)
    BY <1>1, SplitGrows, SplitPlain, ZenonT(40)
  <2>2. Extend(<<p>>, c, c) = Append(<<p>>, <<>>)
    BY DEF Extend
  <2>3. Append(<<p>>, <<>>) = <<p>> \o << <<>> >>
    <3>1. PICK U : U = Seq(W)
      OBVIOUS
    <3>2. p \in U /\ <<>> \in U
      BY <3>1
    <3>3. <<p>> \in Seq(U)
      BY <3>2, OneSymbol
    <3> QED BY <3>2, <3>3, OneSymbol
  <2>4. s \o <<>> = s /\ <<>> \in Seq(W) /\ Split(<<>>, c) = << <<>> >>
    <3>1. s \o <<>> = s
      BY <1>1, ConcatEmptySeq
    <3>2. <<>> \in Seq(W)
      OBVIOUS
    <3>3. Split(<<>>, c) = << <<>> >>
      BY SplitGrows
    <3> QED BY <3>1, <3>2, <3>3
  <2> HIDE DEF s
  <2> QED BY <2>1, <2>2, <2>3, <2>4
<1> HIDE DEF s
<1>3. ASSUME NEW t \in Seq(W), NEW x \in W, t \in T PROVE Append(t, x) \in T
  <2>1. Append(t, x) \in Seq(W) /\ s \o t \in Seq(W) /\ Split(t, c) \in Parts(W)
    BY <1>1, <1>3, Appended, Glued, SplitTyped
  <2>2. s \o Append(t, x) = Append(s \o t, x)
    BY <1>1, <1>3, GluedOn
  <2>3. Split(Append(s \o t, x), c) = Extend(Split(s \o t, c), x, c)
    BY <1>3, <2>1, SplitGrows
  <2>4. Split(Append(t, x), c) = Extend(Split(t, c), x, c)
    BY <1>3, SplitGrows
  <2>5. Extend(<<p>> \o Split(t, c), x, c) = <<p>> \o Extend(Split(t, c), x, c)
    <3>1. PICK parts : parts = Split(t, c)
      OBVIOUS
    <3>2. parts \in Parts(W) /\ x \in W
      BY <1>3, <2>1, <3>1
    <3>3. Extend(<<p>> \o parts, x, c) = <<p>> \o Extend(parts, x, c)
      BY <3>2, ExtendFirst
    <3> QED BY <3>1, <3>3
  <2> QED BY <1>3, <2>1, <2>2, <2>3, <2>4, <2>5
<1> HIDE DEF T
<1>4. q \in T
  BY <1>2, <1>3, TextInduction
<1> QED BY <1>4 DEF T, s

LEMMA ReplaceLast ==
    ASSUME NEW U, NEW g \in Seq(U), NEW e \in U, NEW a \in Seq(U), NEW n, n \in 1..Len(g),
           Len(a) = Len(g), a[n] = e, \A i \in 1..Len(g) : i # n => a[i] = g[i]
    PROVE  [g EXCEPT ![n] = e] = a
<1>1. PICK m : m = [g EXCEPT ![n] = e]
  OBVIOUS
<1>2. m \in Seq(U) /\ Len(m) = Len(g) /\ \A i \in 1..Len(g) : m[i] = IF i = n THEN e ELSE g[i]
  BY <1>1, Replaced
<1>3. \A i \in 1..Len(m) : m[i] = a[i]
  BY <1>2
<1>4. m = a
  BY <1>2, <1>3, SeqEqual
<1> QED BY <1>1, <1>4

(* What it holds after its last c is the last part.                        *)
LEMMA SplitLast ==
    ASSUME NEW W, NEW c \in W, NEW t \in Seq(W), NEW p \in Seq(W), Plain(p, {c})
    PROVE  Split((t \o <<c>>) \o p, c) = Append(Split(t, c), p)
<1> DEFINE s == t \o <<c>>  parts == Split(t, c)
           T == {u \in Seq(W) : Plain(u, {c}) => Split(s \o u, c) = Append(parts, u)}
<1>1. s \in Seq(W) /\ s = Append(t, c) /\ parts \in Parts(W)
  BY OneSymbol, Glued, SplitTyped
<1>2. <<>> \in T
  <2>1. Split(s, c) = Extend(parts, c, c)
    BY <1>1, SplitGrows
  <2>2. s \o <<>> = s /\ <<>> \in Seq(W)
    BY <1>1, ConcatEmptySeq
  <2> HIDE DEF s, parts
  <2> QED BY <2>1, <2>2 DEF Extend
<1> HIDE DEF s, parts
<1>3. ASSUME NEW u \in Seq(W), NEW x \in W, u \in T PROVE Append(u, x) \in T
  <2>1. Append(u, x) \in Seq(W) /\ s \o u \in Seq(W)
    BY <1>1, <1>3, Appended, Glued
  <2>2. s \o Append(u, x) = Append(s \o u, x)
    BY <1>1, <1>3, GluedOn
  <2>3. Split(Append(s \o u, x), c) = Extend(Split(s \o u, c), x, c)
    BY <1>3, <2>1, SplitGrows
  <2>4. ASSUME Plain(Append(u, x), {c}) PROVE Extend(Append(parts, u), x, c) = Append(parts, Append(u, x)) /\ Plain(u, {c})
    <3>1. Plain(u, {c}) /\ x # c
      BY <1>3, <2>4, PlainMore
    <3>2. PICK e : e = Append(u, x) /\ e \in Seq(W)
      BY <2>1
    <3>3. PICK g : g = Append(parts, u)
      OBVIOUS
    <3>4. parts \in Seq(Seq(W))
      BY <1>1 DEF Parts
    <3>5. Len(parts) \in Nat /\ Len(g) = Len(parts) + 1 /\ g[Len(parts) + 1] = u /\ g \in Seq(Seq(W))
      BY <1>3, <3>3, <3>4
    <3>6. [g EXCEPT ![Len(g)] = e] = Append(parts, e)
      <4>1. PICK U : U = Seq(W)
        OBVIOUS
      <4>2. u \in U /\ e \in U /\ parts \in Seq(U)
        BY <1>3, <3>2, <3>4, <4>1
      <4>3. PICK a : a = Append(parts, e)
        OBVIOUS
      <4>4. g \in Seq(U) /\ Len(g) = Len(parts) + 1 /\ \A i \in 1..Len(parts) : g[i] = parts[i]
        BY <3>3, <4>2, AppendProperties
      <4>5. /\ a \in Seq(U) /\ Len(a) = Len(parts) + 1 /\ a[Len(parts) + 1] = e
            /\ \A i \in 1..Len(parts) : a[i] = parts[i]
        BY <4>2, <4>3, AppendProperties
      <4>6. PICK n : n = Len(g)
        OBVIOUS
      <4>7. n \in 1..Len(g) /\ Len(a) = Len(g) /\ a[n] = e
        BY <3>5, <4>4, <4>5, <4>6
      <4>8. \A i \in 1..Len(g) : i # n => a[i] = g[i]
        <5> TAKE i \in 1..Len(g)
        <5> HAVE i # n
        <5>1. i \in 1..Len(parts)
          BY <3>5, <4>6
        <5> QED BY <4>4, <4>5, <5>1
      <4>9. [g EXCEPT ![n] = e] = a
        BY <4>2, <4>4, <4>5, <4>7, <4>8, ReplaceLast
      <4> QED BY <4>3, <4>6, <4>9
    <3>7. Extend(g, x, c) = [g EXCEPT ![Len(g)] = e]
      BY <3>1, <3>2, <3>5 DEF Extend
    <3> QED BY <3>1, <3>2, <3>3, <3>6, <3>7
  <2> QED BY <1>3, <2>1, <2>2, <2>3, <2>4
<1> HIDE DEF T
<1>4. p \in T
  BY <1>2, <1>3, TextInduction
<1> QED BY <1>4 DEF T, s, parts

(* A text with a c in it is what stands before the first, and the rest.    *)
Broken(t, c, W) == \E p \in Seq(W), r \in Seq(W) : Plain(p, {c}) /\ t = (p \o <<c>>) \o r

LEMMA PlainOrBroken ==
    ASSUME NEW W, NEW c \in W, NEW q \in Seq(W) PROVE Plain(q, {c}) \/ Broken(q, c, W)
<1> DEFINE T == {t \in Seq(W) : Plain(t, {c}) \/ Broken(t, c, W)}
<1>1. <<>> \in T
  <2>1. <<>> \in Seq(W)
    OBVIOUS
  <2> QED BY <2>1, PlainNothing
<1>2. ASSUME NEW t \in Seq(W), NEW x \in W, t \in T PROVE Append(t, x) \in T
  <2>1. Append(t, x) \in Seq(W)
    BY <1>2, Appended
  <2>2. CASE Plain(t, {c}) /\ x # c
    BY <1>2, <2>1, <2>2, PlainMore
  <2>3. CASE Plain(t, {c}) /\ x = c
    <3>1. <<>> \in Seq(W)
      OBVIOUS
    <3>2. Append(t, x) = t \o <<c>>
      BY <1>2, <2>3, OneSymbol
    <3>3. Append(t, x) = (t \o <<c>>) \o <<>>
      BY <2>1, <3>2, ConcatEmptySeq
    <3> QED BY <1>2, <2>1, <2>3, <3>1, <3>3 DEF Broken
  <2>4. CASE Broken(t, c, W)
    <3>1. PICK p \in Seq(W), r \in Seq(W) : Plain(p, {c}) /\ t = (p \o <<c>>) \o r
      BY <2>4 DEF Broken
    <3>2. p \o <<c>> \in Seq(W) /\ Append(r, x) \in Seq(W)
      BY <1>2, <3>1, OneSymbol, Glued, Appended
    <3>3. Append(t, x) = (p \o <<c>>) \o Append(r, x)
      <4>1. PICK a : a = p \o <<c>>
        OBVIOUS
      <4>2. a \in Seq(W) /\ r \in Seq(W) /\ x \in W
        BY <1>2, <3>1, <3>2, <4>1
      <4>3. a \o Append(r, x) = Append(a \o r, x)
        BY <4>2, GluedOn
      <4> QED BY <3>1, <4>1, <4>3
    <3> QED BY <2>1, <3>1, <3>2, <3>3 DEF Broken
  <2> QED BY <1>2, <2>2, <2>3, <2>4
<1> HIDE DEF T
<1>3. q \in T
  BY <1>1, <1>2, TextInduction
<1> QED BY <1>3 DEF T

LEMMA FirstPart ==
    ASSUME NEW W, NEW c \in W, NEW p \in Seq(W), Plain(p, {c}), NEW q \in Seq(W)
    PROVE  Split(p \o q, c)[1] = p \o Split(q, c)[1] /\ Split(q, c)[1] \in Seq(W)
<1>1. CASE Plain(q, {c})
  <2>1. Split(q, c) = <<q>>
    BY <1>1, SplitPlain
  <2>2. p \o q \in Seq(W) /\ Plain(p \o q, {c})
    BY <1>1, Glued, PlainParts
  <2>3. Split(p \o q, c) = <<p \o q>>
    BY <2>2, SplitPlain
  <2> QED BY <2>1, <2>3
<1>2. CASE Broken(q, c, W)
  <2>1. PICK a \in Seq(W), r \in Seq(W) : Plain(a, {c}) /\ q = (a \o <<c>>) \o r
    BY <1>2 DEF Broken
  <2>2. <<c>> \in Seq(W) /\ a \o <<c>> \in Seq(W) /\ p \o a \in Seq(W) /\ Plain(p \o a, {c})
    BY <2>1, OneSymbol, Glued, PlainParts
  <2>3. p \o q = ((p \o a) \o <<c>>) \o r
    <3>1. PICK d, e : d = <<c>> /\ e = a \o <<c>>
      OBVIOUS
    <3>2. d \in Seq(W) /\ e \in Seq(W)
      BY <2>2, <3>1
    <3>3. Glues(p, e, r)
      BY <2>1, <3>2, Assoc, Zenon
    <3>4. Glues(p, a, d)
      BY <2>1, <3>2, Assoc, Zenon
    <3> QED BY <2>1, <3>1, <3>3, <3>4, Zenon DEF Glues
  <2>4. Split(q, c) = <<a>> \o Split(r, c)
    BY <2>1, SplitAt
  <2>5. Split(p \o q, c) = <<p \o a>> \o Split(r, c)
    BY <2>1, <2>2, <2>3, SplitAt
  <2>6. \A b \in Seq(W) : (<<b>> \o Split(r, c))[1] = b
    <3> TAKE b \in Seq(W)
    <3>1. <<b>> \in Seq(Seq(W)) /\ Split(r, c) \in Seq(Seq(W)) /\ Len(<<b>>) = 1 /\ <<b>>[1] = b
      BY <2>1, SplitTyped, OneSymbol DEF Parts
    <3>2. 1 \in 1..1
      OBVIOUS
    <3> QED BY <3>1, <3>2, Glued
  <2> QED BY <2>1, <2>2, <2>4, <2>5, <2>6
<1> QED BY <1>1, <1>2, PlainOrBroken

-----------------------------------------------------------------------------
(* Trimming. *)

AllBlank(t) == \A i \in 1..Len(t) : t[i] = Blank

(* The first and the last symbol that is not blank.                        *)
Inked(t, i, j) ==
    /\ i \in 1..Len(t) /\ j \in 1..Len(t) /\ t[i] # Blank /\ t[j] # Blank
    /\ \A k \in 1..Len(t) : t[k] # Blank => i <= k /\ k <= j

LEMMA TrimCases ==
    ASSUME NEW W, NEW t \in Seq(W)
    PROVE  \/ AllBlank(t) /\ Trim(t) = <<>>
           \/ \E i, j \in 1..Len(t) : Inked(t, i, j) /\ Trim(t) = SubSeq(t, i, j)
<1> DEFINE I == {k \in 1..Len(t) : t[k] # Blank}
<1>1. Len(t) \in Nat
  OBVIOUS
<1>2. /\ Texts!SelectInSeq(t, LAMBDA c : c # Blank) = IF I # {} THEN Texts!Min(I) ELSE 0
      /\ Texts!SelectLastInSeq(t, LAMBDA c : c # Blank) = IF I # {} THEN Texts!Max(I) ELSE 0
  BY DEF Texts!SelectInSeq, Texts!SelectLastInSeq
<1>3. Trim(t) = IF Texts!SelectInSeq(t, LAMBDA c : c # Blank) = 0 THEN <<>>
                ELSE SubSeq(t, Texts!SelectInSeq(t, LAMBDA c : c # Blank),
                               Texts!SelectLastInSeq(t, LAMBDA c : c # Blank))
  BY DEF Trim
<1>4. CASE I = {}
  BY <1>2, <1>3, <1>4 DEF AllBlank
<1>5. CASE I # {}
  <2>1. Texts!Min(I) \in I /\ \A k \in I : Texts!Min(I) <= k
    <3>1. I \in SUBSET Nat
      BY <1>1
    <3>2. \E m \in I : \A k \in I : m <= k
      BY <1>5, <3>1, LeastNat
    <3> HIDE DEF I
    <3> QED BY <3>2 DEF Texts!Min
  <2>2. Texts!Max(I) \in I /\ \A k \in I : k <= Texts!Max(I)
    <3>1. I \in SUBSET (1..Len(t))
      OBVIOUS
    <3> HIDE DEF I
    <3> QED BY <1>1, <1>5, <3>1, GreatestBelow, SameMaxOfTexts
  <2>3. Trim(t) = SubSeq(t, Texts!Min(I), Texts!Max(I))
    <3>1. Texts!Min(I) # 0
      BY <2>1
    <3> HIDE DEF I
    <3> QED BY <1>2, <1>3, <1>5, <3>1
  <2>4. Inked(t, Texts!Min(I), Texts!Max(I))
    BY <2>1, <2>2 DEF Inked
  <2> QED BY <2>1, <2>2, <2>3, <2>4
<1> QED BY <1>4, <1>5

LEMMA TrimTyped == ASSUME NEW W, NEW t \in Seq(W) PROVE Trim(t) \in Seq(W)
<1>1. <<>> \in Seq(W)
  OBVIOUS
<1>2. ASSUME NEW i \in 1..Len(t), NEW j \in 1..Len(t) PROVE SubSeq(t, i, j) \in Seq(W)
  BY <1>2, SubSeqProperties
<1> QED BY <1>1, <1>2, TrimCases

(* A text without a blank at its ends is left alone.                       *)
Trimmed(t) == t = <<>> \/ (t[1] # Blank /\ t[Len(t)] # Blank)

LEMMA TrimmedStays == ASSUME NEW W, NEW t \in Seq(W), Trimmed(t) PROVE Trim(t) = t
<1>1. CASE t = <<>>
  <2>1. ~ \E i \in 1..Len(t) : TRUE
    BY <1>1
  <2> QED BY <1>1, <2>1, TrimCases
<1>2. CASE t # <<>>
  <2>1. Len(t) \in Nat /\ Len(t) # 0 /\ 1 \in 1..Len(t) /\ Len(t) \in 1..Len(t) /\ t[1] # Blank /\ t[Len(t)] # Blank
    BY <1>2 DEF Trimmed
  <2>2. PICK i, j \in 1..Len(t) : Inked(t, i, j) /\ Trim(t) = SubSeq(t, i, j)
    BY <2>1, TrimCases DEF AllBlank
  <2>3. i <= 1 /\ Len(t) <= j
    BY <2>1, <2>2 DEF Inked
  <2>4. i = 1 /\ j = Len(t)
    BY <2>1, <2>2, <2>3
  <2> QED BY <2>2, <2>4, SubSeqFull
<1> QED BY <1>1, <1>2

LEMMA TrimTrims == ASSUME NEW W, NEW t \in Seq(W) PROVE Trimmed(Trim(t))
<1>1. CASE Trim(t) = <<>>
  BY <1>1 DEF Trimmed
<1>2. ASSUME NEW i \in 1..Len(t), NEW j \in 1..Len(t), Inked(t, i, j) PROVE Trimmed(SubSeq(t, i, j))
  <2>1. PICK s : s = SubSeq(t, i, j)
    OBVIOUS
  <2>2. i <= j /\ i \in Int /\ j \in Int /\ Len(t) \in Nat
    BY <1>2 DEF Inked
  <2>3. \A k \in i..j : t[k] \in W
    BY <1>2, <2>2
  <2>4. Len(s) = j - i + 1 /\ \A k \in 1..(j - i + 1) : s[k] = t[i + k - 1]
    BY <2>1, <2>2, <2>3, SubSeqProperties
  <2>5. 1 \in 1..(j - i + 1) /\ j - i + 1 \in 1..(j - i + 1) /\ i + 1 - 1 = i /\ i + (j - i + 1) - 1 = j
    BY <2>2
  <2>6. s[1] = t[i] /\ s[Len(s)] = t[j]
    BY <2>4, <2>5
  <2> QED BY <1>2, <2>1, <2>6 DEF Trimmed, Inked
<1> QED BY <1>1, <1>2, TrimCases

LEMMA TrimAgain == ASSUME NEW W, NEW t \in Seq(W) PROVE Trim(Trim(t)) = Trim(t)
BY TrimTyped, TrimTrims, TrimmedStays

LEMMA TrimOne == ASSUME NEW x, x # Blank PROVE Trim(<<x>>) = <<x>>
<1>1. <<x>> \in Seq({x}) /\ <<x>>[1] = x /\ Len(<<x>>) = 1
  OBVIOUS
<1> QED BY <1>1, TrimmedStays DEF Trimmed

(* The first word of a text that begins with one.                          *)
LEMMA FirstWord ==
    ASSUME NEW W, Blank \in W, NEW x \in W, x # Blank, NEW u \in Seq(W), u = <<>> \/ u[1] = Blank
    PROVE  Split(Trim(<<x>> \o u), Blank)[1] = <<x>>
<1> DEFINE t == <<x>> \o u
<1>1. <<x>> \in Seq(W) /\ Len(<<x>>) = 1 /\ <<x>>[1] = x /\ Plain(<<x>>, {Blank})
  BY OneSymbol DEF Plain
<1>2. t \in Seq(W) /\ Len(t) = 1 + Len(u) /\ Len(u) \in Nat /\ t[1] = x /\ \A i \in 1..Len(u) : t[1 + i] = u[i]
  <2>1. 1 \in 1..Len(<<x>>)
    BY <1>1
  <2> QED BY <1>1, <2>1, Glued
<1> HIDE DEF t
<1>3. 1 \in 1..Len(t)
  BY <1>2
<1>4. PICK i, j \in 1..Len(t) : Inked(t, i, j) /\ Trim(t) = SubSeq(t, i, j)
  BY <1>2, <1>3, TrimCases DEF AllBlank
<1>5. i = 1 /\ j \in Nat /\ j >= 1
  BY <1>2, <1>3, <1>4 DEF Inked
<1>6. PICK s : s = SubSeq(t, 1, j)
  OBVIOUS
<1>7. s \in Seq(W) /\ Len(s) = j /\ \A k \in 1..j : s[k] = t[k]
  <2>1. \A k \in 1..j : t[k] \in W
    BY <1>2, <1>4, <1>5
  <2>2. SubSeq(t, 1, j) \in Seq(W) /\ Len(SubSeq(t, 1, j)) = j - 1 + 1 /\ \A k \in 1..(j - 1 + 1) : SubSeq(t, 1, j)[k] = t[1 + k - 1]
    BY <1>5, <2>1, SubSeqProperties
  <2> QED BY <1>5, <1>6, <2>2
<1>8. CASE j = 1
  <2>1. s = <<x>>
    <3>1. s[1] = x /\ Len(s) = 1
      BY <1>2, <1>7, <1>8
    <3>2. \A k \in 1..Len(s) : s[k] = <<x>>[k]
      BY <1>1, <3>1
    <3> QED BY <1>1, <1>7, <3>1, <3>2, Same
  <2>2. Split(s, Blank) = <<s>>
    BY <1>1, <1>7, <2>1, SplitPlain
  <2>3. <<s>>[1] = s /\ Trim(t) = s
    BY <1>4, <1>5, <1>6
  <2> QED BY <2>1, <2>2, <2>3 DEF t
<1>9. CASE j # 1
  <2>1. j \in 2..Len(t) /\ u # <<>> /\ Len(u) # 0
    BY <1>2, <1>4, <1>5, <1>9
  <2>2. t[2] = Blank
    <3>1. 1 \in 1..Len(u)
      BY <1>2, <2>1
    <3> QED BY <1>2, <2>1, <3>1
  <2>3. PICK r : r = SubSeq(s, 3, j)
    OBVIOUS
  <2>4. r \in Seq(W) /\ Len(r) = j - 2 /\ \A k \in 1..(j - 2) : r[k] = s[2 + k]
    <3>1. \A k \in 3..j : s[k] \in W
      BY <1>5, <1>7
    <3>2. /\ SubSeq(s, 3, j) \in Seq(W) /\ Len(SubSeq(s, 3, j)) = IF 3 <= j THEN j - 3 + 1 ELSE 0
          /\ \A k \in 1..(j - 3 + 1) : SubSeq(s, 3, j)[k] = s[3 + k - 1]
      BY <1>5, <3>1, SubSeqProperties
    <3> QED BY <1>5, <2>1, <2>3, <3>2
  <2>5. PICK b : b = <<x>> \o <<Blank>>
    OBVIOUS
  <2>6. b \in Seq(W) /\ Len(b) = 2 /\ b[1] = x /\ b[2] = Blank
    BY <1>1, <2>5, OneSymbol
  <2>7. PICK g : g = b \o r
    OBVIOUS
  <2>8. g \in Seq(W) /\ Len(g) = j /\ g[1] = x /\ g[2] = Blank /\ \A k \in 1..(j - 2) : g[2 + k] = r[k]
    <3>1. 1 \in 1..Len(b) /\ 2 \in 1..Len(b)
      BY <2>6
    <3>2. /\ b \o r \in Seq(W) /\ Len(b \o r) = Len(b) + Len(r)
          /\ \A k \in 1..Len(b) : (b \o r)[k] = b[k]
          /\ \A k \in 1..Len(r) : (b \o r)[Len(b) + k] = r[k]
      <4>1. b \in Seq(W) /\ r \in Seq(W)
        BY <2>4, <2>6
      <4> QED BY <4>1, Glued
    <3> QED BY <1>5, <2>1, <2>4, <2>6, <2>7, <3>1, <3>2
  <2>9. ASSUME NEW k \in 1..j PROVE s[k] = g[k]
    <3>1. CASE k <= 2
      BY <1>2, <1>7, <2>1, <2>2, <2>8, <2>9, <3>1
    <3>2. CASE k > 2
      <4>1. k - 2 \in 1..(j - 2) /\ 2 + (k - 2) = k
        BY <1>5, <2>9, <3>2
      <4> QED BY <2>4, <2>8, <4>1, ZenonT(60)
    <3> QED BY <1>5, <2>9, <3>1, <3>2
  <2>10. s = g
    BY <1>7, <2>8, <2>9, Same
  <2>11. Split(s, Blank) = <<<<x>>>> \o Split(r, Blank)
    BY <1>1, <2>4, <2>5, <2>7, <2>10, SplitAt
  <2>12. (<<<<x>>>> \o Split(r, Blank))[1] = <<x>>
    <3>1. <<<<x>>>> \in Seq(Seq(W)) /\ Len(<<<<x>>>>) = 1 /\ <<<<x>>>>[1] = <<x>>
      BY <1>1
    <3>2. Split(r, Blank) \in Seq(Seq(W)) /\ 1 \in 1..1
      BY <2>4, SplitTyped DEF Parts
    <3> QED BY <3>1, <3>2, Glued
  <2> QED BY <1>4, <1>5, <1>6, <2>11, <2>12 DEF t
<1> QED BY <1>8, <1>9

(* Where a pattern is.                                                     *)
At(t, m, i) == i + Len(m) - 1 <= Len(t) /\ \A k \in 1..Len(m) : t[i + k - 1] = m[k]

LEMMA PrefixOf ==
    ASSUME NEW W, NEW m \in Seq(W), NEW s \in Seq(W)
    PROVE  Texts!IsPrefix(m, s) <=> Len(m) <= Len(s) /\ \A k \in 1..Len(m) : m[k] = s[k]
BY DEF Texts!IsPrefix

LEMMA Matching ==
    ASSUME NEW W, NEW t \in Seq(W), NEW m \in Seq(W)
    PROVE  \A i : i \in Matches(t, m) <=> i \in 1..Len(t) /\ At(t, m, i)
<1> SUFFICES ASSUME NEW i \in 1..Len(t) PROVE Texts!IsPrefix(m, SubSeq(t, i, Len(t))) <=> At(t, m, i)
  BY DEF Matches
<1>1. PICK s : s = SubSeq(t, i, Len(t))
  OBVIOUS
<1>2. Len(t) \in Nat /\ Len(m) \in Nat /\ i \in Int
  OBVIOUS
<1>3. s \in Seq(W) /\ Len(s) = Len(t) - i + 1 /\ \A k \in 1..(Len(t) - i + 1) : s[k] = t[i + k - 1]
  <2>1. \A k \in i..Len(t) : t[k] \in W
    BY <1>2
  <2>2. /\ SubSeq(t, i, Len(t)) \in Seq(W)
        /\ Len(SubSeq(t, i, Len(t))) = IF i <= Len(t) THEN Len(t) - i + 1 ELSE 0
        /\ \A k \in 1..(Len(t) - i + 1) : SubSeq(t, i, Len(t))[k] = t[i + k - 1]
    BY <1>2, <2>1, SubSeqProperties
  <2> QED BY <1>1, <1>2, <2>2
<1>4. Texts!IsPrefix(m, s) <=> Len(m) <= Len(s) /\ \A k \in 1..Len(m) : m[k] = s[k]
  BY <1>3, PrefixOf
<1>5. Len(m) <= Len(s) <=> i + Len(m) - 1 <= Len(t)
  BY <1>2, <1>3
<1>6. ASSUME Len(m) <= Len(s), NEW k \in 1..Len(m) PROVE s[k] = t[i + k - 1]
  <2>1. k \in 1..(Len(t) - i + 1)
    BY <1>2, <1>3, <1>6
  <2> QED BY <1>3, <2>1
<1>7. ASSUME Texts!IsPrefix(m, s) PROVE At(t, m, i)
  BY <1>4, <1>5, <1>6, <1>7 DEF At
<1>8. ASSUME At(t, m, i) PROVE Texts!IsPrefix(m, s)
  <2>1. Len(m) <= Len(s)
    BY <1>5, <1>8 DEF At
  <2> QED BY <1>4, <1>6, <1>8, <2>1 DEF At
<1> QED BY <1>1, <1>7, <1>8

LEMMA NoMatch ==
    ASSUME NEW W, NEW c \in W, NEW t \in Seq(W) PROVE Matches(t, <<c>>) = {} <=> Plain(t, {c})
<1>1. <<c>> \in Seq(W) /\ Len(<<c>>) = 1 /\ <<c>>[1] = c
  BY OneSymbol
<1>2. \A i \in 1..Len(t) : At(t, <<c>>, i) <=> t[i] = c
  <2> TAKE i \in 1..Len(t)
  <2>1. i + 1 - 1 = i /\ i \in Int /\ Len(t) \in Nat
    OBVIOUS
  <2>2. \A k \in 1..1 : k = 1
    OBVIOUS
  <2> QED BY <1>1, <2>1, <2>2 DEF At
<1>3. \A i : i \in Matches(t, <<c>>) <=> i \in 1..Len(t) /\ At(t, <<c>>, i)
  BY <1>1, Matching
<1> QED BY <1>2, <1>3 DEF Plain

(* A text of three parts.                                                  *)
Made(t, p, m, r) == t = (p \o m) \o r

LEMMA MadeTyped ==
    ASSUME NEW W, NEW p \in Seq(W), NEW m \in Seq(W), NEW r \in Seq(W), NEW t, Made(t, p, m, r)
    PROVE  /\ t \in Seq(W) /\ Len(t) = Len(p) + Len(m) + Len(r)
           /\ Len(p) \in Nat /\ Len(m) \in Nat /\ Len(r) \in Nat
           /\ \A i \in 1..Len(p) : t[i] = p[i]
           /\ \A i \in 1..Len(m) : t[Len(p) + i] = m[i]
           /\ \A i \in 1..Len(r) : t[Len(p) + Len(m) + i] = r[i]
<1>1. PICK a : a = p \o m
  OBVIOUS
<1>2. /\ a \in Seq(W) /\ Len(a) = Len(p) + Len(m) /\ Len(p) \in Nat /\ Len(m) \in Nat /\ Len(r) \in Nat
      /\ \A i \in 1..Len(p) : a[i] = p[i]
      /\ \A i \in 1..Len(m) : a[Len(p) + i] = m[i]
  BY <1>1, Glued
<1>3. PICK s : s = a \o r
  OBVIOUS
<1>4. /\ s \in Seq(W) /\ Len(s) = Len(a) + Len(r)
      /\ \A i \in 1..Len(a) : s[i] = a[i]
      /\ \A i \in 1..Len(r) : s[Len(a) + i] = r[i]
  <2>1. a \in Seq(W)
    BY <1>2
  <2> QED BY <1>3, <2>1, Glued
<1>5. s = t
  BY <1>1, <1>3 DEF Made
<1>6. \A i \in 1..Len(p) : s[i] = p[i]
  BY <1>2, <1>4
<1>7. \A i \in 1..Len(m) : s[Len(p) + i] = m[i]
  <2> TAKE i \in 1..Len(m)
  <2>1. Len(p) + i \in 1..Len(a)
    BY <1>2
  <2> QED BY <1>2, <1>4, <2>1
<1>8. \A i \in 1..Len(r) : s[Len(p) + Len(m) + i] = r[i]
  BY <1>2, <1>4
<1> QED BY <1>2, <1>4, <1>5, <1>6, <1>7, <1>8

(* A text cut where the pattern stands.                                    *)
LEMMA CutAt ==
    ASSUME NEW W, NEW p \in Seq(W), NEW m \in Seq(W), NEW r \in Seq(W), NEW t, Made(t, p, m, r),
           NEW at, at = Len(p) + 1
    PROVE  Cut(t, at, m) = <<p, r>>
<1>1. /\ t \in Seq(W) /\ Len(t) = Len(p) + Len(m) + Len(r)
      /\ Len(p) \in Nat /\ Len(m) \in Nat /\ Len(r) \in Nat
      /\ \A i \in 1..Len(p) : t[i] = p[i]
      /\ \A i \in 1..Len(r) : t[Len(p) + Len(m) + i] = r[i]
  BY MadeTyped
<1>2. \A k \in 1..Len(t) : t[k] \in W
  BY <1>1
<1>3. SubSeq(t, 1, Len(p)) = p
  <2>1. PICK s, n : s = SubSeq(t, 1, n) /\ n = Len(p)
    OBVIOUS
  <2>2. n \in Nat /\ \A k \in 1..n : t[k] \in W
    BY <1>1, <1>2, <2>1
  <2>3. s \in Seq(W) /\ Len(s) = (IF 1 <= n THEN n - 1 + 1 ELSE 0) /\ \A k \in 1..(n - 1 + 1) : s[k] = t[1 + k - 1]
    BY <2>1, <2>2, SubSeqProperties
  <2>4. Len(s) = n /\ \A k \in 1..n : s[k] = t[k]
    BY <2>2, <2>3
  <2>5. \A k \in 1..Len(s) : s[k] = p[k]
    BY <1>1, <2>1, <2>4
  <2>6. s = p
    BY <2>1, <2>3, <2>4, <2>5, SeqEqual
  <2> QED BY <2>1, <2>6
<1>4. SubSeq(t, Len(p) + Len(m) + 1, Len(t)) = r
  <2>1. PICK s, f, n : s = SubSeq(t, f, n) /\ f = Len(p) + Len(m) + 1 /\ n = Len(t)
    OBVIOUS
  <2>2. f \in Nat /\ n \in Nat /\ n - f + 1 = Len(r) /\ f >= 1 /\ f - 1 = Len(p) + Len(m)
    BY <1>1, <2>1
  <2>3. \A k \in f..n : t[k] \in W
    BY <1>2, <2>1, <2>2
  <2>4. s \in Seq(W) /\ Len(s) = (IF f <= n THEN n - f + 1 ELSE 0) /\ \A k \in 1..(n - f + 1) : s[k] = t[f + k - 1]
    BY <2>1, <2>2, <2>3, SubSeqProperties
  <2>5. Len(s) = Len(r)
    BY <1>1, <2>2, <2>4
  <2>6. \A k \in 1..Len(s) : s[k] = r[k]
    <3> TAKE k \in 1..Len(s)
    <3>1. k \in 1..Len(r) /\ k \in 1..(n - f + 1) /\ f + k - 1 = Len(p) + Len(m) + k
      BY <1>1, <2>1, <2>2, <2>5
    <3> QED BY <1>1, <2>4, <3>1
  <2>7. s = r
    BY <2>4, <2>5, <2>6, SeqEqual
  <2> QED BY <2>1, <2>7
<1>5. at - 1 = Len(p) /\ at + Len(m) = Len(p) + Len(m) + 1
  BY <1>1
<1> QED BY <1>3, <1>4, <1>5 DEF Cut

LEMMA MatchHere ==
    ASSUME NEW W, NEW p \in Seq(W), NEW m \in Seq(W), m # <<>>, NEW r \in Seq(W), NEW t, Made(t, p, m, r)
    PROVE  Len(p) + 1 \in Matches(t, m)
<1>1. /\ t \in Seq(W) /\ Len(t) = Len(p) + Len(m) + Len(r)
      /\ Len(p) \in Nat /\ Len(m) \in Nat /\ Len(r) \in Nat
      /\ \A i \in 1..Len(m) : t[Len(p) + i] = m[i]
  BY MadeTyped
<1>2. \A k \in 1..Len(m) : t[(Len(p) + 1) + k - 1] = m[k]
  <2> TAKE k \in 1..Len(m)
  <2>1. (Len(p) + 1) + k - 1 = Len(p) + k
    BY <1>1
  <2> QED BY <1>1, <2>1
<1>3. Len(m) # 0
  OBVIOUS
<1>4. (Len(p) + 1) + Len(m) - 1 <= Len(t) /\ Len(p) + 1 \in 1..Len(t)
  BY <1>1, <1>3
<1>5. At(t, m, Len(p) + 1)
  BY <1>2, <1>4 DEF At
<1> QED BY <1>1, <1>4, <1>5, Matching

LEMMA SplitOnceAt ==
    ASSUME NEW W, NEW p \in Seq(W), NEW m \in Seq(W), m # <<>>, NEW r \in Seq(W), NEW t, Made(t, p, m, r),
           \A i \in Matches(t, m) : Len(p) + 1 <= i
    PROVE  SplitOnce(t, m) = <<p, r>>
<1>1. PICK at : at = Len(p) + 1
  OBVIOUS
<1>2. at \in Matches(t, m) /\ \A i \in Matches(t, m) : at <= i
  BY <1>1, MatchHere
<1>3. Matches(t, m) \subseteq Nat
  BY DEF Matches
<1>4. at = CHOOSE i \in Matches(t, m) : \A j \in Matches(t, m) : i <= j
  BY <1>2, <1>3
<1>5. Cut(t, at, m) = <<p, r>>
  BY <1>1, CutAt
<1> QED BY <1>4, <1>5 DEF SplitOnce

LEMMA RSplitOnceAt ==
    ASSUME NEW W, NEW p \in Seq(W), NEW m \in Seq(W), m # <<>>, NEW r \in Seq(W), NEW t, Made(t, p, m, r),
           \A i \in Matches(t, m) : Len(p) + 1 >= i
    PROVE  RSplitOnce(t, m) = <<p, r>>
<1>1. PICK at : at = Len(p) + 1
  OBVIOUS
<1>2. at \in Matches(t, m) /\ \A i \in Matches(t, m) : at >= i
  BY <1>1, MatchHere
<1>3. Matches(t, m) \subseteq Nat
  BY DEF Matches
<1>4. at = CHOOSE i \in Matches(t, m) : \A j \in Matches(t, m) : i >= j
  BY <1>2, <1>3
<1>5. Cut(t, at, m) = <<p, r>>
  BY <1>1, CutAt
<1> QED BY <1>4, <1>5 DEF RSplitOnce

(* Cut at the first c.                                                     *)
LEMMA SplitOnceBy ==
    ASSUME NEW W, NEW c \in W, NEW p \in Seq(W), Plain(p, {c}), NEW r \in Seq(W), NEW t, Made(t, p, <<c>>, r)
    PROVE  SplitOnce(t, <<c>>) = <<p, r>> /\ Matches(t, <<c>>) # {}
<1>1. PICK m : m = <<c>>
  OBVIOUS
<1>2. m \in Seq(W) /\ Len(m) = 1 /\ m[1] = c /\ m # <<>>
  BY <1>1, OneSymbol
<1>3. Made(t, p, m, r)
  BY <1>1
<1>5. t \in Seq(W) /\ Len(p) \in Nat /\ \A i \in 1..Len(p) : t[i] = p[i]
  BY <1>2, <1>3, MadeTyped
<1>6. ASSUME NEW i \in Matches(t, m) PROVE Len(p) + 1 <= i
  <2>1. i \in 1..Len(t) /\ At(t, m, i)
    BY <1>2, <1>5, <1>6, Matching
  <2>2. t[i] = c
    <3>1. i + 1 - 1 = i /\ 1 \in 1..1
      BY <2>1
    <3> QED BY <1>2, <2>1, <3>1 DEF At
  <2>3. ~(i \in 1..Len(p))
    BY <1>5, <2>2 DEF Plain
  <2> QED BY <1>5, <2>1, <2>3
<1>7. SplitOnce(t, m) = <<p, r>>
  BY <1>2, <1>3, <1>6, SplitOnceAt
<1>8. Matches(t, m) # {}
  BY <1>2, <1>3, MatchHere
<1> QED BY <1>1, <1>7, <1>8

-----------------------------------------------------------------------------
(* Joining. *)

Linked(text, part, c) == IF text = <<>> THEN part ELSE text \o <<c>> \o part

JoinStep(W, c) == [x \in Seq(W) \X Seq(W) |-> Linked(x[1], x[2], c)]

LEMMA JoinStepTyped ==
    ASSUME NEW W, NEW c \in W
    PROVE  /\ JoinStep(W, c) \in [Seq(W) \X Seq(W) -> Seq(W)] /\ <<>> \in Seq(W)
           /\ \A d \in Seq(W), x \in Seq(W) : JoinStep(W, c)[d, x] = Linked(d, x, c)
<1>1. \A d \in Seq(W), x \in Seq(W) : Linked(d, x, c) \in Seq(W)
  <2> TAKE d \in Seq(W), x \in Seq(W)
  <2>1. <<c>> \in Seq(W)
    BY OneSymbol
  <2>2. d \o <<c>> \in Seq(W)
    BY <2>1, Glued
  <2>3. d \o <<c>> \o x \in Seq(W)
    BY <2>2, Glued
  <2> QED BY <2>3 DEF Linked
<1>2. <<>> \in Seq(W)
  OBVIOUS
<1> DEFINE D == Seq(W)
<1> HIDE DEF D
<1> QED BY <1>1, <1>2, Zenon DEF JoinStep, D

LEMMA JoinRuns ==
    ASSUME NEW W, NEW c \in W, NEW t \in Seq(Seq(W))
    PROVE  FoldRun(t, JoinWith(c, t), JoinStep(W, c), <<>>, Seq(W))
<1> DEFINE n == Len(t)  D == Seq(W)  base == <<>>  step == JoinStep(W, c)
<1>1. n \in Nat /\ DOMAIN t = 1..n
  OBVIOUS
<1>2. step \in [D \X D -> D] /\ base \in D /\ \A d \in D, x \in D : step[d, x] = Linked(d, x, c)
  BY JoinStepTyped, Zenon
<1> DEFINE Solves(g) == g = [s \in SUBSET (1..n) |-> IF s = {} THEN base
                                      ELSE Linked(g[s \ {Texts!Max(s)}], t[Texts!Max(s)], c)]
<1>3. JoinWith(c, t) = (CHOOSE g : Solves(g))[1..n]
  BY <1>1 DEF JoinWith, Texts!FoldLeft, Texts!MapThenFoldSet, Linked
<1>0. t \in Seq(D)
  OBVIOUS
<1> HIDE DEF D, base, step
<1>4. PICK f \in [SUBSET (1..n) -> D] : Solution(f, t, step, base, D)
  BY <1>0, <1>2, Solvable, Zenon
<1>5. \A s \in SUBSET (1..n) : s # {} => /\ Texts!Max(s) = Seqs!Max(s) /\ t[Seqs!Max(s)] \in D
                                         /\ s \ {Seqs!Max(s)} \in SUBSET (1..n)
  BY <1>0, Maxima
<1>6. f = [s \in SUBSET (1..n) |-> f[s]]
  OBVIOUS
<1>7. \A s \in SUBSET (1..n) : f[s] = IF s = {} THEN base ELSE Linked(f[s \ {Texts!Max(s)}], t[Texts!Max(s)], c)
  BY <1>2, <1>4, <1>5, Zenon DEF Solution
<1>8. Solves(f)
  BY <1>6, <1>7
<1>9. PICK g : Solves(g) /\ JoinWith(c, t) = g[1..n]
  <2>1. Solves(CHOOSE g : Solves(g))
    BY <1>8
  <2> HIDE DEF Solves
  <2> QED BY <1>3, <2>1
<1>10. Solution(g, t, step, base, D)
  <2>1. g[{}] = base
    BY <1>9
  <2>2. ASSUME NEW s \in SUBSET (1..n), s # {}, g[s \ {Seqs!Max(s)}] \in D
        PROVE  g[s] = step[g[s \ {Seqs!Max(s)}], t[Seqs!Max(s)]]
    <3>1. g[s] = Linked(g[s \ {Texts!Max(s)}], t[Texts!Max(s)], c)
      BY <1>9, <2>2
    <3> QED BY <1>2, <1>5, <2>2, <3>1, Zenon
  <2> QED BY <2>1, <2>2, Zenon DEF Solution
<1> HIDE DEF Solves
<1>11. FoldRun(t, g[1..n], step, base, D)
  BY <1>0, <1>2, <1>10, Solved, Zenon
<1> QED BY <1>9, <1>11 DEF D, base, step

LEMMA JoinGrows ==
    ASSUME NEW W, NEW c \in W
    PROVE  /\ JoinWith(c, <<>>) = <<>>
           /\ \A t \in Seq(Seq(W)) : JoinWith(c, t) \in Seq(W)
           /\ \A t \in Seq(Seq(W)) : \A x \in Seq(W) : JoinWith(c, Append(t, x)) = Linked(JoinWith(c, t), x, c)
<1>1. ASSUME NEW t \in Seq(Seq(W)) PROVE JoinWith(c, t) \in Seq(W)
  BY JoinRuns, FoldTyped
<1>2. JoinWith(c, <<>>) = <<>>
  <2>1. <<>> \in Seq(Seq(W))
    OBVIOUS
  <2>2. FoldRun(<<>>, JoinWith(c, <<>>), JoinStep(W, c), <<>>, Seq(W))
    BY <2>1, JoinRuns
  <2> QED BY <2>2, FoldStarts
<1>3. ASSUME NEW t \in Seq(Seq(W)), NEW x \in Seq(W) PROVE JoinWith(c, Append(t, x)) = Linked(JoinWith(c, t), x, c)
  <2>1. PICK s, U : U = Seq(W) /\ s = Append(t, x)
    OBVIOUS
  <2>2. s \in Seq(U) /\ t \in Seq(U) /\ x \in U
    BY <1>3, <2>1, Appended
  <2>3. /\ FoldRun(t, JoinWith(c, t), JoinStep(W, c), <<>>, Seq(W))
        /\ FoldRun(s, JoinWith(c, s), JoinStep(W, c), <<>>, Seq(W))
    BY <2>1, <2>2, JoinRuns
  <2>4. JoinWith(c, s) = JoinStep(W, c)[JoinWith(c, t), x]
    <3>1. Steps(JoinStep(W, c), JoinWith(c, t), x, JoinWith(c, s))
      BY <2>1, <2>2, <2>3, FoldGrows
    <3> QED BY <3>1, Zenon DEF Steps
  <2> QED BY <1>1, <1>3, <2>1, <2>4, JoinStepTyped, Zenon
<1> QED BY <1>1, <1>2, <1>3

-----------------------------------------------------------------------------
(* Maps of keys to values. *)

(* What keys and queries are made of, and what a source path is.           *)
Word == Symbol \cup TextFields \cup {"type"}
Wide == Word \cup {"s3", "memory"}

Maps == UNION {[K -> Seq(Wide)] : K \in SUBSET Seq(Word)}

LEMMA Words ==
    /\ Word \subseteq Wide /\ QueryFields \subseteq Word /\ Symbol \subseteq Word
    /\ "=" \in Word /\ "&" \in Word /\ "?" \in Word /\ "," \in Word /\ Blank \in Word /\ "/" \in Word
    /\ "type" \in Word /\ "name" \in Word /\ "secret" \in Word
    /\ Seq(Word) \subseteq Seq(Wide) /\ Seq(Symbol) \subseteq Seq(Word)
<1>1. /\ Word \subseteq Wide /\ QueryFields \subseteq Word /\ Symbol \subseteq Word
      /\ "=" \in Word /\ "&" \in Word /\ "?" \in Word /\ "," \in Word /\ Blank \in Word /\ "/" \in Word
      /\ "type" \in Word /\ "name" \in Word /\ "secret" \in Word
  BY Zenon DEF Word, Wide, QueryFields, TextFields, Symbol, Typed, Delimiter, Blank
<1> QED BY <1>1, SeqMonotonic, Zenon

LEMMA Inserted ==
    ASSUME NEW map \in Maps, NEW key \in Seq(Word), NEW value \in Seq(Wide)
    PROVE  /\ Insert(map, key, value) \in Maps
           /\ DOMAIN Insert(map, key, value) = DOMAIN map \cup {key}
           /\ Insert(map, key, value)[key] = value
           /\ \A k \in DOMAIN map : k # key => Insert(map, key, value)[k] = map[k]
<1> DEFINE U == Seq(Wide)  S == Seq(Word)
<1>1. PICK K \in SUBSET S : map \in [K -> U]
  BY DEF Maps
<1>2. key \in S /\ value \in U
  OBVIOUS
<1>3. Maps = UNION {[L -> U] : L \in SUBSET S}
  BY DEF Maps
<1> HIDE DEF U, S
<1>4. DOMAIN map = K /\ K \cup {key} \in SUBSET S
  BY <1>1, <1>2
<1>5. Insert(map, key, value) \in [K \cup {key} -> U]
  BY <1>1, <1>2 DEF Insert
<1>6. Insert(map, key, value) \in Maps
  BY <1>3, <1>4, <1>5
<1> QED BY <1>4, <1>6 DEF Insert

LEMMA CutTyped ==
    ASSUME NEW W, NEW t \in Seq(W), NEW m \in Seq(W), Matches(t, m) # {}
    PROVE  SplitOnce(t, m)[1] \in Seq(W) /\ SplitOnce(t, m)[2] \in Seq(W)
<1>1. Len(t) \in Nat /\ Len(m) \in Nat /\ \A k \in 1..Len(t) : t[k] \in W
  OBVIOUS
<1>2. Matches(t, m) \in SUBSET Nat /\ Matches(t, m) \subseteq 1..Len(t)
  BY DEF Matches
<1>3. \E i \in Matches(t, m) : \A j \in Matches(t, m) : i <= j
  BY <1>2, LeastNat
<1>4. PICK at \in 1..Len(t) : SplitOnce(t, m) = Cut(t, at, m)
  BY <1>2, <1>3 DEF SplitOnce
<1>5. SubSeq(t, 1, at - 1) \in Seq(W)
  <2>1. 1 \in Int /\ at - 1 \in Int /\ \A k \in 1..(at - 1) : t[k] \in W
    BY <1>1
  <2> QED BY <2>1, SubSeqProperties
<1>6. SubSeq(t, at + Len(m), Len(t)) \in Seq(W)
  <2>1. at + Len(m) \in Int /\ Len(t) \in Int /\ \A k \in (at + Len(m))..Len(t) : t[k] \in W
    BY <1>1
  <2> QED BY <2>1, SubSeqProperties
<1> QED BY <1>4, <1>5, <1>6 DEF Cut

(* What is looked at for a pair; the first token of the options has none.  *)
Piece == Seq(Word) \cup {<<"-o">>}

LEMMA NoPairInFlag == Matches(<<"-o">>, <<"=">>) = {}
<1>1. PICK W : W = {"-o", "="}
  OBVIOUS
<1>2. "-o" \in W /\ "=" \in W
  BY <1>1
<1>3. <<"-o">> \in Seq(W) /\ Len(<<"-o">>) = 1 /\ <<"-o">>[1] = "-o"
  BY <1>2, OneSymbol
<1>4. Plain(<<"-o">>, {"="})
  BY <1>3 DEF Plain
<1> QED BY <1>2, <1>3, <1>4, NoMatch

LEMMA AddPairTyped ==
    ASSUME NEW map \in Maps, NEW part \in Piece
    PROVE  AddPair(map, part) \in Maps /\ DOMAIN map \subseteq DOMAIN AddPair(map, part)
<1>1. CASE Matches(part, <<"=">>) = {}
  BY <1>1 DEF AddPair
<1>2. CASE Matches(part, <<"=">>) # {}
  <2>1. <<"=">> \in Seq(Word) /\ part \in Seq(Word)
    BY <1>2, Words, OneSymbol, NoPairInFlag, Zenon DEF Piece
  <2>2. SplitOnce(part, <<"=">>)[1] \in Seq(Word) /\ SplitOnce(part, <<"=">>)[2] \in Seq(Word)
    BY <1>2, <2>1, CutTyped
  <2>3. Trim(SplitOnce(part, <<"=">>)[1]) \in Seq(Word) /\ SplitOnce(part, <<"=">>)[2] \in Seq(Wide)
    BY <2>2, TrimTyped, Words, Zenon
  <2>4. AddPair(map, part) = Insert(map, Trim(SplitOnce(part, <<"=">>)[1]), SplitOnce(part, <<"=">>)[2])
    BY <1>2 DEF AddPair
  <2>5. PICK k, v : k = Trim(SplitOnce(part, <<"=">>)[1]) /\ v = SplitOnce(part, <<"=">>)[2]
    OBVIOUS
  <2>6. k \in Seq(Word) /\ v \in Seq(Wide) /\ AddPair(map, part) = Insert(map, k, v)
    BY <2>3, <2>4, <2>5
  <2>7. Insert(map, k, v) \in Maps /\ DOMAIN Insert(map, k, v) = DOMAIN map \cup {k}
    BY <2>6, Inserted
  <2> QED BY <2>6, <2>7
<1> QED BY <1>1, <1>2

LEMMA TwoSymbols == ASSUME NEW W, NEW x \in W, NEW y \in W PROVE <<x>> \o <<y>> = <<x, y>> /\ <<x, y>> \in Seq(W)
<1> DEFINE s == <<x>> \o <<y>>
<1>1. <<x>> \in Seq(W) /\ <<y>> \in Seq(W) /\ <<x, y>> \in Seq(W)
  OBVIOUS
<1>2. Len(s) = 2 /\ s[1] = x /\ s[2] = y
  BY <1>1
<1>3. s \in Seq(W)
  BY <1>1
<1> HIDE DEF s
<1>4. s = <<x, y>>
  BY <1>2, <1>3
<1> QED BY <1>1, <1>4 DEF s

(* What `key=value` adds.                                                  *)
LEMMA PairAdded ==
    ASSUME NEW map, NEW k \in Word, k \notin {"=", Blank}, NEW value \in Seq(Word)
    PROVE  AddPair(map, <<k, "=">> \o value) = Insert(map, <<k>>, value)
<1>1. PICK p, t : p = <<k>> /\ t = <<k, "=">> \o value
  OBVIOUS
<1>2. <<k>> \o <<"=">> = <<k, "=">>
  BY Words, TwoSymbols, Zenon
<1>3. Made(t, p, <<"=">>, value)
  BY <1>1, <1>2 DEF Made
<1>4. "=" \in Word /\ k # "=" /\ k # Blank
  BY Words, Zenon
<1>5. p \in Seq(Word) /\ Len(p) = 1 /\ p[1] = k
  BY <1>1, OneSymbol
<1>6. Plain(p, {"="})
  BY <1>4, <1>5 DEF Plain
<1>7. SplitOnce(t, <<"=">>) = <<p, value>> /\ Matches(t, <<"=">>) # {}
  BY <1>3, <1>4, <1>5, <1>6, SplitOnceBy
<1>8. Trim(p) = p
  BY <1>1, <1>4, TrimOne
<1>9. AddPair(map, t) = Insert(map, Trim(p), value)
  BY <1>7 DEF AddPair
<1> QED BY <1>1, <1>8, <1>9

AddAll(map, parts) == Texts!FoldLeft(AddPair, map, parts)

AddStep == [x \in Maps \X Piece |-> AddPair(x[1], x[2])]

LEMMA AddStepTyped ==
    /\ AddStep \in [Maps \X Piece -> Maps]
    /\ \A d \in Maps, x \in Piece : AddStep[d, x] = AddPair(d, x)
<1>1. \A d \in Maps, x \in Piece : AddPair(d, x) \in Maps
  BY AddPairTyped
<1> QED BY <1>1, Zenon DEF AddStep

LEMMA AddRuns ==
    ASSUME NEW base \in Maps, NEW t \in Seq(Piece)
    PROVE  FoldRun(t, AddAll(base, t), AddStep, base, Maps)
<1> DEFINE n == Len(t)  D == Maps  X == Piece  step == AddStep
<1>1. n \in Nat /\ DOMAIN t = 1..n
  OBVIOUS
<1>2. step \in [D \X X -> D] /\ base \in D /\ \A d \in D, x \in X : step[d, x] = AddPair(d, x)
  BY AddStepTyped, Zenon
<1> DEFINE Solves(g) == g = [s \in SUBSET (1..n) |-> IF s = {} THEN base
                                      ELSE AddPair(g[s \ {Texts!Max(s)}], t[Texts!Max(s)])]
<1>3. AddAll(base, t) = (CHOOSE g : Solves(g))[1..n]
  BY <1>1 DEF AddAll, Texts!FoldLeft, Texts!MapThenFoldSet
<1>0. t \in Seq(X)
  OBVIOUS
<1> HIDE DEF D, X, step
<1>4. PICK f \in [SUBSET (1..n) -> D] : Solution(f, t, step, base, D)
  BY <1>0, <1>2, Solvable, Zenon
<1>5. \A s \in SUBSET (1..n) : s # {} => /\ Texts!Max(s) = Seqs!Max(s) /\ t[Seqs!Max(s)] \in X
                                         /\ s \ {Seqs!Max(s)} \in SUBSET (1..n)
  BY <1>0, Maxima
<1>6. f = [s \in SUBSET (1..n) |-> f[s]]
  OBVIOUS
<1>7. \A s \in SUBSET (1..n) : f[s] = IF s = {} THEN base ELSE AddPair(f[s \ {Texts!Max(s)}], t[Texts!Max(s)])
  BY <1>2, <1>4, <1>5, Zenon DEF Solution
<1>8. Solves(f)
  BY <1>6, <1>7
<1>9. PICK g : Solves(g) /\ AddAll(base, t) = g[1..n]
  <2>1. Solves(CHOOSE g : Solves(g))
    BY <1>8
  <2> HIDE DEF Solves
  <2> QED BY <1>3, <2>1
<1>10. Solution(g, t, step, base, D)
  <2>1. g[{}] = base
    BY <1>9
  <2>2. ASSUME NEW s \in SUBSET (1..n), s # {}, g[s \ {Seqs!Max(s)}] \in D
        PROVE  g[s] = step[g[s \ {Seqs!Max(s)}], t[Seqs!Max(s)]]
    <3>1. g[s] = AddPair(g[s \ {Texts!Max(s)}], t[Texts!Max(s)])
      BY <1>9, <2>2
    <3> QED BY <1>2, <1>5, <2>2, <3>1, Zenon
  <2> QED BY <2>1, <2>2, Zenon DEF Solution
<1> HIDE DEF Solves
<1>11. FoldRun(t, g[1..n], step, base, D)
  BY <1>0, <1>2, <1>10, Solved, Zenon
<1> QED BY <1>9, <1>11 DEF D, X, step

LEMMA PiecesOfWords == Seq(Word) \subseteq Piece /\ Seq(Seq(Word)) \subseteq Seq(Piece) /\ <<>> \in Seq(Word)
<1>1. Seq(Word) \subseteq Piece
  BY DEF Piece
<1> QED BY <1>1, SeqMonotonic

LEMMA AddGrows ==
    ASSUME NEW base \in Maps
    PROVE  /\ AddAll(base, <<>>) = base
           /\ \A t \in Seq(Piece) : AddAll(base, t) \in Maps
           /\ \A t \in Seq(Piece) : \A x \in Piece : AddAll(base, Append(t, x)) = AddPair(AddAll(base, t), x)
<1>1. ASSUME NEW t \in Seq(Piece) PROVE AddAll(base, t) \in Maps
  BY AddRuns, FoldTyped
<1>2. AddAll(base, <<>>) = base
  <2>1. <<>> \in Seq(Piece)
    OBVIOUS
  <2>2. FoldRun(<<>>, AddAll(base, <<>>), AddStep, base, Maps)
    BY <2>1, AddRuns
  <2> QED BY <2>2, FoldStarts
<1>3. ASSUME NEW t \in Seq(Piece), NEW x \in Piece PROVE AddAll(base, Append(t, x)) = AddPair(AddAll(base, t), x)
  <2>1. PICK s, U : U = Piece /\ s = Append(t, x)
    OBVIOUS
  <2>2. s \in Seq(U) /\ t \in Seq(U) /\ x \in U
    BY <1>3, <2>1, Appended
  <2>3. FoldRun(t, AddAll(base, t), AddStep, base, Maps) /\ FoldRun(s, AddAll(base, s), AddStep, base, Maps)
    BY <2>1, <2>2, AddRuns
  <2>4. AddAll(base, s) = AddStep[AddAll(base, t), x]
    <3>1. Steps(AddStep, AddAll(base, t), x, AddAll(base, s))
      BY <2>1, <2>2, <2>3, FoldGrows
    <3> QED BY <3>1, Zenon DEF Steps
  <2> QED BY <1>1, <1>3, <2>1, <2>4, AddStepTyped, Zenon
<1> QED BY <1>1, <1>2, <1>3

-----------------------------------------------------------------------------
(* The query of the source path: its pairs joined, split again and added.  *)

(* What from_form lets through: fields without delimiters.                 *)
Clean(config) ==
    config.fields \in [QueryFields -> Seq(Word)] /\ \A k \in QueryFields : Plain(config.fields[k], Delimiter)

PairsOf(config, ks) == [i \in DOMAIN ks |-> Pair(config, ks[i])]

LEMMA PairTyped ==
    ASSUME NEW config, Clean(config), NEW k \in QueryFields
    PROVE  /\ Pair(config, k) \in Seq(Word) /\ Pair(config, k) # <<>> /\ Plain(Pair(config, k), {"&"})
           /\ \A map : AddPair(map, Pair(config, k)) = Insert(map, <<k>>, config.fields[k])
<1>1. k \in Word /\ "=" \in Word /\ k # "=" /\ k # "&" /\ k # Blank
  BY Words, Zenon DEF QueryFields, Blank
<1>2. PICK p, v : p = <<k, "=">> /\ v = config.fields[k]
  OBVIOUS
<1>3. v \in Seq(Word) /\ Plain(v, {"&"})
  BY <1>2 DEF Clean, Plain, Delimiter
<1>4. p \in Seq(Word) /\ Len(p) = 2 /\ p[1] = k /\ p[2] = "="
  <2>1. p \in Seq(Word)
    BY <1>1, <1>2, TwoSymbols
  <2> QED BY <1>2, <2>1
<1>5. Plain(p, {"&"})
  BY <1>1, <1>4 DEF Plain
<1>6. p \o v \in Seq(Word) /\ Len(p \o v) = Len(p) + Len(v) /\ Len(v) \in Nat
  BY <1>3, <1>4, Glued
<1>7. Plain(p \o v, {"&"})
  BY <1>3, <1>4, <1>5, PlainParts
<1>8. p \o v # <<>>
  BY <1>4, <1>6
<1>9. Pair(config, k) = p \o v
  BY <1>2 DEF Pair
<1>10. ASSUME NEW map PROVE AddPair(map, <<k, "=">> \o v) = Insert(map, <<k>>, v)
  <2>1. k \notin {"=", Blank}
    BY <1>1
  <2> QED BY <1>1, <1>3, <2>1, PairAdded
<1> QED BY <1>2, <1>6, <1>7, <1>8, <1>9, <1>10

LEMMA FunctionsAreTexts ==
    ASSUME NEW U, NEW m \in Nat, NEW f \in [1..m -> U] PROVE f \in Seq(U) /\ Len(f) = m
OBVIOUS

LEMMA PairsAppend ==
    ASSUME NEW config, Clean(config), NEW ks \in Seq(QueryFields), NEW k \in QueryFields,
           PairsOf(config, ks) \in Seq(Seq(Word))
    PROVE  /\ PairsOf(config, Append(ks, k)) = Append(PairsOf(config, ks), Pair(config, k))
           /\ PairsOf(config, Append(ks, k)) \in Seq(Seq(Word))
<1>1. PICK U, P, x : U = Seq(Word) /\ P = PairsOf(config, ks) /\ x = Pair(config, k)
  OBVIOUS
<1>2. P \in Seq(U) /\ x \in U
  BY <1>1, PairTyped
<1>3. Append(P, x) \in Seq(U) /\ Len(Append(P, x)) = Len(P) + 1 /\ Append(P, x)[Len(P) + 1] = x
      /\ Len(P) \in Nat /\ \A i \in 1..Len(P) : Append(P, x)[i] = P[i]
  BY <1>2
<1>4. Len(Append(ks, k)) = Len(ks) + 1 /\ Append(ks, k)[Len(ks) + 1] = k /\ Len(ks) \in Nat
      /\ DOMAIN ks = 1..Len(ks) /\ DOMAIN Append(ks, k) = 1..(Len(ks) + 1)
      /\ \A i \in 1..Len(ks) : Append(ks, k)[i] = ks[i]
  OBVIOUS
<1>5. Len(P) = Len(ks) /\ \A i \in 1..Len(ks) : P[i] = Pair(config, ks[i])
  <2>1. DOMAIN P = 1..Len(ks) /\ \A i \in 1..Len(ks) : P[i] = Pair(config, ks[i])
    BY <1>1, <1>4 DEF PairsOf
  <2> QED BY <1>2, <1>4, <2>1, LenProperties
<1>6. PICK Q, A, n : Q = PairsOf(config, Append(ks, k)) /\ A = Append(P, x) /\ n = Len(ks)
  OBVIOUS
<1>7. n \in Nat /\ \A i \in 1..(n + 1) : i = n + 1 \/ i \in 1..n
  BY <1>4, <1>6
<1>8. \A i \in 1..(n + 1) : Append(ks, k)[i] \in QueryFields
  BY <1>4, <1>6, <1>7
<1>9. Q = [i \in 1..(n + 1) |-> Pair(config, Append(ks, k)[i])]
  BY <1>4, <1>6 DEF PairsOf
<1>10. \A i \in 1..(n + 1) : Q[i] \in U
  BY <1>1, <1>8, <1>9, PairTyped
<1>11. Q \in [1..(n + 1) -> U]
  BY <1>9, <1>10, Zenon
<1>12. Q \in Seq(U) /\ Len(Q) = n + 1
  <2>1. PICK m \in Nat : m = n + 1
    BY <1>7
  <2>2. Q \in [1..m -> U]
    BY <1>11, <2>1
  <2> QED BY <2>1, <2>2, FunctionsAreTexts
<1>13. A \in Seq(U) /\ Len(A) = n + 1 /\ A[n + 1] = x /\ \A i \in 1..n : A[i] = P[i]
  BY <1>3, <1>5, <1>6
<1>14. \A i \in 1..n : Q[i] = P[i]
  BY <1>4, <1>5, <1>6, <1>7, <1>9
<1>15. Q[n + 1] = x
  <2>1. n + 1 \in 1..(n + 1)
    BY <1>7
  <2> QED BY <1>1, <1>4, <1>6, <1>9, <2>1
<1>16. \A i \in 1..Len(Q) : Q[i] = A[i]
  BY <1>7, <1>12, <1>13, <1>14, <1>15
<1>17. Q = A
  BY <1>12, <1>13, <1>16, Same
<1> QED BY <1>1, <1>6, <1>12, <1>17

(* The pairs survive being joined by "&" and split at it.                  *)
Rejoins(P) == LET text == JoinWith("&", P) IN text # <<>> /\ Split(text, "&") = P

LEMMA QueryText ==
    ASSUME NEW config, Clean(config), NEW ks \in Seq(QueryFields)
    PROVE  /\ PairsOf(config, ks) \in Seq(Seq(Word))
           /\ ks # <<>> => Rejoins(PairsOf(config, ks))
<1> DEFINE T == {s \in Seq(QueryFields) : /\ PairsOf(config, s) \in Seq(Seq(Word))
                                          /\ IF s = <<>> THEN PairsOf(config, s) = <<>>
                                             ELSE Rejoins(PairsOf(config, s))}
<1>1. <<>> \in T
  <2>1. PairsOf(config, <<>>) = <<>>
    BY DEF PairsOf
  <2>2. <<>> \in Seq(Seq(Word)) /\ <<>> \in Seq(QueryFields)
    OBVIOUS
  <2> QED BY <2>1, <2>2
<1>2. ASSUME NEW s \in Seq(QueryFields), NEW k \in QueryFields, s \in T PROVE Append(s, k) \in T
  <2>1. PICK P, x : P = PairsOf(config, s) /\ x = Pair(config, k)
    OBVIOUS
  <2>2. P \in Seq(Seq(Word)) /\ x \in Seq(Word) /\ x # <<>> /\ Plain(x, {"&"}) /\ "&" \in Word
    BY <1>2, <2>1, PairTyped, Words, Zenon
  <2>3. PairsOf(config, Append(s, k)) = Append(P, x) /\ Append(P, x) \in Seq(Seq(Word))
    BY <1>2, <2>1, PairsAppend
  <2>4. PICK text : text = JoinWith("&", P)
    OBVIOUS
  <2>5. text \in Seq(Word) /\ JoinWith("&", Append(P, x)) = Linked(text, x, "&")
    BY <2>2, <2>4, JoinGrows
  <2>8. Append(s, k) \in Seq(QueryFields) /\ Append(s, k) # <<>>
    BY <1>2
  <2>9. Rejoins(Append(P, x))
    <3>1. CASE s = <<>>
      <4>1. P = <<>> /\ text = <<>>
        BY <1>2, <2>1, <2>2, <2>4, <3>1, JoinGrows
      <4>2. Append(P, x) = <<x>>
        BY <4>1
      <4>3. Split(x, "&") = <<x>>
        BY <2>2, SplitPlain
      <4> QED BY <2>2, <2>5, <4>1, <4>2, <4>3 DEF Rejoins, Linked
    <3>2. CASE s # <<>>
      <4>1. text # <<>> /\ Split(text, "&") = P
        BY <1>2, <2>1, <2>4, <3>2 DEF Rejoins
      <4>2. Split((text \o <<"&">>) \o x, "&") = Append(P, x)
        BY <2>2, <2>5, <4>1, SplitLast
      <4>3. (text \o <<"&">>) \o x # <<>>
        <5>1. PICK q : q = text \o <<"&">>
          OBVIOUS
        <5>2. q \in Seq(Word)
          BY <2>2, <2>5, <5>1, OneSymbol, Glued
        <5>3. Len(q \o x) = Len(q) + Len(x) /\ Len(q) \in Nat /\ Len(x) \in Nat
          BY <2>2, <5>2, Glued
        <5> QED BY <2>2, <5>1, <5>3
      <4> QED BY <2>5, <4>1, <4>2, <4>3 DEF Rejoins, Linked
    <3> QED BY <3>1, <3>2
  <2> QED BY <2>3, <2>8, <2>9
<1> HIDE DEF T
<1>3. Seq(QueryFields) \subseteq T
  BY <1>1, <1>2, TextInduction
<1> QED BY <1>3 DEF T

(* What a map holds once the fields named in K are added to the base.      *)
Given(config, K, base, d) ==
    /\ d \in Maps
    /\ DOMAIN d = DOMAIN base \cup {<<k>> : k \in K}
    /\ \A k \in K : d[<<k>>] = config.fields[k]
    /\ \A x \in DOMAIN base : (\A k \in K : x # <<k>>) => d[x] = base[x]

KeysOf(ks) == {ks[i] : i \in 1..Len(ks)}

LEMMA GivenMore ==
    ASSUME NEW config, Clean(config), NEW K \in SUBSET QueryFields, NEW base \in Maps, NEW d,
           Given(config, K, base, d), NEW k \in QueryFields, NEW e, e = Insert(d, <<k>>, config.fields[k])
    PROVE  Given(config, K \cup {k}, base, e)
<1>1. PICK v, s : v = config.fields[k] /\ s = <<k>>
  OBVIOUS
<1>2. v \in Seq(Wide) /\ s \in Seq(Word) /\ d \in Maps
  <2>1. v \in Seq(Word)
    BY <1>1 DEF Clean
  <2>2. k \in Word
    BY Words, Zenon
  <2> QED BY <1>1, <2>1, <2>2, Words, OneSymbol, Zenon DEF Given
<1>3. /\ e \in Maps /\ DOMAIN e = DOMAIN d \cup {s} /\ e[s] = v
      /\ \A x \in DOMAIN d : x # s => e[x] = d[x]
  <2>1. /\ Insert(d, s, v) \in Maps /\ DOMAIN Insert(d, s, v) = DOMAIN d \cup {s}
        /\ Insert(d, s, v)[s] = v /\ \A x \in DOMAIN d : x # s => Insert(d, s, v)[x] = d[x]
    BY <1>2, Inserted, ZenonT(60)
  <2>2. e = Insert(d, s, v)
    BY <1>1
  <2> QED BY <2>1, <2>2
<1>4. \A a, b : <<a>> = <<b>> => a = b
  OBVIOUS
<1>5. {<<a>> : a \in K \cup {k}} = {<<a>> : a \in K} \cup {s}
  BY <1>1
<1>6. DOMAIN e = DOMAIN base \cup {<<a>> : a \in K \cup {k}}
  BY <1>3, <1>5 DEF Given
<1>7. \A a \in K \cup {k} : e[<<a>>] = config.fields[a]
  <2> TAKE a \in K \cup {k}
  <2>1. CASE a = k
    BY <1>1, <1>3, <2>1
  <2>2. CASE a # k
    <3>1. a \in K /\ <<a>> # s /\ <<a>> \in DOMAIN d
      BY <1>1, <1>4, <2>2 DEF Given
    <3> QED BY <1>3, <3>1 DEF Given
  <2> QED BY <2>1, <2>2
<1>8. \A x \in DOMAIN base : (\A a \in K \cup {k} : x # <<a>>) => e[x] = base[x]
  BY <1>1, <1>3 DEF Given
<1> QED BY <1>3, <1>6, <1>7, <1>8 DEF Given

LEMMA KeysMore ==
    ASSUME NEW W, NEW ks \in Seq(W), NEW k \in W PROVE KeysOf(Append(ks, k)) = KeysOf(ks) \cup {k} /\ KeysOf(ks) \subseteq W
<1>1. /\ Len(Append(ks, k)) = Len(ks) + 1 /\ Append(ks, k)[Len(ks) + 1] = k /\ Len(ks) \in Nat
      /\ \A i \in 1..Len(ks) : Append(ks, k)[i] = ks[i] /\ ks[i] \in W
  OBVIOUS
<1>2. \A i \in 1..(Len(ks) + 1) : i \in 1..Len(ks) \/ i = Len(ks) + 1
  BY <1>1
<1> QED BY <1>1, <1>2 DEF KeysOf

LEMMA QueryRead ==
    ASSUME NEW config, Clean(config), NEW base \in Maps, NEW ks \in Seq(QueryFields)
    PROVE  Given(config, KeysOf(ks), base, AddAll(base, PairsOf(config, ks)))
<1> DEFINE T == {s \in Seq(QueryFields) : Given(config, KeysOf(s), base, AddAll(base, PairsOf(config, s)))}
<1>1. <<>> \in T
  <2>1. PairsOf(config, <<>>) = <<>> /\ KeysOf(<<>>) = {}
    BY DEF PairsOf, KeysOf
  <2>2. AddAll(base, <<>>) = base
    BY AddGrows
  <2>3. Given(config, {}, base, base)
    BY DEF Given
  <2>4. <<>> \in Seq(QueryFields)
    OBVIOUS
  <2> QED BY <2>1, <2>2, <2>3, <2>4
<1>2. ASSUME NEW s \in Seq(QueryFields), NEW k \in QueryFields, s \in T PROVE Append(s, k) \in T
  <2>1. PICK P, x : P = PairsOf(config, s) /\ x = Pair(config, k)
    OBVIOUS
  <2>2. P \in Seq(Seq(Word)) /\ x \in Seq(Word)
    BY <1>2, <2>1, PairTyped, QueryText
  <2>3. PairsOf(config, Append(s, k)) = Append(P, x)
    BY <1>2, <2>1, <2>2, PairsAppend
  <2>4. AddAll(base, Append(P, x)) = AddPair(AddAll(base, P), x)
    BY <2>2, AddGrows, PiecesOfWords
  <2>5. AddPair(AddAll(base, P), x) = Insert(AddAll(base, P), <<k>>, config.fields[k])
    BY <1>2, <2>1, PairTyped
  <2>6. KeysOf(Append(s, k)) = KeysOf(s) \cup {k} /\ KeysOf(s) \in SUBSET QueryFields
    BY <1>2, KeysMore
  <2>7. Given(config, KeysOf(s), base, AddAll(base, P))
    BY <1>2, <2>1
  <2>8. Given(config, KeysOf(s) \cup {k}, base, Insert(AddAll(base, P), <<k>>, config.fields[k]))
    BY <1>2, <2>6, <2>7, GivenMore
  <2>9. Append(s, k) \in Seq(QueryFields)
    BY <1>2, Appended
  <2> QED BY <2>3, <2>4, <2>5, <2>6, <2>8, <2>9
<1> HIDE DEF T
<1>3. Seq(QueryFields) \subseteq T
  BY <1>1, <1>2, TextInduction
<1> QED BY <1>3 DEF T

-----------------------------------------------------------------------------
(* What the extension reads off a source path.                             *)

LEMMA SlashTrimmed ==
    ASSUME NEW W, "/" \in W, NEW u \in Seq(W), u # <<>>, u[1] # "/"
    PROVE  TrimSlashes(<<"/">> \o u) = u
<1> DEFINE t == <<"/">> \o u
           I == {k \in 1..Len(t) : t[k] # "/"}
<1>1. /\ t \in Seq(W) /\ Len(t) = 1 + Len(u) /\ Len(u) \in Nat /\ Len(u) # 0
      /\ t[1] = "/" /\ \A i \in 1..Len(u) : t[1 + i] = u[i]
  <2>1. <<"/">> \in Seq(W) /\ Len(<<"/">>) = 1 /\ <<"/">>[1] = "/" /\ 1 \in 1..1
    BY OneSymbol
  <2> QED BY <2>1, Glued
<1> HIDE DEF t
<1>2. 2 \in I /\ \A k \in I : 2 <= k /\ k \in Int
  <2>1. t[2] = u[1] /\ 2 \in 1..Len(t)
    <3>1. 1 \in 1..Len(u)
      BY <1>1
    <3> QED BY <1>1, <3>1
  <2>2. ASSUME NEW k \in I PROVE 2 <= k
    <3>1. k \in 1..Len(t) /\ k # 1 /\ Len(t) \in Nat
      BY <1>1, <2>2
    <3> QED BY <3>1
  <2> QED BY <2>1, <2>2
<1>3. Texts!SelectInSeq(t, LAMBDA c : c # "/") = IF I # {} THEN Texts!Min(I) ELSE 0
  BY DEF Texts!SelectInSeq
<1>4. TrimSlashes(t) = IF Texts!SelectInSeq(t, LAMBDA c : c # "/") = 0 THEN <<>>
                       ELSE SubSeq(t, Texts!SelectInSeq(t, LAMBDA c : c # "/"), Len(t))
  BY DEF TrimSlashes
<1> HIDE DEF I
<1>5. Texts!Min(I) = 2
  <2>1. \E x \in I : \A y \in I : x <= y
    BY <1>2
  <2>2. Texts!Min(I) \in I /\ \A y \in I : Texts!Min(I) <= y
    BY <2>1 DEF Texts!Min
  <2> QED BY <1>2, <2>2
<1>6. TrimSlashes(t) = SubSeq(t, 2, Len(t))
  BY <1>2, <1>3, <1>4, <1>5
<1>7. PICK s : s = SubSeq(t, 2, Len(t))
  OBVIOUS
<1>8. s \in Seq(W) /\ Len(s) = Len(u) /\ \A k \in 1..Len(u) : s[k] = t[1 + k]
  <2>1. 2 \in Int /\ Len(t) \in Int /\ 2 <= Len(t) /\ \A k \in 2..Len(t) : t[k] \in W
    BY <1>1
  <2>2. /\ SubSeq(t, 2, Len(t)) \in Seq(W) /\ Len(SubSeq(t, 2, Len(t))) = Len(t) - 2 + 1
        /\ \A k \in 1..(Len(t) - 2 + 1) : SubSeq(t, 2, Len(t))[k] = t[2 + k - 1]
    BY <2>1, SubSeqProperties
  <2> QED BY <1>1, <1>7, <2>2
<1>9. s = u
  BY <1>1, <1>8, Same
<1> QED BY <1>6, <1>7, <1>9 DEF t

(* What the path before the query says.                                    *)
TypeOnly(type) == Insert(EmptyMap, <<"type">>, type)

S3Base(p) == IF p = <<>> THEN TypeOnly(<<"s3">>) ELSE Insert(TypeOnly(<<"s3">>), <<"name">>, p)

LEMMA TypesRead ==
    ASSUME NEW type \in Seq(Wide)
    PROVE  TypeOnly(type) \in Maps /\ DOMAIN TypeOnly(type) = {<<"type">>} /\ TypeOnly(type)[<<"type">>] = type
<1>1. EmptyMap \in Maps /\ DOMAIN EmptyMap = {}
  <2>1. EmptyMap \in [{} -> Seq(Wide)] /\ {} \in SUBSET Seq(Word)
    BY DEF EmptyMap
  <2> QED BY <2>1 DEF Maps, EmptyMap
<1>2. PICK k, e : k = <<"type">> /\ e = EmptyMap
  OBVIOUS
<1>3. k \in Seq(Word) /\ e \in Maps
  BY <1>1, <1>2, Words, OneSymbol, Zenon
<1>4. Insert(e, k, type) \in Maps /\ DOMAIN Insert(e, k, type) = DOMAIN e \cup {k} /\ Insert(e, k, type)[k] = type
  BY <1>3, Inserted
<1> QED BY <1>1, <1>2, <1>4 DEF TypeOnly

LEMMA OneApart == \A a, b : <<a>> = <<b>> => a = b
OBVIOUS

LEMMA BasesRead ==
    ASSUME NEW p \in Seq(Word)
    PROVE  /\ S3Base(p) \in Maps /\ DOMAIN S3Base(p) \subseteq {<<"type">>, <<"name">>}
           /\ <<"type">> \in DOMAIN S3Base(p) /\ S3Base(p)[<<"type">>] = <<"s3">>
           /\ p # <<>> => <<"name">> \in DOMAIN S3Base(p) /\ S3Base(p)[<<"name">>] = p
<1>1. "s3" \in Wide
  BY DEF Wide
<1>2. <<"s3">> \in Seq(Wide)
  BY <1>1, OneSymbol
<1>3. PICK d : d = TypeOnly(<<"s3">>)
  OBVIOUS
<1>4. d \in Maps /\ DOMAIN d = {<<"type">>} /\ d[<<"type">>] = <<"s3">>
  BY <1>2, <1>3, TypesRead
<1>5. PICK n, y : n = <<"name">> /\ y = <<"type">>
  OBVIOUS
<1>6. n \in Seq(Word) /\ n # y
  BY <1>5, Words, OneSymbol, OneApart, Zenon
<1>7. p \in Seq(Wide)
  BY Words, Zenon
<1>8. /\ Insert(d, n, p) \in Maps /\ DOMAIN Insert(d, n, p) = DOMAIN d \cup {n}
      /\ Insert(d, n, p)[n] = p /\ \A k \in DOMAIN d : k # n => Insert(d, n, p)[k] = d[k]
  BY <1>4, <1>6, <1>7, Inserted, ZenonT(60)
<1>9. CASE p = <<>>
  BY <1>3, <1>4, <1>9 DEF S3Base
<1>10. CASE p # <<>>
  <2>1. S3Base(p) = Insert(d, n, p)
    BY <1>3, <1>5, <1>10 DEF S3Base
  <2> QED BY <1>4, <1>5, <1>6, <1>8, <2>1
<1> QED BY <1>9, <1>10

Chained(a, b, p, q, r) == (((a \o b) \o p) \o q) \o r = a \o (((b \o p) \o q) \o r)

LEMMA Associate == ASSUME NEW W PROVE \A a, b, p, q, r \in Seq(W) : Chained(a, b, p, q, r)
<1>1. SUFFICES ASSUME NEW a \in Seq(W), NEW b \in Seq(W), NEW p \in Seq(W), NEW q \in Seq(W), NEW r \in Seq(W)
               PROVE  Chained(a, b, p, q, r)
  OBVIOUS
<1>2. PICK bp, bpq : bp = b \o p /\ bpq = bp \o q
  OBVIOUS
<1>3. a \in Seq(W) /\ b \in Seq(W) /\ p \in Seq(W)
  BY <1>1
<1>4. bp \in Seq(W)
  BY <1>2, <1>3
<1>5. q \in Seq(W)
  BY <1>1
<1>6. bpq \in Seq(W)
  BY <1>2, <1>4, <1>5
<1>7. r \in Seq(W) /\ a \in Seq(W)
  BY <1>1
<1>8. Glues(a, b, p)
  BY <1>3, Assoc, Zenon
<1>9. Glues(a, bp, q)
  BY <1>4, <1>5, <1>7, Assoc, Zenon
<1>10. Glues(a, bpq, r)
  BY <1>6, <1>7, Assoc, Zenon
<1> QED BY <1>2, <1>8, <1>9, <1>10, Zenon DEF Chained, Glues

LEMMA LongerStarts ==
    ASSUME NEW W, NEW p \in Seq(W), p # <<>>, NEW q \in Seq(W) PROVE (p \o q)[1] = p[1] /\ p \o q # <<>> /\ p \o q \in Seq(W)
OBVIOUS

(* A path of type s3: what follows up to the first "?" is the name.        *)
S3Path(t, p, r) == t = ((<<"/", "s3", "/">> \o p) \o <<"?">>) \o r

LEMMA S3PathTrimmed ==
    ASSUME NEW p \in Seq(Wide), NEW r \in Seq(Wide), NEW t, S3Path(t, p, r)
    PROVE  Made(TrimSlashes(t), <<"s3", "/">> \o p, <<"?">>, r)
<1>1. "/" \in Wide /\ "s3" \in Wide /\ "?" \in Wide
  BY Words, Zenon DEF Wide
<1>2. PICK a, b, c, q : a = <<"/">> /\ b = <<"s3", "/">> /\ c = <<"/", "s3", "/">> /\ q = <<"?">>
  OBVIOUS
<1>3. a \in Seq(Wide) /\ b \in Seq(Wide) /\ q \in Seq(Wide) /\ Len(b) = 2 /\ b[1] = "s3"
  <2>1. a \in Seq(Wide) /\ q \in Seq(Wide)
    BY <1>1, <1>2, OneSymbol
  <2>2. b \in Seq(Wide)
    BY <1>1, <1>2, TwoSymbols
  <2> QED BY <1>2, <2>1, <2>2
<1>0. a \in Seq(Wide) /\ b \in Seq(Wide) /\ q \in Seq(Wide)
  BY <1>3
<1>4. a \o b = c
  <2>1. PICK g : g = a \o b
    OBVIOUS
  <2>2. /\ g \in Seq(Wide) /\ Len(g) = Len(a) + Len(b)
        /\ \A i \in 1..Len(a) : g[i] = a[i]
        /\ \A i \in 1..Len(b) : g[Len(a) + i] = b[i]
    <3>1. /\ a \o b \in Seq(Wide) /\ Len(a \o b) = Len(a) + Len(b)
          /\ \A i \in 1..Len(a) : (a \o b)[i] = a[i]
          /\ \A i \in 1..Len(b) : (a \o b)[Len(a) + i] = b[i]
      BY <1>0, Glued
    <3> QED BY <2>1, <3>1
  <2>3. Len(a) = 1 /\ a[1] = "/" /\ Len(b) = 2 /\ b[1] = "s3" /\ b[2] = "/"
    BY <1>2
  <2>4. Len(g) = 3 /\ g[1] = "/" /\ g[2] = "s3" /\ g[3] = "/"
    <3>1. 1 \in 1..1 /\ 1 \in 1..2 /\ 2 \in 1..2
      OBVIOUS
    <3> QED BY <2>2, <2>3, <3>1
  <2>5. c \in Seq(Wide) /\ Len(c) = 3 /\ c[1] = "/" /\ c[2] = "s3" /\ c[3] = "/"
    BY <1>1, <1>2
  <2>6. \A i \in 1..Len(g) : g[i] = c[i]
    BY <2>4, <2>5
  <2> QED BY <2>1, <2>2, <2>4, <2>5, <2>6, Same
<1>5. PICK bp, bpq, u : bp = b \o p /\ bpq = bp \o q /\ u = bpq \o r
  OBVIOUS
<1>6. bp \in Seq(Wide) /\ bpq \in Seq(Wide) /\ u \in Seq(Wide)
  BY <1>3, <1>5, Glued
<1>10. t = a \o u
  <2>1. Chained(a, b, p, q, r)
    <3>1. p \in Seq(Wide) /\ r \in Seq(Wide)
      OBVIOUS
    <3> QED BY <1>0, <3>1, Associate, Zenon
  <2> QED BY <1>2, <1>4, <1>5, <2>1, Zenon DEF S3Path, Chained
<1>11. u # <<>> /\ u[1] = "s3"
  <2>1. b # <<>>
    BY <1>2
  <2>2. (b \o p)[1] = b[1] /\ b \o p # <<>>
    BY <1>0, <2>1, LongerStarts
  <2>3. bp # <<>> /\ bp[1] = b[1]
    BY <1>5, <2>2
  <2>4. (bp \o q)[1] = bp[1] /\ bp \o q # <<>>
    BY <1>0, <1>6, <2>3, LongerStarts
  <2>5. bpq # <<>> /\ bpq[1] = bp[1]
    BY <1>5, <2>4
  <2>6. (bpq \o r)[1] = bpq[1] /\ bpq \o r # <<>>
    BY <1>6, <2>5, LongerStarts
  <2> QED BY <1>3, <1>5, <2>3, <2>5, <2>6
<1>12. TrimSlashes(t) = u
  BY <1>1, <1>2, <1>6, <1>10, <1>11, SlashTrimmed
<1> QED BY <1>2, <1>5, <1>12 DEF Made

LEMMA S3PathRead ==
    ASSUME NEW p \in Seq(Word), Plain(p, {"?"}), NEW r \in Seq(Word), NEW t, S3Path(t, p, r)
    PROVE  ParseSourcePath(t) = AddAll(S3Base(p), Split(r, "&"))
<1>1. "/" \in Wide /\ "s3" \in Wide /\ "?" \in Wide /\ p \in Seq(Wide) /\ r \in Seq(Wide)
  BY Words, Zenon DEF Wide
<1>2. PICK b, bp, u : b = <<"s3", "/">> /\ bp = b \o p /\ u = TrimSlashes(t)
  OBVIOUS
<1>3. b \in Seq(Wide) /\ Len(b) = 2 /\ b[1] = "s3" /\ b[2] = "/"
  <2>1. b \in Seq(Wide)
    BY <1>1, <1>2, TwoSymbols
  <2> QED BY <1>2, <2>1
<1>4. bp \in Seq(Wide) /\ Plain(bp, {"?"})
  <2>1. Plain(b, {"?"})
    BY <1>3 DEF Plain
  <2> QED BY <1>1, <1>2, <1>3, <2>1, Glued, PlainParts
<1>5. Made(u, bp, <<"?">>, r)
  BY <1>1, <1>2, S3PathTrimmed
<1>6. SplitOnce(u, <<"?">>) = <<bp, r>> /\ Matches(u, <<"?">>) # {}
  BY <1>1, <1>4, <1>5, SplitOnceBy
<1>7. PICK e, y : e = <<>> /\ y = <<"s3">>
  OBVIOUS
<1>8. e \in Seq(Wide) /\ y \in Seq(Wide) /\ Len(y) = 1 /\ y[1] = "s3" /\ y # <<>>
  BY <1>1, <1>7, OneSymbol
<1>9. Made(bp, y, <<"/">>, p)
  <2>1. y \o <<"/">> = b
    BY <1>1, <1>2, <1>7, TwoSymbols
  <2> QED BY <1>2, <2>1 DEF Made
<1>10. Plain(y, {"/"})
  BY <1>8 DEF Plain
<1>11. SplitOnce(bp, <<"/">>) = <<y, p>> /\ Matches(bp, <<"/">>) # {}
  BY <1>1, <1>8, <1>9, <1>10, SplitOnceBy, ZenonT(40)
<1>12. PICK cut, segs : cut = <<bp, r>> /\ segs = <<y, p>>
  OBVIOUS
<1>13. cut[1] = bp /\ cut[2] = r /\ segs[1] = y /\ segs[2] = p
  BY <1>12
<1>14. ParseSourcePath(t) = Texts!FoldLeft(AddPair,
             IF segs[2] = <<>> THEN IF segs[1] = <<>> THEN EmptyMap ELSE Insert(EmptyMap, <<"type">>, segs[1])
             ELSE Insert(IF segs[1] = <<>> THEN EmptyMap ELSE Insert(EmptyMap, <<"type">>, segs[1]),
                         <<"name">>, segs[2]),
             Split(cut[2], "&"))
  BY <1>2, <1>6, <1>11, <1>12, <1>13 DEF ParseSourcePath
<1>15. S3Base(p) = IF p = <<>> THEN Insert(EmptyMap, <<"type">>, y)
                   ELSE Insert(Insert(EmptyMap, <<"type">>, y), <<"name">>, p)
  BY <1>7 DEF S3Base, TypeOnly
<1> QED BY <1>8, <1>13, <1>14, <1>15 DEF AddAll

LEMMA MemoryRead == ParseSourcePath(<<"/", "memory">>) = TypeOnly(<<"memory">>)
<1>1. "/" \in Wide /\ "memory" \in Wide /\ "?" \in Wide
  BY Words, Zenon DEF Wide
<1>2. PICK a, u, t : a = <<"/">> /\ u = <<"memory">> /\ t = <<"/", "memory">>
  OBVIOUS
<1>3. a \in Seq(Wide) /\ u \in Seq(Wide) /\ Len(u) = 1 /\ u[1] = "memory" /\ u # <<>>
  BY <1>1, <1>2, OneSymbol
<1>4. t = a \o u
  BY <1>1, <1>2, TwoSymbols
<1>5. TrimSlashes(t) = u
  BY <1>1, <1>2, <1>3, <1>4, SlashTrimmed
<1>6. Plain(u, {"?"}) /\ Plain(u, {"/"})
  BY <1>3 DEF Plain
<1>7. Matches(u, <<"?">>) = {} /\ Matches(u, <<"/">>) = {}
  BY <1>1, <1>3, <1>6, NoMatch
<1>8. PICK cut : cut = <<u, <<>> >>
  OBVIOUS
<1>9. cut[1] = u /\ cut[2] = <<>>
  BY <1>8
<1>10. ParseSourcePath(t) = Texts!FoldLeft(AddPair,
             IF cut[2] = <<>> THEN IF cut[1] = <<>> THEN EmptyMap ELSE Insert(EmptyMap, <<"type">>, cut[1])
             ELSE Insert(IF cut[1] = <<>> THEN EmptyMap ELSE Insert(EmptyMap, <<"type">>, cut[1]),
                         <<"name">>, cut[2]),
             Split(cut[2], "&"))
  BY <1>5, <1>7, <1>8, <1>9 DEF ParseSourcePath
<1>11. ParseSourcePath(t) = AddAll(TypeOnly(u), Split(<<>>, "&"))
  BY <1>3, <1>9, <1>10 DEF AddAll, TypeOnly
<1>12. Split(<<>>, "&") = Append(<<>>, <<>>)
  BY SplitGrows
<1>13. TypeOnly(u) \in Maps
  BY <1>3, TypesRead
<1>14. AddAll(TypeOnly(u), Append(<<>>, <<>>)) = AddPair(AddAll(TypeOnly(u), <<>>), <<>>)
  <2>1. <<>> \in Piece
    BY PiecesOfWords
  <2>2. <<>> \in Seq(Piece)
    OBVIOUS
  <2> QED BY <1>13, <2>1, <2>2, AddGrows
<1>15. AddAll(TypeOnly(u), <<>>) = TypeOnly(u)
  BY <1>13, AddGrows
<1>16. AddPair(TypeOnly(u), <<>>) = TypeOnly(u)
  <2>1. Matches(<<>>, <<"=">>) = {}
    BY DEF Matches
  <2> QED BY <2>1 DEF AddPair
<1> QED BY <1>2, <1>11, <1>12, <1>14, <1>15, <1>16

-----------------------------------------------------------------------------
(* The configuration read back, and the secret.                            *)

LEMMA KeysOfParts ==
    ASSUME NEW W, NEW p \in Seq(W), NEW q \in Seq(W) PROVE KeysOf(p \o q) = KeysOf(p) \cup KeysOf(q)
<1>1. PICK g : g = p \o q
  OBVIOUS
<1>2. /\ Len(g) = Len(p) + Len(q) /\ Len(p) \in Nat /\ Len(q) \in Nat
      /\ \A i \in 1..Len(p) : g[i] = p[i]
      /\ \A i \in 1..Len(q) : g[Len(p) + i] = q[i]
      /\ \A i \in 1..Len(g) : IF i <= Len(p) THEN i \in 1..Len(p) ELSE i - Len(p) \in 1..Len(q)
  BY <1>1, Glued
<1>3. \A i \in 1..Len(p) : i \in 1..Len(g)
  BY <1>2
<1>4. \A i \in 1..Len(q) : Len(p) + i \in 1..Len(g)
  BY <1>2
<1>5. KeysOf(p) \subseteq KeysOf(g)
  BY <1>2, <1>3 DEF KeysOf
<1>6. KeysOf(q) \subseteq KeysOf(g)
  BY <1>2, <1>4 DEF KeysOf
<1>7. ASSUME NEW i \in 1..Len(g) PROVE g[i] \in KeysOf(p) \cup KeysOf(q)
  <2>1. CASE i <= Len(p)
    <3>1. i \in 1..Len(p)
      BY <1>2, <1>7, <2>1
    <3> QED BY <1>2, <3>1 DEF KeysOf
  <2>2. CASE ~(i <= Len(p))
    <3>1. i - Len(p) \in 1..Len(q) /\ Len(p) + (i - Len(p)) = i
      BY <1>2, <1>7, <2>2
    <3>2. g[i] = q[i - Len(p)]
      BY <1>2, <3>1
    <3> QED BY <3>1, <3>2 DEF KeysOf
  <2> QED BY <2>1, <2>2
<1>8. KeysOf(g) \subseteq KeysOf(p) \cup KeysOf(q)
  BY <1>7 DEF KeysOf
<1> QED BY <1>1, <1>5, <1>6, <1>8

Listed(config, ks, S) == ks \in Seq(QueryFields) /\ \A k \in S : k \in KeysOf(ks) \/ config.fields[k] = <<>>

LEMMA OneListed ==
    ASSUME NEW config, NEW k \in QueryFields, NEW ks, NEW S, Listed(config, ks, S)
    PROVE  Listed(config, ks \o Optional(config, k), S \cup {k}) /\ KeysOf(ks) \subseteq KeysOf(ks \o Optional(config, k))
<1>1. PICK o : o = Optional(config, k)
  OBVIOUS
<1>2. o \in Seq(QueryFields) /\ (k \in KeysOf(o) \/ config.fields[k] = <<>>)
  <2>1. CASE config.fields[k] = <<>>
    <3>1. o = <<>>
      BY <1>1, <2>1 DEF Optional
    <3> QED BY <2>1, <3>1
  <2>2. CASE config.fields[k] # <<>>
    <3>1. o = <<k>>
      BY <1>1, <2>2 DEF Optional
    <3>2. o \in Seq(QueryFields) /\ Len(o) = 1 /\ o[1] = k
      BY <3>1, OneSymbol
    <3> QED BY <3>2 DEF KeysOf
  <2> QED BY <2>1, <2>2
<1>3. ks \in Seq(QueryFields) /\ o \in Seq(QueryFields)
  BY <1>2 DEF Listed
<1>4. ks \o o \in Seq(QueryFields) /\ KeysOf(ks \o o) = KeysOf(ks) \cup KeysOf(o)
  BY <1>3, Glued, KeysOfParts
<1> QED BY <1>1, <1>2, <1>4 DEF Listed

LEMMA QueryKeys ==
    ASSUME NEW config
    PROVE  Listed(config, Query(config), QueryFields) /\ Query(config) # <<>>
<1>1. PICK a : a = <<"bucket", "access_key_id">>
  OBVIOUS
<1>2. a \in Seq(QueryFields) /\ Len(a) = 2 /\ a[1] = "bucket" /\ a[2] = "access_key_id"
  <2>1. "bucket" \in QueryFields /\ "access_key_id" \in QueryFields
    BY DEF QueryFields
  <2>2. a \in Seq(QueryFields)
    BY <1>1, <2>1, TwoSymbols
  <2> QED BY <1>1, <2>2
<1>3. "bucket" \in KeysOf(a) /\ "access_key_id" \in KeysOf(a)
  BY <1>2 DEF KeysOf
<1>4. Listed(config, a, {"bucket", "access_key_id"})
  BY <1>2, <1>3 DEF Listed
<1>5. PICK b, c, d : /\ b = a \o Optional(config, "region") /\ c = b \o Optional(config, "endpoint")
                     /\ d = c \o Optional(config, "session_token")
  OBVIOUS
<1>6. "region" \in QueryFields /\ "endpoint" \in QueryFields /\ "session_token" \in QueryFields
  BY DEF QueryFields
<1>7. Listed(config, b, {"bucket", "access_key_id"} \cup {"region"}) /\ KeysOf(a) \subseteq KeysOf(b)
  BY <1>4, <1>5, <1>6, OneListed
<1>8. Listed(config, c, ({"bucket", "access_key_id"} \cup {"region"}) \cup {"endpoint"}) /\ KeysOf(b) \subseteq KeysOf(c)
  BY <1>5, <1>6, <1>7, OneListed
<1>9. /\ Listed(config, d, (({"bucket", "access_key_id"} \cup {"region"}) \cup {"endpoint"}) \cup {"session_token"})
      /\ KeysOf(c) \subseteq KeysOf(d)
  BY <1>5, <1>6, <1>8, OneListed
<1>10. (({"bucket", "access_key_id"} \cup {"region"}) \cup {"endpoint"}) \cup {"session_token"} = QueryFields
  BY DEF QueryFields
<1>11. d # <<>>
  <2>1. "bucket" \in KeysOf(d)
    BY <1>3, <1>7, <1>8, <1>9
  <2>2. KeysOf(<<>>) = {}
    BY DEF KeysOf
  <2> QED BY <2>1, <2>2
<1> QED BY <1>1, <1>5, <1>9, <1>10, <1>11 DEF Query

(* The options that hold the configuration.                                *)
ReadBack(config, opts) ==
    /\ opts \in Maps
    /\ Value(opts, "type") = <<"s3">> /\ Value(opts, "name") = config.name
    /\ \A k \in QueryFields : Value(opts, k) = config.fields[k]
    /\ <<"secret">> \notin DOMAIN opts

S3Config(config) ==
    /\ Clean(config) /\ config.type = "s3"
    /\ config.name \in Seq(Word) /\ config.name # <<>> /\ Plain(config.name, {"?"})

LEMMA SourceMade ==
    ASSUME NEW config, S3Config(config)
    PROVE  /\ JoinWith("&", PairsOf(config, Query(config))) \in Seq(Word)
           /\ S3Path(SourcePath(config), config.name, JoinWith("&", PairsOf(config, Query(config))))
<1>1. PairsOf(config, Query(config)) \in Seq(Seq(Word))
  BY QueryKeys, QueryText DEF S3Config, Listed
<1>2. JoinWith("&", PairsOf(config, Query(config))) \in Seq(Word)
  BY <1>1, Words, JoinGrows, Zenon
<1>3. SourcePath(config) = ((<<"/", "s3", "/">> \o config.name) \o <<"?">>)
                           \o JoinWith("&", PairsOf(config, Query(config)))
  BY DEF SourcePath, PairsOf, S3Config
<1> QED BY <1>2, <1>3 DEF S3Path

LEMMA SourceRead ==
    ASSUME NEW config, S3Config(config) PROVE ReadBack(config, ParseSourcePath(SourcePath(config)))
<1>1. PICK ks, p, base, opts : /\ ks = Query(config) /\ p = config.name /\ base = S3Base(p)
                               /\ opts = ParseSourcePath(SourcePath(config))
  OBVIOUS
<1>2. PICK P, r, t : P = PairsOf(config, ks) /\ r = JoinWith("&", P) /\ t = SourcePath(config)
  OBVIOUS
<1>3. /\ ks \in Seq(QueryFields) /\ ks # <<>>
      /\ \A k \in QueryFields : k \in KeysOf(ks) \/ config.fields[k] = <<>>
  BY <1>1, QueryKeys DEF Listed
<1>4. p \in Seq(Word) /\ Plain(p, {"?"}) /\ p # <<>> /\ r \in Seq(Word) /\ S3Path(t, p, r)
  BY <1>1, <1>2, SourceMade DEF S3Config
<1>5. opts = AddAll(base, Split(r, "&"))
  <2>1. ParseSourcePath(t) = AddAll(S3Base(p), Split(r, "&"))
    BY <1>4, S3PathRead
  <2> QED BY <1>1, <1>2, <2>1
<1>6. Clean(config)
  BY DEF S3Config
<1>7. Split(r, "&") = P
  BY <1>2, <1>3, <1>6, QueryText DEF Rejoins
<1>8. /\ base \in Maps /\ DOMAIN base \subseteq {<<"type">>, <<"name">>}
      /\ <<"type">> \in DOMAIN base /\ base[<<"type">>] = <<"s3">>
      /\ <<"name">> \in DOMAIN base /\ base[<<"name">>] = p
  BY <1>1, <1>4, BasesRead
<1>9. Given(config, KeysOf(ks), base, opts)
  BY <1>2, <1>3, <1>5, <1>6, <1>7, <1>8, QueryRead
<1>10. /\ opts \in Maps /\ DOMAIN opts = DOMAIN base \cup {<<k>> : k \in KeysOf(ks)}
       /\ \A k \in KeysOf(ks) : opts[<<k>>] = config.fields[k]
       /\ \A x \in DOMAIN base : (\A k \in KeysOf(ks) : x # <<k>>) => opts[x] = base[x]
  BY <1>9 DEF Given
<1>11. KeysOf(ks) \subseteq QueryFields
  <2>1. \A i \in 1..Len(ks) : ks[i] \in QueryFields
    BY <1>3
  <2> QED BY <2>1 DEF KeysOf
<1>12. "type" \notin QueryFields /\ "name" \notin QueryFields /\ "secret" \notin QueryFields
  BY DEF QueryFields
<1>13. \A k \in KeysOf(ks) : <<k>> # <<"type">> /\ <<k>> # <<"name">> /\ <<k>> # <<"secret">>
  BY <1>11, <1>12, OneApart
<1>14. opts[<<"type">>] = <<"s3">> /\ opts[<<"name">>] = p /\ <<"type">> \in DOMAIN opts /\ <<"name">> \in DOMAIN opts
  BY <1>8, <1>10, <1>13
<1>15. <<"secret">> \notin DOMAIN opts
  <2>1. <<"secret">> # <<"type">> /\ <<"secret">> # <<"name">>
    BY OneApart
  <2> QED BY <1>8, <1>10, <1>13, <2>1
<1>16. ASSUME NEW k \in QueryFields PROVE Value(opts, k) = config.fields[k]
  <2>1. CASE k \in KeysOf(ks)
    <3>1. <<k>> \in DOMAIN opts
      BY <1>10, <2>1
    <3> QED BY <1>10, <2>1, <3>1 DEF Value
  <2>2. CASE k \notin KeysOf(ks)
    <3>1. k # "type" /\ k # "name"
      BY <1>12
    <3>2. <<k>> # <<"type">> /\ <<k>> # <<"name">> /\ \A a \in KeysOf(ks) : <<k>> # <<a>>
      BY <2>2, <3>1, OneApart
    <3>3. <<k>> \notin DOMAIN opts
      BY <1>8, <1>10, <3>2
    <3> QED BY <1>3, <2>2, <3>3 DEF Value
  <2> QED BY <2>1, <2>2
<1>17. Value(opts, "type") = <<"s3">> /\ Value(opts, "name") = config.name
  BY <1>1, <1>14 DEF Value
<1> QED BY <1>1, <1>10, <1>15, <1>16, <1>17 DEF ReadBack

(* Once `key=...` is the first part, the key stays.                        *)
LEMMA FirstKept ==
    ASSUME NEW base \in Maps, NEW k \in Word, k \notin {"=", Blank}, NEW v \in Seq(Word),
           NEW ps \in Seq(Seq(Word)), ps # <<>>, ps[1] = <<k, "=">> \o v
    PROVE  AddAll(base, ps) \in Maps /\ <<k>> \in DOMAIN AddAll(base, ps)
<1> DEFINE First == <<k, "=">> \o v
           T == {s \in Seq(Seq(Word)) : s = <<>> \/ s[1] # First
                                        \/ (AddAll(base, s) \in Maps /\ <<k>> \in DOMAIN AddAll(base, s))}
<1>1. <<>> \in T
  OBVIOUS
<1>2. ASSUME NEW s \in Seq(Seq(Word)), NEW x \in Seq(Word), s \in T PROVE Append(s, x) \in T
  <2>1. Append(s, x) \in Seq(Seq(Word))
    BY <1>2, Appended
  <2>2. s \in Seq(Piece) /\ x \in Piece
    BY <1>2, PiecesOfWords
  <2>3. AddAll(base, s) \in Maps /\ AddAll(base, Append(s, x)) = AddPair(AddAll(base, s), x)
    BY <2>2, AddGrows
  <2>4. CASE s = <<>>
    <3>1. Append(s, x)[1] = x
      BY <2>4
    <3>2. CASE x = First
      <4>1. AddPair(AddAll(base, s), x) = Insert(AddAll(base, s), <<k>>, v)
        BY <3>2, PairAdded
      <4>2. <<k>> \in Seq(Word) /\ v \in Seq(Wide)
        BY Words, OneSymbol, Zenon
      <4>3. PICK y, d : y = <<k>> /\ d = AddAll(base, s)
        OBVIOUS
      <4>4. Insert(d, y, v) \in Maps /\ DOMAIN Insert(d, y, v) = DOMAIN d \cup {y}
        BY <2>3, <4>2, <4>3, Inserted
      <4> QED BY <2>1, <2>3, <4>1, <4>3, <4>4
    <3> QED BY <2>1, <3>1, <3>2
  <2>5. CASE s # <<>>
    <3>1. Append(s, x)[1] = s[1]
      BY <1>2, <2>5
    <3>2. PICK d : d = AddAll(base, s)
      OBVIOUS
    <3>3. AddPair(d, x) \in Maps /\ DOMAIN d \subseteq DOMAIN AddPair(d, x)
      BY <2>2, <2>3, <3>2, AddPairTyped
    <3> QED BY <1>2, <2>1, <2>3, <2>5, <3>1, <3>2, <3>3
  <2> QED BY <2>4, <2>5
<1> HIDE DEF T
<1>3. Seq(Seq(Word)) \subseteq T
  BY <1>1, <1>2, TextInduction
<1> QED BY <1>3 DEF T

-----------------------------------------------------------------------------
(* The options: each token split at the commas.                            *)

AddToken(map, token) == AddAll(map, Split(token, ","))

LEMMA PartsArePieces ==
    ASSUME NEW token \in Piece PROVE Split(token, ",") \in Seq(Piece)
<1>1. CASE token \in Seq(Word)
  <2>1. Split(token, ",") \in Seq(Seq(Word))
    BY <1>1, SplitTyped, Zenon DEF Parts
  <2> QED BY <2>1, PiecesOfWords, Zenon
<1>2. CASE token = <<"-o">>
  <2>1. PICK W : W = {"-o"}
    OBVIOUS
  <2>2. token \in Seq(W) /\ Len(token) = 1 /\ token[1] = "-o"
    BY <1>2, <2>1, OneSymbol
  <2>3. Plain(token, {","})
    <3>1. \A i \in 1..Len(token) : token[i] = "-o"
      BY <2>2
    <3> QED BY <3>1, Zenon DEF Plain
  <2>4. Split(token, ",") = <<token>>
    BY <2>2, <2>3, SplitPlain, Zenon
  <2> QED BY <2>4, OneSymbol, Zenon
<1> QED BY <1>1, <1>2, Zenon DEF Piece

OptionStep == [x \in Maps \X Piece |-> AddToken(x[1], x[2])]

LEMMA OptionStepTyped ==
    /\ OptionStep \in [Maps \X Piece -> Maps]
    /\ \A d \in Maps, x \in Piece : OptionStep[d, x] = AddToken(d, x)
<1>1. ASSUME NEW d \in Maps, NEW x \in Piece PROVE AddToken(d, x) \in Maps
  BY <1>1, PartsArePieces, AddGrows, Zenon DEF AddToken
<1> QED BY <1>1, Zenon DEF OptionStep

LEMMA EmptyTyped == EmptyMap \in Maps /\ DOMAIN EmptyMap = {}
<1>1. EmptyMap \in [{} -> Seq(Wide)] /\ {} \in SUBSET Seq(Word)
  BY DEF EmptyMap
<1> QED BY <1>1 DEF Maps, EmptyMap

LEMMA OptionRuns ==
    ASSUME NEW t \in Seq(Piece) PROVE FoldRun(t, ParseOptions(t), OptionStep, EmptyMap, Maps)
<1> DEFINE n == Len(t)  D == Maps  X == Piece  step == OptionStep  base == EmptyMap
<1>1. n \in Nat /\ DOMAIN t = 1..n
  OBVIOUS
<1>2. step \in [D \X X -> D] /\ base \in D /\ \A d \in D, x \in X : step[d, x] = AddToken(d, x)
  BY OptionStepTyped, EmptyTyped, Zenon
<1> DEFINE Solves(g) == g = [s \in SUBSET (1..n) |-> IF s = {} THEN base
                                      ELSE AddToken(g[s \ {Texts!Max(s)}], t[Texts!Max(s)])]
<1>3. ParseOptions(t) = (CHOOSE g : Solves(g))[1..n]
  BY <1>1 DEF ParseOptions, AddToken, AddAll, Texts!FoldLeft, Texts!MapThenFoldSet
<1>0. t \in Seq(X)
  OBVIOUS
<1> HIDE DEF D, X, step, base
<1>4. PICK f \in [SUBSET (1..n) -> D] : Solution(f, t, step, base, D)
  BY <1>0, <1>2, Solvable, Zenon
<1>5. \A s \in SUBSET (1..n) : s # {} => /\ Texts!Max(s) = Seqs!Max(s) /\ t[Seqs!Max(s)] \in X
                                         /\ s \ {Seqs!Max(s)} \in SUBSET (1..n)
  BY <1>0, Maxima
<1>6. f = [s \in SUBSET (1..n) |-> f[s]]
  OBVIOUS
<1>7. \A s \in SUBSET (1..n) : f[s] = IF s = {} THEN base ELSE AddToken(f[s \ {Texts!Max(s)}], t[Texts!Max(s)])
  BY <1>2, <1>4, <1>5, Zenon DEF Solution
<1>8. Solves(f)
  BY <1>6, <1>7
<1>9. PICK g : Solves(g) /\ ParseOptions(t) = g[1..n]
  <2>1. Solves(CHOOSE g : Solves(g))
    BY <1>8
  <2> HIDE DEF Solves
  <2> QED BY <1>3, <2>1
<1>10. Solution(g, t, step, base, D)
  <2>1. g[{}] = base
    BY <1>9
  <2>2. ASSUME NEW s \in SUBSET (1..n), s # {}, g[s \ {Seqs!Max(s)}] \in D
        PROVE  g[s] = step[g[s \ {Seqs!Max(s)}], t[Seqs!Max(s)]]
    <3>1. g[s] = AddToken(g[s \ {Texts!Max(s)}], t[Texts!Max(s)])
      BY <1>9, <2>2
    <3> QED BY <1>2, <1>5, <2>2, <3>1, Zenon
  <2> QED BY <2>1, <2>2, Zenon DEF Solution
<1> HIDE DEF Solves
<1>11. FoldRun(t, g[1..n], step, base, D)
  BY <1>0, <1>2, <1>10, Solved, Zenon
<1> QED BY <1>9, <1>11 DEF D, X, step, base

(* What the extension finds in mount's options for the secret.             *)
GivenSecret(given, secret) ==
    /\ given \in Maps /\ <<"secret">> \in DOMAIN given
    /\ Plain(secret, {","}) => given[<<"secret">>] = secret

LEMMA OptionsRead ==
    ASSUME NEW secret \in Seq(Word) PROVE GivenSecret(ParseOptions(<<<<"-o">>, Options(secret)>>), secret)
<1>1. PICK a, b, ab, e : a = <<"-o">> /\ b = Options(secret) /\ ab = <<a, b>> /\ e = EmptyMap
  OBVIOUS
<1>2. "secret" \in Word /\ "=" \in Word /\ "," \in Word /\ "secret" \notin {"=", Blank}
  BY Words, Zenon DEF Blank
<1>3. PICK p : p = <<"secret", "=">>
  OBVIOUS
<1>4. p \in Seq(Word) /\ Len(p) = 2 /\ p[1] = "secret" /\ p[2] = "="
  <2>1. p \in Seq(Word)
    BY <1>2, <1>3, TwoSymbols, Zenon
  <2> QED BY <1>3, <2>1
<1>5. Plain(p, {","})
  <2>1. \A i \in 1..Len(p) : i = 1 \/ i = 2
    BY <1>4
  <2>2. \A i \in 1..Len(p) : p[i] = "secret" \/ p[i] = "="
    BY <1>4, <2>1
  <2> QED BY <2>2, Zenon DEF Plain
<1>6. b = p \o secret
  BY <1>1, <1>3 DEF Options
<1>7. b \in Seq(Word)
  BY <1>4, <1>6, Glued
<1>8. a \in Piece /\ b \in Piece
  BY <1>1, <1>7 DEF Piece
<1>9. ab \in Seq(Piece) /\ Len(ab) = 2 /\ ab[1] = a /\ ab[2] = b
  <2>1. ab \in Seq(Piece)
    BY <1>1, <1>8, TwoSymbols
  <2> QED BY <1>1, <2>1
<1>10. PICK h \in [0..Len(ab) -> Maps] :
          /\ h[0] = EmptyMap /\ ParseOptions(ab) = h[Len(ab)]
          /\ \A i \in 1..Len(ab) : h[i] = OptionStep[h[i - 1], ab[i]]
  <2>1. FoldRun(ab, ParseOptions(ab), OptionStep, EmptyMap, Maps)
    BY <1>9, OptionRuns
  <2> QED BY <2>1, Zenon DEF FoldRun
<1>11. e \in Maps
  BY <1>1, EmptyTyped
<1>12. h[1] = AddToken(e, a) /\ h[1] \in Maps
  <2>1. h[1] = OptionStep[h[0], ab[1]] /\ h[1] \in Maps
    <3>1. 1 \in 1..2 /\ 1 - 1 = 0 /\ 1 \in 0..2
      OBVIOUS
    <3> QED BY <1>9, <1>10, <3>1, Zenon
  <2> QED BY <1>1, <1>8, <1>9, <1>10, <1>11, <2>1, OptionStepTyped, Zenon
<1>13. h[2] = AddToken(h[1], b) /\ h[2] = ParseOptions(ab)
  <2>1. h[2] = OptionStep[h[1], ab[2]]
    <3>1. 2 \in 1..2 /\ 2 - 1 = 1
      OBVIOUS
    <3> QED BY <1>9, <1>10, <3>1, Zenon
  <2> QED BY <1>8, <1>9, <1>10, <1>12, <2>1, OptionStepTyped, Zenon
<1>14. PICK ps, d, r : ps = Split(b, ",") /\ d = h[1] /\ r = ParseOptions(ab)
  BY Zenon
<1>15. r = AddAll(d, ps) /\ d \in Maps
  BY <1>12, <1>13, <1>14, Zenon DEF AddToken
<1>16. ps \in Seq(Seq(Word)) /\ ps # <<>>
  BY <1>7, <1>14, SplitTyped, Zenon DEF Parts
<1>17. PICK v \in Seq(Word) : ps[1] = p \o v
  <2>1. PICK qs : qs = Split(secret, ",")
    BY Zenon
  <2>2. ps[1] = p \o qs[1]
    <3>1. "," \in Word /\ p \in Seq(Word)
      BY <1>2, <1>4, Zenon
    <3>2. Split(p \o secret, ",")[1] = p \o Split(secret, ",")[1]
      BY <1>5, <3>1, FirstPart, ZenonT(40)
    <3> QED BY <1>6, <1>14, <2>1, <3>2, Zenon
  <2>3. qs \in Seq(Seq(Word)) /\ qs # <<>>
    BY <2>1, SplitTyped, Zenon DEF Parts
  <2>4. qs[1] \in Seq(Word)
    BY <2>3
  <2> QED BY <2>2, <2>4
<1>18. r \in Maps /\ <<"secret">> \in DOMAIN r
  BY <1>2, <1>3, <1>15, <1>16, <1>17, FirstKept, Zenon
<1>19. ASSUME Plain(secret, {","}) PROVE r[<<"secret">>] = secret
  <2>1. Plain(b, {","})
    BY <1>4, <1>5, <1>6, <1>19, PlainParts, Zenon
  <2>2. ps = Append(<<>>, b)
    <3>1. Split(b, ",") = <<b>>
      BY <1>7, <2>1, SplitPlain, Zenon
    <3>2. Append(<<>>, b) = <<b>>
      OBVIOUS
    <3> QED BY <1>14, <3>1, <3>2, Zenon
  <2>3. AddAll(d, Append(<<>>, b)) = AddPair(AddAll(d, <<>>), b) /\ AddAll(d, <<>>) = d
    <3>1. <<>> \in Seq(Piece)
      OBVIOUS
    <3> QED BY <1>8, <1>15, <3>1, AddGrows
  <2>4. AddPair(d, b) = Insert(d, <<"secret">>, secret)
    BY <1>2, <1>3, <1>6, PairAdded, Zenon
  <2>5. PICK y : y = <<"secret">>
    OBVIOUS
  <2>6. y \in Seq(Word) /\ secret \in Seq(Wide)
    BY <1>2, <2>5, Words, OneSymbol, Zenon
  <2>7. Insert(d, y, secret)[y] = secret
    BY <1>15, <2>6, Inserted
  <2> QED BY <1>15, <2>2, <2>3, <2>4, <2>5, <2>7
<1> QED BY <1>1, <1>14, <1>18, <1>19, Zenon DEF GivenSecret

-----------------------------------------------------------------------------
(* What is built of the options.                                           *)

Agrees(config, opts) ==
    /\ Value(opts, "type") = <<"s3">> /\ Value(opts, "name") = config.name
    /\ \A k \in QueryFields : Value(opts, k) = config.fields[k]

Ready(config, secret) ==
    [outcome |-> "ready", secret |-> secret,
     config |-> [type |-> "s3", name |-> config.name, fields |-> [k \in QueryFields |-> config.fields[k]]]]

Usable(config) == config.fields["bucket"] # <<>> /\ config.fields["access_key_id"] # <<>>

LEMMA BuiltS3 ==
    ASSUME NEW config, Usable(config), NEW opts, Agrees(config, opts), NEW stored
    PROVE  /\ \A s : stored = {s} => Build(opts, stored) = Ready(config, s)
           /\ stored = {} => Build(opts, stored) = IF <<"secret">> \in DOMAIN opts THEN Ready(config, opts[<<"secret">>])
                                                 ELSE NeedSecret(opts)
<1>1. <<"s3">> # <<"memory">>
  BY OneApart
<1>2. Value(opts, "type") # <<"memory">> /\ Value(opts, "type") = <<"s3">>
  BY <1>1 DEF Agrees
<1>3. Build(opts, stored) = BuildS3(opts, stored)
  BY <1>2 DEF Build
<1>4. Value(opts, "bucket") # <<>> /\ Value(opts, "access_key_id") # <<>>
  BY DEF Agrees, Usable, QueryFields
<1>5. [k \in QueryFields |-> Value(opts, k)] = [k \in QueryFields |-> config.fields[k]]
  BY DEF Agrees
<1>6. Value(opts, "name") = config.name
  BY DEF Agrees
<1>7. \A s : (CHOOSE x \in {s} : TRUE) = s
  OBVIOUS
<1>8. ASSUME NEW S, NEW s, S = {s},
             S = IF stored # {} THEN stored ELSE IF <<"secret">> \in DOMAIN opts THEN {opts[<<"secret">>]} ELSE {}
      PROVE  BuildS3(opts, stored) = Ready(config, s)
  <2>1. BuildS3(opts, stored) =
            [outcome |-> "ready", secret |-> CHOOSE x \in S : TRUE,
             config |-> [type |-> "s3", name |-> Value(opts, "name"),
                         fields |-> [k \in QueryFields |-> Value(opts, k)]]]
    BY <1>4, <1>8 DEF BuildS3
  <2> QED BY <1>5, <1>6, <1>7, <1>8, <2>1 DEF Ready
<1>9. ASSUME NEW s, stored = {s} PROVE Build(opts, stored) = Ready(config, s)
  BY <1>3, <1>8, <1>9
<1>10. ASSUME stored = {}, <<"secret">> \in DOMAIN opts PROVE Build(opts, stored) = Ready(config, opts[<<"secret">>])
  BY <1>3, <1>8, <1>10
<1>11. ASSUME stored = {}, <<"secret">> \notin DOMAIN opts PROVE Build(opts, stored) = NeedSecret(opts)
  BY <1>3, <1>4, <1>11 DEF BuildS3
<1> QED BY <1>9, <1>10, <1>11

LEMMA StillAgrees ==
    ASSUME NEW config, NEW opts \in Maps, Agrees(config, opts), NEW v \in Seq(Wide)
    PROVE  Agrees(config, Insert(opts, <<"secret">>, v))
<1>1. PICK y, e : y = <<"secret">> /\ e = Insert(opts, y, v)
  OBVIOUS
<1>2. y \in Seq(Word)
  BY <1>1, Words, OneSymbol, Zenon
<1>3. DOMAIN e = DOMAIN opts \cup {y} /\ \A x \in DOMAIN opts : x # y => e[x] = opts[x]
  <2>1. /\ DOMAIN Insert(opts, y, v) = DOMAIN opts \cup {y}
        /\ \A x \in DOMAIN opts : x # y => Insert(opts, y, v)[x] = opts[x]
    BY <1>2, Inserted
  <2> QED BY <1>1, <2>1
<1>4. ASSUME NEW k, k # "secret" PROVE Value(e, k) = Value(opts, k)
  <2>1. <<k>> # y
    BY <1>1, <1>4, OneApart
  <2> QED BY <1>3, <2>1 DEF Value
<1>5. "type" # "secret" /\ "name" # "secret" /\ \A k \in QueryFields : k # "secret"
  BY DEF QueryFields
<1>6. Value(e, "type") = Value(opts, "type") /\ Value(e, "name") = Value(opts, "name")
      /\ \A k \in QueryFields : Value(e, k) = Value(opts, k)
  BY <1>4, <1>5
<1> QED BY <1>1, <1>6 DEF Agrees

(* An accepted form.                                                       *)
LEMMA SymbolsAreWords == ASSUME NEW t \in Seq(Symbol) PROVE t \in Seq(Word)
BY Words, Zenon

LEMMA FieldsTyped ==
    ASSUME NEW form \in FormSet
    PROVE  /\ form.is_s3 \in BOOLEAN /\ form.save_secret_to_keychain \in BOOLEAN
           /\ \A k \in TextFields : form[k] \in Seq(Word) /\ Trim(form[k]) \in Seq(Word)
<1>1. \A k \in TextFields : form[k] \in Seq(Word)
  BY SymbolsAreWords DEF FormSet
<1> QED BY <1>1, TrimTyped DEF FormSet

LEMMA FormAccepted ==
    ASSUME NEW form \in FormSet, Accepts(form), form.is_s3
    PROVE  /\ S3Config(Config(form)) /\ Usable(Config(form)) /\ form.secret \in Seq(Word)
           /\ ~HasAny(form.secret, {","}) => Plain(form.secret, {","})
           /\ form.save_secret_to_keychain \/ Plain(form.secret, {","})
<1>1. PICK config : config = Config(form)
  OBVIOUS
<1>2. config.type = "s3" /\ config.name = Trim(form.name) /\ config.fields = [k \in QueryFields |-> Trim(form[k])]
  BY <1>1 DEF Config
<1>3. QueryFields \subseteq TextFields /\ "name" \in TextFields /\ "secret" \in TextFields
  BY DEF QueryFields, TextFields
<1>4. \A k \in QueryFields : Trim(form[k]) \in Seq(Word)
  BY <1>3, FieldsTyped
<1>5. form["name"] = form.name /\ form["secret"] = form.secret
  OBVIOUS
<1>6. Trim(form.name) \in Seq(Word) /\ form.secret \in Seq(Word)
  BY <1>3, <1>5, FieldsTyped
<1>7. \A k \in QueryFields : ~HasAny(Trim(form[k]), Delimiter)
  BY DEF Accepts, ValidQuery
<1>8. ASSUME NEW t \in Seq(Word), NEW C, ~HasAny(t, C) PROVE Plain(t, C)
  <2>1. DOMAIN t = 1..Len(t)
    BY <1>8
  <2> QED BY <1>8, <2>1 DEF HasAny, Plain
<1>9. Clean(config)
  <2>1. config.fields \in [QueryFields -> Seq(Word)]
    BY <1>2, <1>4
  <2>2. \A k \in QueryFields : Plain(config.fields[k], Delimiter)
    BY <1>2, <1>4, <1>7, <1>8
  <2> QED BY <2>1, <2>2 DEF Clean
<1>10. Trim(form.name) # <<>> /\ Plain(Trim(form.name), {"?"})
  <2>1. ValidName(Trim(form.name))
    BY DEF Accepts
  <2>2. "?" \notin Identifier
    BY IdentifierAssumption, Zenon DEF Delimiter
  <2>3. PICK n : n = Trim(form.name)
    OBVIOUS
  <2>4. n \in Seq(Word) /\ n # <<>> /\ \A i \in DOMAIN n : n[i] \in Identifier
    BY <1>6, <2>1, <2>3 DEF ValidName
  <2>5. DOMAIN n = 1..Len(n)
    BY <2>4
  <2> QED BY <2>2, <2>3, <2>4, <2>5 DEF Plain
<1>11. Usable(config)
  <2>1. Trim(form["bucket"]) # <<>> /\ Trim(form["access_key_id"]) # <<>>
    BY DEF Accepts, Required
  <2> QED BY <1>2, <2>1 DEF Usable, QueryFields
<1>12. S3Config(config)
  BY <1>2, <1>6, <1>9, <1>10 DEF S3Config
<1>13. ~HasAny(form.secret, {","}) => Plain(form.secret, {","})
  BY <1>6, <1>8, Zenon
<1>14. form.save_secret_to_keychain \/ ~HasAny(form.secret, {","})
  BY Zenon DEF Accepts, ValidSecret
<1> QED BY <1>1, <1>6, <1>11, <1>12, <1>13, <1>14, Zenon

(* What is served of it.                                                   *)
LEMMA S3Served ==
    ASSUME NEW form \in FormSet, Accepts(form), form.is_s3, NEW signed \in BOOLEAN
    PROVE  \E secret : /\ Served(form, signed) = Ready(Config(form), secret)
                       /\ signed \/ ~form.save_secret_to_keychain \/ ~HasAny(form.secret, {","})
                          => secret = form.secret
<1>1. PICK config, opts, given, stored, source, tokens :
          /\ config = Config(form) /\ source = SourcePath(config) /\ opts = ParseSourcePath(source)
          /\ tokens = <<<<"-o">>, Options(form.secret)>> /\ given = ParseOptions(tokens)
          /\ stored = IF signed /\ form.save_secret_to_keychain THEN {form.secret} ELSE {}
  OBVIOUS
<1>2. S3Config(config) /\ Usable(config) /\ form.secret \in Seq(Word)
      /\ (~HasAny(form.secret, {","}) => Plain(form.secret, {","}))
      /\ (form.save_secret_to_keychain \/ Plain(form.secret, {","}))
  BY <1>1, FormAccepted, Zenon
<1>3. ReadBack(config, opts)
  BY <1>1, <1>2, SourceRead, Zenon
<1>4. opts \in Maps /\ Agrees(config, opts) /\ <<"secret">> \notin DOMAIN opts
  BY <1>3 DEF ReadBack, Agrees
<1>5. GivenSecret(given, form.secret)
  BY <1>1, <1>2, OptionsRead, Zenon
<1>6. Served(form, signed) = Serve(source, tokens, stored)
  BY <1>1 DEF Served
<1>7. PICK loaded : loaded = Build(opts, stored)
  OBVIOUS
<1>8. Serve(source, tokens, stored) =
          IF loaded.outcome # "need_secret" THEN loaded
          ELSE IF <<"secret">> \in DOMAIN given
          THEN Build(Insert(loaded.opts, <<"secret">>, given[<<"secret">>]), stored)
          ELSE loaded
  BY <1>1, <1>7 DEF Serve
<1>9. CASE signed /\ form.save_secret_to_keychain
  <2>1. stored = {form.secret}
    BY <1>1, <1>9
  <2>2. loaded = Ready(config, form.secret)
    BY <1>2, <1>4, <1>7, <2>1, BuiltS3, Zenon
  <2>3. loaded.outcome = "ready"
    BY <2>2 DEF Ready
  <2>4. Served(form, signed) = Ready(config, form.secret)
    BY <1>6, <1>8, <2>2, <2>3
  <2> QED BY <1>1, <2>4, Zenon
<1>10. CASE ~(signed /\ form.save_secret_to_keychain)
  <2>1. stored = {}
    BY <1>1, <1>10
  <2>2. loaded = NeedSecret(opts)
    BY <1>2, <1>4, <1>7, <2>1, BuiltS3, Zenon
  <2>3. loaded.outcome = "need_secret" /\ loaded.opts = opts
    BY <2>2 DEF NeedSecret
  <2>4. PICK v, e : v = given[<<"secret">>] /\ e = Insert(opts, <<"secret">>, v)
    OBVIOUS
  <2>5. given \in Maps /\ <<"secret">> \in DOMAIN given
    BY <1>5, Zenon DEF GivenSecret
  <2>6. Served(form, signed) = Build(e, stored)
    BY <1>6, <1>8, <2>3, <2>4, <2>5
  <2>7. v \in Seq(Wide)
    BY <2>4, <2>5 DEF Maps
  <2>8. Agrees(config, e)
    BY <1>4, <2>4, <2>7, StillAgrees
  <2>9. <<"secret">> \in DOMAIN e /\ e[<<"secret">>] = v
    BY <2>4 DEF Insert
  <2>10. Build(e, stored) = Ready(config, v)
    BY <1>2, <2>1, <2>8, <2>9, BuiltS3, Zenon
  <2>12. signed \/ ~form.save_secret_to_keychain \/ ~HasAny(form.secret, {","}) => v = form.secret
    BY <1>2, <1>5, <1>10, <2>4, Zenon DEF GivenSecret
  <2> QED BY <1>1, <2>6, <2>10, <2>12, Zenon
<1> QED BY <1>9, <1>10, Zenon

LEMMA MemoryServed ==
    ASSUME NEW form \in FormSet, ~form.is_s3, NEW signed \in BOOLEAN
    PROVE  Served(form, signed) = [outcome |-> "ready", config |-> Config(form)]
<1>1. Config(form) = [type |-> "memory"]
  BY DEF Config
<1>2. SourcePath(Config(form)) = <<"/", "memory">>
  BY <1>1 DEF SourcePath
<1>3. PICK opts, tokens, stored :
          /\ opts = ParseSourcePath(SourcePath(Config(form))) /\ tokens = <<<<"-o">>, Options(form.secret)>>
          /\ stored = IF signed /\ form.save_secret_to_keychain THEN {form.secret} ELSE {}
  OBVIOUS
<1>4. opts = TypeOnly(<<"memory">>)
  BY <1>2, <1>3, MemoryRead
<1>5. Value(opts, "type") = <<"memory">>
  <2>1. "memory" \in Wide
    BY DEF Wide
  <2>2. <<"memory">> \in Seq(Wide)
    BY <2>1, OneSymbol
  <2>3. <<"type">> \in DOMAIN opts /\ opts[<<"type">>] = <<"memory">>
    BY <1>4, <2>2, TypesRead
  <2> QED BY <2>3 DEF Value
<1>6. Build(opts, stored) = [outcome |-> "ready", config |-> [type |-> "memory"]]
  BY <1>5, OneApart DEF Build
<1>7. Served(form, signed) = Build(opts, stored)
  BY <1>3, <1>6 DEF Served, Serve
<1> QED BY <1>1, <1>6, <1>7

LEMMA FormIsTyped == ASSUME InputTyped, TestedForm PROVE input.form \in FormSet /\ Accepts(input.form)
BY DEF InputTyped, TestedForm

LEMMA ConfigRight == InputTyped => ConfigArrives
<1> SUFFICES ASSUME InputTyped, TestedForm, NEW signed \in BOOLEAN
             PROVE  /\ Served(input.form, signed).outcome = "ready"
                    /\ Served(input.form, signed).config = Config(input.form)
  BY DEF ConfigArrives
<1>1. PICK form \in FormSet : form = input.form /\ Accepts(form) /\ form.is_s3 \in BOOLEAN
  BY FormIsTyped, FieldsTyped
<1>2. CASE form.is_s3
  <2>1. PICK secret : Served(form, signed) = Ready(Config(form), secret)
    BY <1>1, <1>2, S3Served, Zenon
  <2>2. Config(form) = [type |-> "s3", name |-> Config(form).name,
                        fields |-> [k \in QueryFields |-> Config(form).fields[k]]]
    BY <1>2 DEF Config
  <2> QED BY <1>1, <2>1, <2>2 DEF Ready
<1>3. CASE ~form.is_s3
  BY <1>1, <1>3, MemoryServed
<1> QED BY <1>1, <1>2, <1>3

LEMMA SecretRight == InputTyped => SecretArrives
<1> SUFFICES ASSUME InputTyped, TestedForm, input.form.is_s3, NEW signed \in BOOLEAN,
                    signed \/ ~input.form.save_secret_to_keychain \/ ~HasAny(input.form.secret, {","})
             PROVE  /\ Served(input.form, signed).outcome = "ready"
                    /\ Served(input.form, signed).secret = input.form.secret
  BY Zenon DEF SecretArrives
<1>1. PICK form \in FormSet :
          /\ form = input.form /\ Accepts(form) /\ form.is_s3
          /\ signed \/ ~form.save_secret_to_keychain \/ ~HasAny(form.secret, {","})
  BY FormIsTyped, Zenon
<1>2. PICK secret : Served(form, signed) = Ready(Config(form), secret) /\ secret = form.secret
  BY <1>1, S3Served, Zenon
<1>3. Served(form, signed).outcome = "ready" /\ Served(form, signed).secret = form.secret
  <2>1. \A c, s : Ready(c, s).outcome = "ready" /\ Ready(c, s).secret = s
    BY Zenon DEF Ready
  <2>2. PICK c, v : v = Served(form, signed) /\ c = Config(form)
    BY Zenon
  <2>3. v = Ready(c, secret) /\ secret = form.secret
    BY <1>2, <2>2, Zenon
  <2>4. v.outcome = "ready" /\ v.secret = secret
    BY <2>1, <2>3, Zenon
  <2> QED BY <2>2, <2>3, <2>4, Zenon
<1> QED BY <1>1, <1>3, Zenon

-----------------------------------------------------------------------------
(* The row of the mount table.                                             *)

Printed == Wide \cup {"fskit-s3", "local", ")"}

LEMMA DeviceTyped ==
    ASSUME NEW form \in FormSet, Accepts(form) PROVE SourcePath(Config(form)) \in Seq(Wide)
<1>1. "/" \in Wide /\ "s3" \in Wide /\ "?" \in Wide /\ "memory" \in Wide
  BY Words, Zenon DEF Wide
<1>2. form.is_s3 \in BOOLEAN
  BY FieldsTyped
<1>3. CASE form.is_s3
  <2>1. PICK t, p, r : /\ t = SourcePath(Config(form)) /\ p = Config(form).name
                       /\ r = JoinWith("&", PairsOf(Config(form), Query(Config(form))))
    OBVIOUS
  <2>2. p \in Seq(Word) /\ r \in Seq(Word) /\ S3Path(t, p, r)
    BY <1>3, <2>1, FormAccepted, SourceMade, Zenon DEF S3Config
  <2>3. PICK c, q : c = <<"/", "s3", "/">> /\ q = <<"?">>
    OBVIOUS
  <2>4. c \in Seq(Wide) /\ q \in Seq(Wide) /\ p \in Seq(Wide) /\ r \in Seq(Wide)
    <3>1. c \in Seq(Wide)
      BY <1>1, <2>3
    <3> QED BY <1>1, <2>2, <2>3, <3>1, OneSymbol, Words, Zenon
  <2>5. c \o p \in Seq(Wide)
    BY <2>4, Glued
  <2>6. (c \o p) \o q \in Seq(Wide)
    BY <2>4, <2>5, Glued
  <2>7. ((c \o p) \o q) \o r \in Seq(Wide)
    BY <2>4, <2>6, Glued
  <2> QED BY <2>1, <2>2, <2>3, <2>7 DEF S3Path
<1>4. CASE ~form.is_s3
  <2>1. SourcePath(Config(form)) = <<"/", "memory">>
    BY <1>4 DEF Config, SourcePath
  <2> QED BY <1>1, <2>1, TwoSymbols
<1> QED BY <1>2, <1>3, <1>4

LEMMA PrintedSymbols ==
    /\ Wide \subseteq Printed /\ "(" \in Printed /\ "on" \in Printed /\ Blank \in Printed /\ "," \in Printed
    /\ "fskit-s3" \in Printed /\ "local" \in Printed /\ ")" \in Printed /\ Seq(Wide) \subseteq Seq(Printed)
    /\ Seq(Word) \subseteq Seq(Printed)
<1>1. "(" \in Word /\ "on" \in Word
  BY DEF Word, Symbol, Typed
<1>2. Wide \subseteq Printed /\ Word \subseteq Printed
  BY Words, Zenon DEF Printed
<1>3. /\ "(" \in Printed /\ "on" \in Printed /\ Blank \in Printed /\ "," \in Printed
      /\ "fskit-s3" \in Printed /\ "local" \in Printed /\ ")" \in Printed
  BY <1>1, <1>2, Words, Zenon DEF Printed
<1> QED BY <1>2, <1>3, SeqMonotonic, Zenon

On == <<Blank, "on", Blank>>
Opening == <<Blank, "(">>
Flags == <<",", Blank, "local", ")">>

LEMMA ThreeSymbols ==
    ASSUME NEW W, NEW x \in W, NEW y \in W, NEW z \in W
    PROVE  <<x, y, z>> \in Seq(W) /\ Len(<<x, y, z>>) = 3 /\ <<x, y, z>>[1] = x /\ <<x, y, z>>[2] = y /\ <<x, y, z>>[3] = z
OBVIOUS

LEMMA FourSymbols ==
    ASSUME NEW W, NEW x \in W, NEW y \in W, NEW z \in W, NEW a \in W
    PROVE  /\ <<x, y, z, a>> \in Seq(W) /\ Len(<<x, y, z, a>>) = 4
           /\ <<x, y, z, a>>[1] = x /\ <<x, y, z, a>>[2] = y /\ <<x, y, z, a>>[3] = z /\ <<x, y, z, a>>[4] = a
OBVIOUS

LEMMA ThenThree ==
    ASSUME NEW W, NEW a \in W, NEW x \in W, NEW y \in W, NEW z \in W PROVE <<a>> \o <<x, y, z>> = <<a, x, y, z>>
<1> DEFINE s == <<a>> \o <<x, y, z>>
<1>1. <<a>> \in Seq(W) /\ <<x, y, z>> \in Seq(W)
  OBVIOUS
<1>2. Len(s) = 4 /\ s[1] = a /\ s[2] = x /\ s[3] = y /\ s[4] = z
  BY <1>1
<1>3. s \in Seq(W)
  BY <1>1
<1> HIDE DEF s
<1>4. s = <<a, x, y, z>>
  BY <1>2, <1>3
<1> QED BY <1>4 DEF s

LEMMA ThenFour ==
    ASSUME NEW W, NEW a \in W, NEW x \in W, NEW y \in W, NEW z \in W, NEW b \in W, NEW s, s = <<a>> \o <<x, y, z, b>>
    PROVE  s \in Seq(W) /\ Len(s) = 5 /\ s[1] = a /\ s[2] = x /\ s[3] = y /\ s[4] = z /\ s[5] = b
<1>1. <<a>> \in Seq(W) /\ <<x, y, z, b>> \in Seq(W)
  OBVIOUS
<1>2. Len(s) = 5 /\ s[1] = a /\ s[2] = x /\ s[3] = y /\ s[4] = z /\ s[5] = b
  BY <1>1
<1>3. s \in Seq(W)
  BY <1>1
<1> QED BY <1>2, <1>3

LEMMA Literals ==
    /\ On \in Seq(Printed) /\ Len(On) = 3 /\ On[1] = Blank
    /\ Opening \in Seq(Printed) /\ Len(Opening) = 2 /\ Opening[1] = Blank /\ Opening[2] = "("
    /\ FsType \in Seq(Printed) /\ Len(FsType) = 1 /\ FsType[1] = "fskit-s3"
    /\ Flags \in Seq(Printed) /\ On # <<>> /\ Opening # <<>>
<1>1. On \in Seq(Printed) /\ Len(On) = 3 /\ On[1] = Blank
  BY PrintedSymbols, ThreeSymbols, Zenon DEF On
<1>2. Opening \in Seq(Printed)
  BY PrintedSymbols, TwoSymbols, Zenon DEF Opening
<1>3. Len(Opening) = 2 /\ Opening[1] = Blank /\ Opening[2] = "("
  BY DEF Opening
<1>4. FsType \in Seq(Printed) /\ Len(FsType) = 1 /\ FsType[1] = "fskit-s3"
  BY PrintedSymbols, OneSymbol, Zenon DEF FsType
<1>5. Flags \in Seq(Printed)
  BY PrintedSymbols, FourSymbols, Zenon DEF Flags
<1>6. On # <<>> /\ Opening # <<>>
  BY DEF On, Opening
<1> QED BY <1>1, <1>2, <1>3, <1>4, <1>5, <1>6

(* What follows the mount point's opening.                                 *)
LEMMA TypeAndFlags ==
    /\ FsType \o Flags \in Seq(Printed) /\ Len(FsType \o Flags) = 5
    /\ (FsType \o Flags)[1] = "fskit-s3" /\ (FsType \o Flags)[2] = "," /\ (FsType \o Flags)[3] = Blank
    /\ (FsType \o Flags)[4] = "local" /\ (FsType \o Flags)[5] = ")"
<1>1. PICK u : u = FsType \o Flags
  OBVIOUS
<1>2. u = <<"fskit-s3">> \o <<",", Blank, "local", ")">>
  BY <1>1, Zenon DEF FsType, Flags
<1>3. /\ u \in Seq(Printed) /\ Len(u) = 5 /\ u[1] = "fskit-s3" /\ u[2] = "," /\ u[3] = Blank
      /\ u[4] = "local" /\ u[5] = ")"
  <2>1. PICK W, a, x, y, z, b : W = Printed /\ a = "fskit-s3" /\ x = "," /\ y = Blank /\ z = "local" /\ b = ")"
    BY Zenon
  <2>2. a \in W /\ x \in W /\ y \in W /\ z \in W /\ b \in W
    BY <2>1, PrintedSymbols, Zenon
  <2>3. u = <<a>> \o <<x, y, z, b>>
    BY <1>2, <2>1, Zenon
  <2>4. u \in Seq(W) /\ Len(u) = 5 /\ u[1] = a /\ u[2] = x /\ u[3] = y /\ u[4] = z /\ u[5] = b
    BY <2>2, <2>3, ThenFour
  <2> QED BY <2>1, <2>4, Zenon
<1> QED BY <1>1, <1>3, Zenon

LEMMA RowMade ==
    ASSUME NEW device \in Seq(Printed), NEW point \in Seq(Printed)
    PROVE  \E rest \in Seq(Printed) : /\ Made(Row(device, point), device, On, rest)
                                      /\ Made(rest, point, Opening, FsType \o Flags)
<1>1. PICK m, q, f, g : m = On /\ q = Opening /\ f = FsType /\ g = Flags
  OBVIOUS
<1>2. m \in Seq(Printed) /\ q \in Seq(Printed) /\ f \in Seq(Printed) /\ g \in Seq(Printed)
  BY <1>1, Literals
<1>3. PICK dm, pq, rest : dm = device \o m /\ pq = point \o q /\ rest = (pq \o f) \o g
  OBVIOUS
<1>4. dm \in Seq(Printed) /\ pq \in Seq(Printed)
  BY <1>2, <1>3, Glued
<1>5. rest \in Seq(Printed)
  <2>1. pq \o f \in Seq(Printed)
    BY <1>2, <1>4, Glued
  <2> QED BY <1>2, <1>3, <2>1, Glued
<1>6. Chained(dm, point, q, f, g)
  BY <1>2, <1>4, Associate
<1>7. Row(device, point) = (((dm \o point) \o q) \o f) \o g
  BY <1>1, <1>3, Zenon DEF Row, On, Opening, Flags
<1>8. Made(Row(device, point), device, On, rest)
  BY <1>1, <1>3, <1>6, <1>7 DEF Chained, Made
<1>9. Glues(pq, f, g)
  BY <1>2, <1>4, Assoc, Zenon
<1>10. Made(rest, point, Opening, FsType \o Flags)
  BY <1>1, <1>3, <1>9 DEF Made, Glues
<1> QED BY <1>5, <1>8, <1>10

(* The device has no blank, so " on " is first found behind it.            *)
LEMMA DeviceCut ==
    ASSUME NEW device \in Seq(Printed), Plain(device, {Blank}), NEW rest \in Seq(Printed), NEW row,
           Made(row, device, On, rest)
    PROVE  SplitOnce(row, On) = <<device, rest>>
<1>1. On \in Seq(Printed) /\ On # <<>> /\ Len(On) = 3 /\ On[1] = Blank
  BY Literals
<1>2. row \in Seq(Printed) /\ \A i \in 1..Len(device) : row[i] = device[i]
  BY <1>1, MadeTyped
<1>3. ASSUME NEW i \in Matches(row, On) PROVE Len(device) + 1 <= i
  <2>1. i \in 1..Len(row) /\ At(row, On, i)
    BY <1>1, <1>2, <1>3, Matching
  <2>2. row[i + 1 - 1] = On[1]
    BY <1>1, <2>1, SMTT(30) DEF At
  <2>3. i \in Nat /\ i >= 1 /\ Len(device) \in Nat
    BY <1>2, <2>1
  <2>4. row[i] = Blank
    BY <1>1, <2>2, <2>3
  <2>5. CASE i <= Len(device)
    <3>1. i \in 1..Len(device)
      BY <2>3, <2>5
    <3> QED BY <1>2, <2>4, <3>1 DEF Plain
  <2> QED BY <2>3, <2>5
<1> QED BY <1>1, <1>3, SplitOnceAt

(* Behind the mount point there is no " (" but its own.                    *)
LEMMA PointCut ==
    ASSUME NEW point \in Seq(Printed), NEW rest, Made(rest, point, Opening, FsType \o Flags)
    PROVE  RSplitOnce(rest, Opening) = <<point, FsType \o Flags>>
<1>1. PICK u, m : u = FsType \o Flags /\ m = Opening
  OBVIOUS
<1>2. u \in Seq(Printed) /\ Len(u) = 5 /\ u[1] # Blank /\ u[2] # Blank /\ u[4] # "(" /\ u[4] # Blank /\ u[5] # Blank
  BY <1>1, TypeAndFlags, Zenon DEF Blank
<1>3. m \in Seq(Printed) /\ Len(m) = 2 /\ m[1] = Blank /\ m[2] = "(" /\ m # <<>>
  BY <1>1, Literals
<1>4. Made(rest, point, m, u)
  BY <1>1
<1>5. /\ rest \in Seq(Printed) /\ Len(rest) = Len(point) + 7 /\ Len(point) \in Nat
      /\ rest[Len(point) + 2] = "("
      /\ \A i \in 1..5 : rest[Len(point) + 2 + i] = u[i]
  <2>1. /\ rest \in Seq(Printed) /\ Len(rest) = Len(point) + Len(m) + Len(u) /\ Len(point) \in Nat
        /\ \A i \in 1..Len(m) : rest[Len(point) + i] = m[i]
        /\ \A i \in 1..Len(u) : rest[Len(point) + Len(m) + i] = u[i]
    <3>1. u \in Seq(Printed) /\ m \in Seq(Printed)
      BY <1>2, <1>3
    <3> QED BY <1>4, <3>1, MadeTyped
  <2>2. rest[Len(point) + 2] = m[2]
    <3>1. 2 \in 1..2
      OBVIOUS
    <3> QED BY <1>3, <2>1, <3>1
  <2> QED BY <1>2, <1>3, <2>1, <2>2
<1>6. ASSUME NEW i \in Matches(rest, m) PROVE Len(point) + 1 >= i
  <2>1. i \in 1..Len(rest) /\ At(rest, m, i)
    BY <1>3, <1>5, <1>6, Matching
  <2>2. i \in Nat /\ i + 1 <= Len(point) + 7 /\ rest[i] = Blank /\ rest[i + 1] = "("
    <3>1. rest[i + 1 - 1] = m[1] /\ rest[i + 2 - 1] = m[2] /\ i + 2 - 1 <= Len(rest) /\ i \in Nat
      BY <1>3, <1>5, <2>1 DEF At
    <3> QED BY <1>3, <1>5, <3>1
  <2>3. ASSUME i > Len(point) + 1 PROVE FALSE
    <3>1. PICK j \in 0..4 : i = Len(point) + 2 + j
      <4>1. i - (Len(point) + 2) \in 0..4
        BY <1>5, <2>2, <2>3
      <4> QED BY <1>5, <2>2, <4>1
    <3>2. CASE j = 0
      <4>1. i = Len(point) + 2
        BY <1>5, <3>1, <3>2
      <4>2. rest[i] = "(" /\ rest[i] = Blank
        BY <1>5, <2>2, <4>1
      <4> QED BY <4>2, Zenon DEF Blank
    <3>3. CASE j # 0
      <4>1. j \in 1..5 /\ j + 1 \in 1..5 /\ (j = 1 \/ j = 2 \/ j = 3 \/ j = 4)
        BY <3>1, <3>3
      <4>2. u[j] = Blank
        BY <1>5, <2>2, <3>1, <4>1
      <4>3. u[j + 1] = "("
        BY <1>5, <2>2, <3>1, <4>1
      <4> QED BY <1>2, <4>1, <4>2, <4>3
    <3> QED BY <3>2, <3>3
  <2> QED BY <1>5, <2>2, <2>3
<1>7. RSplitOnce(rest, m) = <<point, u>>
  BY <1>2, <1>3, <1>4, <1>6, RSplitOnceAt
<1> QED BY <1>1, <1>7

(* The first flag is the type.                                             *)
LEMMA TypeFirst == Split(FsType \o Flags, ",")[1] = FsType
<1>1. PICK f, g, c, v : f = FsType /\ g = Flags /\ c = <<",">> /\ v = <<Blank, "local", ")">>
  BY Zenon
<1>2. f \in Seq(Printed) /\ g \in Seq(Printed) /\ Len(f) = 1 /\ f[1] = "fskit-s3"
  BY <1>1, Literals, Zenon
<1>3. c \in Seq(Printed) /\ v \in Seq(Printed) /\ "," \in Printed
  BY <1>1, PrintedSymbols, OneSymbol, ThreeSymbols, Zenon
<1>4. c \o v = g
  <2>1. <<",">> \o <<Blank, "local", ")">> = <<",", Blank, "local", ")">>
    <3>1. PICK W, a, x, y, z : W = Printed /\ a = "," /\ x = Blank /\ y = "local" /\ z = ")"
      BY Zenon
    <3>2. a \in W /\ x \in W /\ y \in W /\ z \in W
      BY <3>1, PrintedSymbols, Zenon
    <3>3. <<a>> \o <<x, y, z>> = <<a, x, y, z>>
      BY <3>2, ThenThree
    <3> QED BY <3>1, <3>3, Zenon
  <2> QED BY <1>1, <2>1, Zenon DEF Flags
<1>0. f \in Seq(Printed) /\ c \in Seq(Printed) /\ v \in Seq(Printed)
  BY <1>2, <1>3, Zenon
<1>5. (f \o c) \o v = f \o (c \o v)
  <2>1. Glues(f, c, v)
    BY <1>0, Assoc, Zenon
  <2> QED BY <2>1 DEF Glues
<1>6. Plain(f, {","})
  <2>1. \A i \in 1..Len(f) : f[i] = "fskit-s3"
    BY <1>2
  <2> QED BY <2>1, Zenon DEF Plain
<1>7. Split((f \o c) \o v, ",") = <<f>> \o Split(v, ",")
  BY <1>1, <1>2, <1>3, <1>6, SplitAt, Zenon
<1>8. (<<f>> \o Split(v, ","))[1] = f
  <2>1. PICK U, s, r : U = Seq(Printed) /\ s = <<f>> /\ r = Split(v, ",")
    BY Zenon
  <2>2. f \in U /\ r \in Seq(U)
    BY <1>2, <1>3, <2>1, SplitTyped, Zenon DEF Parts
  <2>3. s \in Seq(U) /\ Len(s) = 1 /\ s[1] = f
    BY <2>1, <2>2, OneSymbol, Zenon
  <2>4. (s \o r)[1] = s[1]
    <3>1. s # <<>>
      BY <2>3
    <3> QED BY <2>2, <2>3, <3>1, LongerStarts
  <2> QED BY <2>1, <2>3, <2>4, Zenon
<1> QED BY <1>1, <1>4, <1>5, <1>7, <1>8, Zenon

LEMMA TypeTrimmed == Trim(SubSeq(FsType, 1, Texts!SelectLastInSeq(FsType, LAMBDA c : c # ")"))) = FsType
<1>1. PICK f : f = FsType
  OBVIOUS
<1>2. f \in Seq(Printed) /\ Len(f) = 1 /\ f[1] = "fskit-s3" /\ f = <<"fskit-s3">>
  BY <1>1, Literals DEF FsType
<1> DEFINE I == {k \in 1..Len(f) : f[k] # ")"}
<1>3. Texts!SelectLastInSeq(f, LAMBDA c : c # ")") = IF I # {} THEN Texts!Max(I) ELSE 0
  BY DEF Texts!SelectLastInSeq
<1>4. I = {1}
  BY <1>2
<1>5. Texts!Max({1}) = 1
  BY DEF Texts!Max
<1>6. Texts!SelectLastInSeq(f, LAMBDA c : c # ")") = 1
  BY <1>3, <1>4, <1>5
<1>7. SubSeq(f, 1, 1) = f
  <2>1. /\ SubSeq(f, 1, 1) \in Seq(Printed) /\ Len(SubSeq(f, 1, 1)) = 1 - 1 + 1
        /\ \A k \in 1..(1 - 1 + 1) : SubSeq(f, 1, 1)[k] = f[1 + k - 1]
    <3>1. 1 \in Int /\ \A k \in 1..1 : f[k] \in Printed
      BY <1>2
    <3> QED BY <3>1, SubSeqProperties
  <2>2. \A k \in 1..Len(SubSeq(f, 1, 1)) : SubSeq(f, 1, 1)[k] = f[k]
    BY <2>1
  <2>3. f \in Seq(Printed) /\ Len(f) = 1 /\ Len(SubSeq(f, 1, 1)) = 1
    BY <1>2, <2>1
  <2> QED BY <2>1, <2>2, <2>3, Same
<1>8. Trim(f) = f
  BY <1>2, TrimOne, Zenon DEF Blank
<1> QED BY <1>1, <1>6, <1>7, <1>8

LEMMA RowRead ==
    ASSUME NEW device \in Seq(Printed), Plain(device, {Blank}), NEW point \in Seq(Printed), Trim(point) = point
    PROVE  ParseRow(Row(device, point)).mount_point = point /\ ParseRow(Row(device, point)).fs_type = FsType
<1>1. PICK rest \in Seq(Printed) : /\ Made(Row(device, point), device, On, rest)
                                   /\ Made(rest, point, Opening, FsType \o Flags)
  BY RowMade
<1>2. SplitOnce(Row(device, point), On) = <<device, rest>>
  BY <1>1, DeviceCut
<1>3. RSplitOnce(rest, Opening) = <<point, FsType \o Flags>>
  BY <1>1, PointCut
<1>4. SplitOnce(Row(device, point), <<Blank, "on", Blank>>)[2] = rest
  BY <1>2 DEF On
<1>5. RSplitOnce(rest, <<Blank, "(">>)[1] = point /\ RSplitOnce(rest, <<Blank, "(">>)[2] = FsType \o Flags
  <2>1. PICK x, y, cut : x = point /\ y = FsType \o Flags /\ cut = RSplitOnce(rest, Opening)
    OBVIOUS
  <2>2. cut = <<x, y>>
    BY <1>3, <2>1
  <2>3. cut[1] = x /\ cut[2] = y
    BY ONLY <2>2
  <2> QED BY <2>1, <2>3, Zenon DEF Opening
<1>6. ParseRow(Row(device, point)) =
          [mount_point |-> Trim(point),
           fs_type |-> Trim(SubSeq(FsType, 1, Texts!SelectLastInSeq(FsType, LAMBDA c : c # ")")))]
  BY <1>4, <1>5, TypeFirst, Zenon DEF ParseRow
<1> QED BY <1>6, TypeTrimmed

LEMMA MountRight == InputTyped => MountIsFound
<1> SUFFICES ASSUME InputTyped, TestedForm, ~HasAny(SourcePath(Config(input.form)), {Blank})
             PROVE  /\ ParseRow(Row(SourcePath(Config(input.form)), Trim(input.form.mount_point))).mount_point
                       = Trim(input.form.mount_point)
                    /\ ParseRow(Row(SourcePath(Config(input.form)), Trim(input.form.mount_point))).fs_type = FsType
  BY DEF MountIsFound
<1>1. PICK device, point : device = SourcePath(Config(input.form)) /\ point = Trim(input.form.mount_point)
  OBVIOUS
<1>2. device \in Seq(Printed)
  BY <1>1, FormIsTyped, DeviceTyped, PrintedSymbols, Zenon
<1>3. point \in Seq(Printed) /\ Trim(point) = point
  <2>1. PICK t : t = input.form.mount_point
    OBVIOUS
  <2>2. t \in Seq(Word)
    <3>1. "mount_point" \in TextFields
      BY DEF TextFields
    <3>2. input.form["mount_point"] \in Seq(Word)
      BY <3>1, FormIsTyped, FieldsTyped
    <3> QED BY <2>1, <3>2
  <2>3. Trim(t) \in Seq(Word) /\ Trim(Trim(t)) = Trim(t)
    BY <2>2, TrimTyped, TrimAgain
  <2> QED BY <1>1, <2>1, <2>3, PrintedSymbols, Zenon
<1>4. Plain(device, {Blank})
  <2>1. DOMAIN device = 1..Len(device)
    BY <1>2
  <2> QED BY <1>1, <2>1 DEF HasAny, Plain
<1> QED BY <1>1, <1>2, <1>3, <1>4, RowRead

-----------------------------------------------------------------------------
(* The probe's answer. *)

(* The first such key is at n, and a word of one symbol follows it.        *)
FieldAt(t, key, n, x) ==
    /\ n \in 1..(Len(t) - 1) /\ t[n] = key /\ t[n + 1] = x
    /\ \A i \in 1..(n - 1) : t[i] # key
    /\ n + 2 <= Len(t) => t[n + 2] = Blank

LEMMA FirstOfRest ==
    ASSUME NEW W, NEW key \in W, Blank \in W, key # Blank, NEW rest \in Seq(W), rest = <<>> \/ rest[1] = Blank,
           NEW u, u = Split(rest, key)[1]
    PROVE  u \in Seq(W) /\ (u = <<>> \/ u[1] = Blank)
<1>1. CASE rest = <<>>
  <2>1. <<>> \in Seq(W) /\ Plain(<<>>, {key})
    BY DEF Plain
  <2>2. Split(rest, key) = << <<>> >>
    BY <1>1, <2>1, SplitPlain
  <2>3. u = <<>>
    BY <2>2
  <2> QED BY <2>1, <2>3
<1>2. CASE rest # <<>>
  <2>1. rest[1] = Blank /\ Len(rest) \in Nat /\ Len(rest) # 0
    BY <1>2
  <2>2. PICK b, s : b = <<Blank>> /\ s = SubSeq(rest, 2, Len(rest))
    OBVIOUS
  <2>3. s \in Seq(W) /\ Len(s) = Len(rest) - 1 /\ \A k \in 1..(Len(rest) - 1) : s[k] = rest[1 + k]
    <3>1. 2 \in Int /\ Len(rest) \in Int /\ \A k \in 2..Len(rest) : rest[k] \in W
      BY <2>1
    <3>2. /\ SubSeq(rest, 2, Len(rest)) \in Seq(W)
          /\ Len(SubSeq(rest, 2, Len(rest))) = IF 2 <= Len(rest) THEN Len(rest) - 2 + 1 ELSE 0
          /\ \A k \in 1..(Len(rest) - 2 + 1) : SubSeq(rest, 2, Len(rest))[k] = rest[2 + k - 1]
      BY <3>1, SubSeqProperties
    <3> QED BY <2>1, <2>2, <3>2
  <2>4. b \in Seq(W) /\ Len(b) = 1 /\ b[1] = Blank
    BY <2>2, OneSymbol
  <2>5. /\ b \o s \in Seq(W) /\ Len(b \o s) = Len(b) + Len(s)
        /\ \A i \in 1..Len(b) : (b \o s)[i] = b[i]
        /\ \A i \in 1..Len(s) : (b \o s)[Len(b) + i] = s[i]
    <3>1. b \in Seq(W) /\ s \in Seq(W)
      BY <2>3, <2>4
    <3> QED BY <3>1, Glued
  <2>6. rest = b \o s
    <3>1. PICK g : g = b \o s
      OBVIOUS
    <3>2. g \in Seq(W) /\ Len(g) = Len(rest) /\ g[1] = Blank /\ \A i \in 1..(Len(rest) - 1) : g[1 + i] = s[i]
      <4>1. 1 \in 1..1
        OBVIOUS
      <4> QED BY <2>1, <2>3, <2>4, <2>5, <3>1, <4>1
    <3>3. ASSUME NEW i \in 1..Len(rest) PROVE rest[i] = g[i]
      <4>1. CASE i = 1
        BY <2>1, <3>2, <4>1
      <4>2. CASE i # 1
        <5>1. i - 1 \in 1..(Len(rest) - 1) /\ 1 + (i - 1) = i
          BY <2>1, <3>3, <4>2
        <5> QED BY <2>3, <3>2, <5>1
      <4> QED BY <4>1, <4>2
    <3> QED BY <3>1, <3>2, <3>3, Same
  <2>7. Plain(b, {key})
    <3>1. \A i \in 1..Len(b) : b[i] = Blank
      BY <2>4
    <3> QED BY <3>1 DEF Plain
  <2>8. Split(b \o s, key)[1] = b \o Split(s, key)[1] /\ Split(b \o s, key)[1] \in Seq(W) /\ Split(s, key)[1] \in Seq(W)
    <3>1. b \in Seq(W) /\ s \in Seq(W)
      BY <2>3, <2>4
    <3>2. Split(s, key) \in Seq(Seq(W)) /\ Split(s, key) # <<>>
      BY <3>1, SplitTyped DEF Parts
    <3>3. Split(s, key)[1] \in Seq(W)
      BY <3>2
    <3>4. Split(b \o s, key)[1] = b \o Split(s, key)[1]
      BY <2>7, <3>1, FirstPart, ZenonT(40)
    <3>5. b \o Split(s, key)[1] \in Seq(W)
      BY <3>1, <3>3, Glued
    <3> QED BY <3>3, <3>4, <3>5
  <2>9. (b \o Split(s, key)[1])[1] = b[1]
    <3>0. b # <<>>
      BY <2>2
    <3>1. b # <<>> /\ b \in Seq(W)
      BY <2>4, <3>0
    <3> QED BY <2>8, <3>1, LongerStarts
  <2> QED BY <2>4, <2>6, <2>8, <2>9
<1> QED BY <1>1, <1>2

LEMMA Taken ==
    ASSUME NEW W, NEW t \in Seq(W), NEW i \in 1..(Len(t) + 1), NEW j \in 0..Len(t), i <= j + 1, NEW s, s = SubSeq(t, i, j)
    PROVE  s \in Seq(W) /\ Len(s) = j - i + 1 /\ \A k \in 1..(j - i + 1) : s[k] = t[i + k - 1]
<1>1. i \in Int /\ j \in Int /\ \A k \in i..j : t[k] \in W
  OBVIOUS
<1>2. /\ SubSeq(t, i, j) \in Seq(W) /\ Len(SubSeq(t, i, j)) = IF i <= j THEN j - i + 1 ELSE 0
      /\ \A k \in 1..(j - i + 1) : SubSeq(t, i, j)[k] = t[i + k - 1]
  BY <1>1, SubSeqProperties
<1>3. Len(s) = j - i + 1
  BY <1>1, <1>2
<1> QED BY <1>2, <1>3

LEMMA FieldRead ==
    ASSUME NEW W, NEW key \in W, Blank \in W, key # Blank, NEW x \in W, x # Blank, x # key,
           NEW t \in Seq(W), NEW n, FieldAt(t, key, n, x)
    PROVE  Field(t, key) = <<x>>
<1>1. /\ Len(t) \in Nat /\ n \in Nat /\ n >= 1 /\ n + 1 <= Len(t) /\ t[n] = key /\ t[n + 1] = x
      /\ \A i \in 1..(n - 1) : t[i] # key
      /\ n + 2 <= Len(t) => t[n + 2] = Blank
  BY DEF FieldAt
<1>2. PICK p, rest, k, y : /\ p = SubSeq(t, 1, n - 1) /\ rest = SubSeq(t, n + 2, Len(t)) /\ k = <<key>> /\ y = <<x>>
  OBVIOUS
<1>3. p \in Seq(W) /\ Len(p) = n - 1 /\ \A i \in 1..(n - 1) : p[i] = t[i]
  <2>1. 1 \in 1..(Len(t) + 1) /\ n - 1 \in 0..Len(t) /\ 1 <= (n - 1) + 1
    BY <1>1
  <2>2. p \in Seq(W) /\ Len(p) = (n - 1) - 1 + 1 /\ \A i \in 1..((n - 1) - 1 + 1) : p[i] = t[1 + i - 1]
    BY <1>2, <2>1, Taken
  <2> QED BY <1>1, <2>2
<1>4. rest \in Seq(W) /\ Len(rest) = Len(t) - (n + 1) /\ \A i \in 1..(Len(t) - (n + 1)) : rest[i] = t[(n + 1) + i]
  <2>1. n + 2 \in 1..(Len(t) + 1) /\ Len(t) \in 0..Len(t) /\ n + 2 <= Len(t) + 1
    BY <1>1
  <2>2. rest \in Seq(W) /\ Len(rest) = Len(t) - (n + 2) + 1
        /\ \A i \in 1..(Len(t) - (n + 2) + 1) : rest[i] = t[(n + 2) + i - 1]
    BY <1>2, <2>1, Taken
  <2> QED BY <1>1, <2>2
<1>5. k \in Seq(W) /\ Len(k) = 1 /\ k[1] = key /\ y \in Seq(W) /\ Len(y) = 1 /\ y[1] = x
  BY <1>2, OneSymbol
<1>6. PICK q, g, pk : q = y \o rest /\ pk = p \o k /\ g = pk \o q
  OBVIOUS
<1>7. q \in Seq(W) /\ Len(q) = 1 + Len(rest) /\ q[1] = x /\ \A i \in 1..Len(rest) : q[1 + i] = rest[i]
  <2>1. /\ y \o rest \in Seq(W) /\ Len(y \o rest) = Len(y) + Len(rest)
        /\ \A i \in 1..Len(y) : (y \o rest)[i] = y[i]
        /\ \A i \in 1..Len(rest) : (y \o rest)[Len(y) + i] = rest[i]
    <3>1. y \in Seq(W) /\ rest \in Seq(W)
      BY <1>4, <1>5
    <3> QED BY <3>1, Glued
  <2>2. 1 \in 1..1
    OBVIOUS
  <2> QED BY <1>5, <1>6, <2>1, <2>2
<1>8. pk \in Seq(W) /\ Len(pk) = n /\ pk[n] = key /\ \A i \in 1..(n - 1) : pk[i] = p[i]
  <2>1. /\ p \o k \in Seq(W) /\ Len(p \o k) = Len(p) + Len(k)
        /\ \A i \in 1..Len(p) : (p \o k)[i] = p[i]
        /\ \A i \in 1..Len(k) : (p \o k)[Len(p) + i] = k[i]
    <3>1. p \in Seq(W) /\ k \in Seq(W)
      BY <1>3, <1>5
    <3> QED BY <3>1, Glued
  <2>2. 1 \in 1..Len(k) /\ Len(p) + 1 = n
    BY <1>1, <1>3, <1>5
  <2>3. (p \o k)[n] = k[1]
    BY <2>1, <2>2
  <2> QED BY <1>1, <1>3, <1>5, <1>6, <2>1, <2>3
<1>9. g \in Seq(W) /\ Len(g) = n + Len(q) /\ (\A i \in 1..n : g[i] = pk[i]) /\ \A i \in 1..Len(q) : g[n + i] = q[i]
  <2>1. /\ pk \o q \in Seq(W) /\ Len(pk \o q) = Len(pk) + Len(q)
        /\ \A i \in 1..Len(pk) : (pk \o q)[i] = pk[i]
        /\ \A i \in 1..Len(q) : (pk \o q)[Len(pk) + i] = q[i]
    <3>1. pk \in Seq(W) /\ q \in Seq(W)
      BY <1>7, <1>8
    <3> QED BY <3>1, Glued
  <2> QED BY <1>6, <1>8, <2>1
<1>10. Len(g) = Len(t)
  BY <1>1, <1>4, <1>7, <1>9
<1>11. ASSUME NEW i \in 1..Len(t) PROVE t[i] = g[i]
  <2>1. CASE i < n
    <3>1. i \in 1..(n - 1) /\ i \in 1..n
      BY <1>1, <1>11, <2>1
    <3> QED BY <1>3, <1>8, <1>9, <3>1
  <2>2. CASE i = n
    <3>1. n \in 1..n
      BY <1>1
    <3> QED BY <1>1, <1>8, <1>9, <2>2, <3>1
  <2>3. CASE i = n + 1
    <3>1. 1 \in 1..Len(q)
      BY <1>1, <1>4, <1>7
    <3>2. g[n + 1] = q[1]
      BY <1>9, <3>1
    <3> QED BY <1>1, <1>7, <2>3, <3>2
  <2>4. CASE i > n + 1
    <3>1. i - (n + 1) \in 1..Len(rest) /\ 1 + (i - (n + 1)) \in 1..Len(q) /\ n + (1 + (i - (n + 1))) = i
          /\ (n + 1) + (i - (n + 1)) = i
      BY <1>1, <1>4, <1>7, <1>11, <2>4
    <3>2. g[n + (1 + (i - (n + 1)))] = q[1 + (i - (n + 1))]
      BY <1>9, <3>1
    <3>3. q[1 + (i - (n + 1))] = rest[i - (n + 1)]
      BY <1>7, <3>1
    <3>4. rest[i - (n + 1)] = t[(n + 1) + (i - (n + 1))]
      BY <1>1, <1>4, <3>1
    <3> QED BY <3>1, <3>2, <3>3, <3>4
  <2> QED BY <1>1, <1>11, <2>1, <2>2, <2>3, <2>4
<1>12. t = g
  BY <1>9, <1>10, <1>11, Same
<1>13. Plain(p, {key}) /\ Plain(y, {key})
  <2>1. \A i \in 1..Len(p) : p[i] # key
    BY <1>1, <1>3
  <2>2. \A i \in 1..Len(y) : y[i] # key
    BY <1>5
  <2> QED BY <2>1, <2>2 DEF Plain
<1>14. Matches(t, <<key>>) # {}
  <2>1. ~Plain(t, {key})
    <3>1. n \in 1..Len(t)
      BY <1>1
    <3> QED BY <1>1, <3>1 DEF Plain
  <2> QED BY <2>1, NoMatch
<1>15. Split(t, key) = <<p>> \o Split(q, key)
  <2>1. p \in Seq(W) /\ q \in Seq(W)
    BY <1>3, <1>7
  <2>2. Split((p \o <<key>>) \o q, key) = <<p>> \o Split(q, key)
    BY <1>13, <2>1, SplitAt
  <2> QED BY <1>2, <1>6, <1>12, <2>2
<1>16. Split(t, key)[2] = Split(q, key)[1]
  <2>1. PICK U, s, r : U = Seq(W) /\ s = <<p>> /\ r = Split(q, key)
    OBVIOUS
  <2>2. p \in U /\ r \in Seq(U) /\ r # <<>>
    BY <1>3, <1>7, <2>1, SplitTyped DEF Parts
  <2>3. s \in Seq(U) /\ Len(s) = 1
    BY <2>1, <2>2, OneSymbol
  <2>4. \A i \in 1..Len(r) : (s \o r)[Len(s) + i] = r[i]
    <3>1. s \in Seq(U) /\ r \in Seq(U)
      BY <2>2, <2>3
    <3> QED BY <3>1, Glued
  <2>5. 1 \in 1..Len(r)
    BY <2>2
  <2> QED BY <1>15, <2>1, <2>3, <2>4, <2>5
<1>17. PICK u : u = Split(rest, key)[1]
  OBVIOUS
<1>18. u \in Seq(W) /\ (u = <<>> \/ u[1] = Blank)
  <2>1. rest = <<>> \/ rest[1] = Blank
    <3>1. CASE Len(rest) = 0
      BY <1>4, <3>1
    <3>2. CASE Len(rest) # 0
      <4>1. 1 \in 1..(Len(t) - (n + 1)) /\ n + 2 <= Len(t) /\ (n + 1) + 1 = n + 2
        BY <1>1, <1>4, <3>2
      <4>2. rest[1] = t[(n + 1) + 1]
        BY <1>4, <4>1
      <4> QED BY <1>1, <4>1, <4>2
    <3> QED BY <3>1, <3>2
  <2>2. rest \in Seq(W)
    BY <1>4
  <2> QED BY <1>17, <2>1, <2>2, FirstOfRest
<1>19. Split(q, key)[1] = y \o u
  <2>1. y \in Seq(W) /\ rest \in Seq(W)
    BY <1>4, <1>5
  <2>2. Split(y \o rest, key)[1] = y \o Split(rest, key)[1]
    BY <1>13, <2>1, FirstPart, ZenonT(60)
  <2> QED BY <1>6, <1>17, <2>2
<1>20. Split(Trim(<<x>> \o u), Blank)[1] = <<x>>
  BY <1>18, FirstWord
<1>21. Split(Trim(Split(t, key)[2]), Blank)[1] = <<x>>
  BY <1>2, <1>16, <1>19, <1>20
<1> QED BY <1>14, <1>21 DEF Field

Output == {"w", Blank, "version=", "sha=", "running:", "v", "s"}

Answer == <<"running:", Blank, "version=", "v", Blank, "sha=", "s">>

LEMMA AnswerTyped ==
    /\ Answer \in Seq(Output) /\ Len(Answer) = 7
    /\ Answer[1] = "running:" /\ Answer[2] = Blank /\ Answer[3] = "version=" /\ Answer[4] = "v"
    /\ Answer[5] = Blank /\ Answer[6] = "sha=" /\ Answer[7] = "s"
<1>1. PICK a, b, c, d, e, f, W : /\ a = "running:" /\ b = Blank /\ c = "version=" /\ d = "v" /\ e = "sha=" /\ f = "s"
                                 /\ W = Output
  OBVIOUS
<1>2. a \in W /\ b \in W /\ c \in W /\ d \in W /\ e \in W /\ f \in W
  BY <1>1 DEF Output
<1>3. <<a, b, c, d, b, e, f>> \in Seq(W) /\ Len(<<a, b, c, d, b, e, f>>) = 7
  BY <1>2
<1>4. Answer = <<a, b, c, d, b, e, f>>
  BY <1>1 DEF Answer
<1>5. /\ Answer[1] = a /\ Answer[2] = b /\ Answer[3] = c /\ Answer[4] = d
      /\ Answer[5] = b /\ Answer[6] = e /\ Answer[7] = f
  BY <1>4
<1> QED BY <1>1, <1>3, <1>4, <1>5

LEMMA AnswerRead ==
    ASSUME NEW before \in Seq({"w", Blank}), NEW after \in Seq({"w", Blank, "version=", "sha="}), Apart(after)
    PROVE  ParseInfo(before \o Answer \o after) = Info(<<"v">>, <<"s">>)
<1>1. PICK W, m, g, t : W = Output /\ m = Answer /\ g = before \o m /\ t = g \o after
  OBVIOUS
<1>2. before \in Seq(W) /\ after \in Seq(W) /\ m \in Seq(W)
  <2>1. {"w", Blank} \subseteq W /\ {"w", Blank, "version=", "sha="} \subseteq W
    BY <1>1 DEF Output
  <2> QED BY <1>1, <2>1, SeqMonotonic, AnswerTyped
<1>3. /\ g \in Seq(W) /\ Len(g) = Len(before) + Len(m) /\ Len(before) \in Nat
      /\ \A i \in 1..Len(before) : g[i] = before[i]
      /\ \A i \in 1..Len(m) : g[Len(before) + i] = m[i]
  <2>1. /\ before \o m \in Seq(W) /\ Len(before \o m) = Len(before) + Len(m) /\ Len(before) \in Nat
        /\ \A i \in 1..Len(before) : (before \o m)[i] = before[i]
        /\ \A i \in 1..Len(m) : (before \o m)[Len(before) + i] = m[i]
    BY <1>2, Glued
  <2> QED BY <1>1, <2>1
<1>4. /\ t \in Seq(W) /\ Len(t) = Len(g) + Len(after) /\ Len(after) \in Nat
      /\ \A i \in 1..Len(g) : t[i] = g[i]
      /\ \A i \in 1..Len(after) : t[Len(g) + i] = after[i]
  <2>0. g \in Seq(W) /\ after \in Seq(W)
    BY <1>2, <1>3
  <2>1. /\ g \o after \in Seq(W) /\ Len(g \o after) = Len(g) + Len(after) /\ Len(after) \in Nat
        /\ \A i \in 1..Len(g) : (g \o after)[i] = g[i]
        /\ \A i \in 1..Len(after) : (g \o after)[Len(g) + i] = after[i]
    BY <2>0, Glued
  <2> QED BY <1>1, <2>1
<1>5. PICK b \in Nat : b = Len(before)
  BY <1>3
<1>6. Len(m) = 7 /\ Len(g) = b + 7
  BY <1>1, <1>3, <1>5, AnswerTyped
<1>7. \A i \in 1..7 : t[b + i] = m[i]
  <2> TAKE i \in 1..7
  <2>1. g[b + i] = m[i] /\ b + i \in 1..Len(g)
    BY <1>3, <1>5, <1>6, SMTT(30)
  <2> QED BY <1>4, <2>1
<1>8. /\ t[b + 1] = "running:" /\ t[b + 2] = Blank /\ t[b + 3] = "version=" /\ t[b + 4] = "v"
      /\ t[b + 5] = Blank /\ t[b + 6] = "sha=" /\ t[b + 7] = "s"
  <2>1. /\ m[1] = "running:" /\ m[2] = Blank /\ m[3] = "version=" /\ m[4] = "v"
        /\ m[5] = Blank /\ m[6] = "sha=" /\ m[7] = "s"
    BY <1>1, AnswerTyped
  <2>2. 1 \in 1..7 /\ 2 \in 1..7 /\ 3 \in 1..7 /\ 4 \in 1..7 /\ 5 \in 1..7 /\ 6 \in 1..7 /\ 7 \in 1..7
    OBVIOUS
  <2> QED BY <1>7, <2>1, <2>2
<1>9. ASSUME NEW i \in 1..b PROVE t[i] = "w" \/ t[i] = Blank
  <2>1. i \in 1..Len(before) /\ i \in 1..Len(g)
    BY <1>5, <1>6, <1>9
  <2>2. before[i] \in {"w", Blank}
    BY <2>1
  <2>3. t[i] = before[i]
    BY <1>3, <1>4, <2>1
  <2> QED BY <2>2, <2>3
<1>10. Blank \in W /\ Blank = " " /\ "version=" \in W /\ "sha=" \in W /\ "v" \in W /\ "s" \in W
  BY <1>1, Zenon DEF Output, Blank
<1>11. FieldAt(t, "version=", b + 3, "v")
  <2>1. b + 3 \in 1..(Len(t) - 1) /\ (b + 3) + 1 = b + 4 /\ (b + 3) + 2 = b + 5
    BY <1>4, <1>6
  <2>2. ASSUME NEW i \in 1..((b + 3) - 1) PROVE t[i] # "version="
    <3>1. i \in 1..b \/ i = b + 1 \/ i = b + 2
      BY <2>2
    <3> QED BY <1>8, <1>9, <1>10, <3>1, Zenon
  <2> QED BY <1>8, <2>1, <2>2 DEF FieldAt
<1>12. FieldAt(t, "sha=", b + 6, "s")
  <2>1. b + 6 \in 1..(Len(t) - 1) /\ (b + 6) + 1 = b + 7 /\ (b + 6) + 2 = b + 8
    BY <1>4, <1>6
  <2>2. ASSUME NEW i \in 1..((b + 6) - 1) PROVE t[i] # "sha="
    <3>1. i \in 1..b \/ i = b + 1 \/ i = b + 2 \/ i = b + 3 \/ i = b + 4 \/ i = b + 5
      BY <2>2
    <3> QED BY <1>8, <1>9, <1>10, <3>1, Zenon
  <2>3. b + 8 <= Len(t) => t[b + 8] = Blank
    <3> SUFFICES ASSUME b + 8 <= Len(t) PROVE t[b + 8] = Blank
      OBVIOUS
    <3>1. 1 \in 1..Len(after) /\ Len(g) + 1 = b + 8 /\ Len(after) # 0
      BY <1>4, <1>6
    <3>2. t[b + 8] = after[1]
      <4>1. t[Len(g) + 1] = after[1]
        BY <1>4, <3>1
      <4> QED BY <3>1, <4>1
    <3>3. after # <<>>
      BY <3>1
    <3> QED BY <3>2, <3>3 DEF Apart
  <2> QED BY <1>8, <2>1, <2>2, <2>3 DEF FieldAt
<1>13. Field(t, "version=") = <<"v">>
  BY <1>4, <1>10, <1>11, FieldRead, Zenon
<1>14. Field(t, "sha=") = <<"s">>
  BY <1>4, <1>10, <1>12, FieldRead, Zenon
<1>15. <<"v">> # <<>> /\ <<"s">> # <<>>
  OBVIOUS
<1> QED BY <1>1, <1>13, <1>14, <1>15 DEF ParseInfo

LEMMA NoAnswer ==
    ASSUME NEW before \in Seq({"w", Blank}) PROVE ParseInfo(before) = NoInfo
<1>1. PICK W : W = Output
  OBVIOUS
<1>2. before \in Seq(W) /\ "version=" \in W
  <2>1. {"w", Blank} \subseteq W /\ "version=" \in W
    BY <1>1 DEF Output
  <2> QED BY <2>1, SeqMonotonic
<1>3. Plain(before, {"version="})
  <2>1. \A i \in 1..Len(before) : before[i] \in {"w", Blank}
    OBVIOUS
  <2> QED BY <2>1, Zenon DEF Plain, Blank
<1>4. Matches(before, <<"version=">>) = {}
  BY <1>2, <1>3, NoMatch
<1> QED BY <1>4 DEF Field, ParseInfo

LEMMA ProbeRight == InputTyped => ProbeIsRead
<1> SUFFICES ASSUME InputTyped, input.kind = "probe"
             PROVE  /\ ParseInfo(input.before \o InfoMessage(Info("v", "s")) \o input.after) = Info(<<"v">>, <<"s">>)
                    /\ ParseInfo(input.before) = NoInfo
  BY DEF ProbeIsRead
<1>1. /\ input.before \in Seq({"w", Blank}) /\ input.after \in Seq({"w", Blank, "version=", "sha="})
      /\ Apart(input.after)
  BY DEF InputTyped
<1>2. InfoMessage(Info("v", "s")) = Answer
  BY DEF InfoMessage, Info, Answer
<1>3. ParseInfo(input.before \o Answer \o input.after) = Info(<<"v">>, <<"s">>)
  BY <1>1, AnswerRead
<1> QED BY <1>1, <1>2, <1>3, NoAnswer

-----------------------------------------------------------------------------
(* The types. *)

LEMMA PairsTyped ==
    ASSUME NEW config, config.fields \in [QueryFields -> Seq(Word)], NEW ks \in Seq(QueryFields)
    PROVE  PairsOf(config, ks) \in Seq(Seq(Word))
<1>1. ASSUME NEW k \in QueryFields PROVE Pair(config, k) \in Seq(Word)
  <2>1. PICK p, v : p = <<k, "=">> /\ v = config.fields[k]
    OBVIOUS
  <2>2. p \in Seq(Word) /\ v \in Seq(Word)
    <3>1. k \in Word /\ "=" \in Word
      BY Words, Zenon
    <3>2. p \in Seq(Word)
      BY <2>1, <3>1, TwoSymbols
    <3> QED BY <2>1, <3>2
  <2>3. p \o v \in Seq(Word)
    BY <2>2, Glued
  <2> QED BY <2>1, <2>3 DEF Pair
<1>2. PICK U, n, P : U = Seq(Word) /\ n = Len(ks) /\ P = PairsOf(config, ks)
  OBVIOUS
<1>3. n \in Nat /\ DOMAIN ks = 1..n /\ \A i \in 1..n : ks[i] \in QueryFields
  BY <1>2
<1>4. \A i \in 1..n : Pair(config, ks[i]) \in U
  BY <1>1, <1>2, <1>3
<1>5. P = [i \in 1..n |-> Pair(config, ks[i])]
  BY <1>2, <1>3 DEF PairsOf
<1>6. P \in [1..n -> U]
  BY <1>4, <1>5, Zenon
<1> QED BY <1>2, <1>3, <1>6, FunctionsAreTexts

Chained3(a, p, q, r) == ((a \o p) \o q) \o r = a \o ((p \o q) \o r)

LEMMA AssociateThree == ASSUME NEW W PROVE \A a, p, q, r \in Seq(W) : Chained3(a, p, q, r)
<1>1. SUFFICES ASSUME NEW a \in Seq(W), NEW p \in Seq(W), NEW q \in Seq(W), NEW r \in Seq(W)
               PROVE  Chained3(a, p, q, r)
  OBVIOUS
<1>2. PICK pq : pq = p \o q
  OBVIOUS
<1>3. a \in Seq(W) /\ p \in Seq(W) /\ q \in Seq(W)
  BY <1>1
<1>4. pq \in Seq(W)
  BY <1>2, <1>3
<1>5. r \in Seq(W) /\ a \in Seq(W)
  BY <1>1
<1>6. Glues(a, p, q)
  BY <1>3, Assoc, Zenon
<1>7. Glues(a, pq, r)
  BY <1>4, <1>5, Assoc, Zenon
<1> QED BY <1>2, <1>6, <1>7, Zenon DEF Chained3, Glues

(* Whatever the fields hold, a path of type s3 has a first "?".            *)
LEMMA FirstQuery ==
    ASSUME NEW p \in Seq(Word), NEW r \in Seq(Word), NEW t, S3Path(t, p, r)
    PROVE  \E n \in Seq(Word), q \in Seq(Word) : Plain(n, {"?"}) /\ S3Path(t, n, q)
<1>1. "?" \in Word /\ "/" \in Wide /\ "s3" \in Wide
  BY Words, Zenon DEF Wide
<1>2. PICK A, m, v : A = <<"/", "s3", "/">> /\ m = <<"?">> /\ v = (p \o m) \o r
  OBVIOUS
<1>3. m \in Seq(Word) /\ Len(m) = 1 /\ m[1] = "?"
  BY <1>1, <1>2, OneSymbol
<1>4. p \o m \in Seq(Word) /\ v \in Seq(Word)
  <2>1. p \o m \in Seq(Word)
    BY <1>3, Glued
  <2> QED BY <1>2, <2>1, Glued
<1>5. ~Plain(v, {"?"})
  <2>1. ~Plain(m, {"?"})
    <3>1. 1 \in 1..Len(m) /\ m[1] \in {"?"}
      BY <1>3
    <3> QED BY <3>1 DEF Plain
  <2>2. ~Plain(p \o m, {"?"})
    BY <1>3, <2>1, PlainParts
  <2>3. p \o m \in Seq(Word) /\ r \in Seq(Word)
    BY <1>4
  <2>4. ~Plain((p \o m) \o r, {"?"})
    BY <2>2, <2>3, PlainParts
  <2> QED BY <1>2, <2>4
<1>6. PICK n \in Seq(Word), q \in Seq(Word) : Plain(n, {"?"}) /\ v = (n \o <<"?">>) \o q
  <2>1. "?" \in Word /\ v \in Seq(Word)
    BY <1>1, <1>4
  <2>2. Broken(v, "?", Word)
    BY <1>5, <2>1, PlainOrBroken
  <2> QED BY <2>2, Zenon DEF Broken
<1>7. A \in Seq(Wide) /\ m \in Seq(Wide) /\ p \in Seq(Wide) /\ r \in Seq(Wide) /\ n \in Seq(Wide) /\ q \in Seq(Wide)
  <2>1. A \in Seq(Wide)
    BY <1>1, <1>2, ThreeSymbols
  <2>2. m \in Seq(Wide) /\ p \in Seq(Wide) /\ r \in Seq(Wide) /\ n \in Seq(Wide) /\ q \in Seq(Wide)
    BY <1>3, <1>6, Words, Zenon
  <2> QED BY <2>1, <2>2
<1>8. Chained3(A, p, m, r) /\ Chained3(A, n, m, q)
  BY <1>7, AssociateThree
<1>9. t = A \o v
  BY <1>2, <1>8 DEF Chained3, S3Path
<1>10. t = ((A \o n) \o m) \o q
  BY <1>2, <1>6, <1>8, <1>9, Zenon DEF Chained3
<1>11. S3Path(t, n, q)
  BY <1>2, <1>10 DEF S3Path
<1> QED BY <1>6, <1>11

LEMMA SourceTyped == ASSUME NEW form \in FormSet PROVE ParseSourcePath(SourcePath(Config(form))) \in Maps
<1>1. form.is_s3 \in BOOLEAN
  BY FieldsTyped
<1>2. CASE form.is_s3
  <2>1. PICK config, t, p, r : /\ config = Config(form) /\ t = SourcePath(config) /\ p = config.name
                               /\ r = JoinWith("&", PairsOf(config, Query(config)))
    OBVIOUS
  <2>2. config.type = "s3" /\ p = Trim(form.name) /\ config.fields = [k \in QueryFields |-> Trim(form[k])]
    BY <1>2, <2>1 DEF Config
  <2>3. config.fields \in [QueryFields -> Seq(Word)] /\ p \in Seq(Word)
    <3>1. QueryFields \subseteq TextFields /\ "name" \in TextFields
      BY DEF QueryFields, TextFields
    <3>2. (\A k \in QueryFields : Trim(form[k]) \in Seq(Word)) /\ Trim(form["name"]) \in Seq(Word)
      BY <3>1, FieldsTyped
    <3> QED BY <2>2, <3>2
  <2>4. PairsOf(config, Query(config)) \in Seq(Seq(Word))
    BY <2>3, QueryKeys, PairsTyped DEF Listed
  <2>5. r \in Seq(Word)
    BY <2>1, <2>4, Words, JoinGrows, Zenon
  <2>6. S3Path(t, p, r)
    BY <2>1, <2>2 DEF SourcePath, PairsOf, S3Path
  <2>7. PICK n \in Seq(Word), q \in Seq(Word) : Plain(n, {"?"}) /\ S3Path(t, n, q)
    BY <2>3, <2>5, <2>6, FirstQuery
  <2>8. ParseSourcePath(t) = AddAll(S3Base(n), Split(q, "&"))
    BY <2>7, S3PathRead
  <2>9. S3Base(n) \in Maps /\ Split(q, "&") \in Seq(Piece)
    <3>1. Split(q, "&") \in Seq(Seq(Word))
      BY SplitTyped DEF Parts
    <3> QED BY <3>1, BasesRead, PiecesOfWords
  <2> QED BY <2>1, <2>8, <2>9, AddGrows
<1>3. CASE ~form.is_s3
  <2>1. SourcePath(Config(form)) = <<"/", "memory">>
    BY <1>3 DEF Config, SourcePath
  <2>2. "memory" \in Wide
    BY DEF Wide
  <2>3. <<"memory">> \in Seq(Wide)
    BY <2>2, OneSymbol
  <2> QED BY <2>1, <2>3, MemoryRead, TypesRead
<1> QED BY <1>1, <1>2, <1>3

LEMMA PageNext ==
    ASSUME NEW es \in Seq(EntryNames), NEW c \in 0..Len(es) PROVE Page(es, c, 1).next \in c..Len(es)
<1> DEFINE P == {i \in From(es, c) : Cardinality(From(es, c) \cap (1..i)) <= 1}
<1>1. Len(es) \in Nat /\ P \in SUBSET (1..Len(es)) /\ \A i \in P : i > c
  BY DEF From
<1>2. Page(es, c, 1).next = IF P = {} THEN c ELSE CHOOSE i \in P : \A j \in P : j <= i
  BY DEF Page
<1> HIDE DEF P
<1>3. CASE P = {}
  BY <1>1, <1>2, <1>3
<1>4. CASE P # {}
  <2>1. \E i \in P : \A j \in P : j <= i
    BY <1>1, <1>4, GreatestBelow
  <2>2. (CHOOSE i \in P : \A j \in P : j <= i) \in P
    BY <2>1
  <2>3. PICK i \in P : Page(es, c, 1).next = i
    BY <1>2, <1>4, <2>2
  <2> QED BY <1>1, <2>3
<1> QED BY <1>3, <1>4

LEMMA TypesRight == InputTyped => TypeOK
<1> SUFFICES ASSUME InputTyped PROVE TypeOK
  OBVIOUS
<1>1. CASE input \in [kind : {"path"}, raw : Seq(Component)]
  <2>1. input.kind = "path" /\ input.raw \in Seq(Component)
    BY <1>1
  <2>2. Normalize(input.raw) \in PathSet
    BY <2>1, Normalized
  <2> QED BY <2>1, <2>2 DEF TypeOK
<1>2. CASE input \in [kind : {"form"}, form : FormSet, typed : Nat]
  <2>1. input.kind = "form" /\ input.form \in FormSet
    BY <1>2
  <2>2. DOMAIN ParseSourcePath(SourcePath(Config(input.form))) \subseteq Seq(Word)
    <3>1. ParseSourcePath(SourcePath(Config(input.form))) \in Maps
      BY <2>1, SourceTyped
    <3> QED BY <3>1 DEF Maps
  <2>3. Word = Typed \cup Scheme \cup TextFields \cup {"type", "n", "/"}
    BY DEF Word, Symbol
  <2> QED BY <2>1, <2>2, <2>3 DEF TypeOK
<1>3. CASE input \in [kind : {"probe"}, before : Seq({"w", Blank}), after : Seq({"w", Blank, "version=", "sha="})]
  <2>1. input.kind = "probe"
    BY <1>3
  <2>2. DOMAIN ParseInfo(input.after) \in {{"none"}, {"version", "sha"}}
    BY DEF ParseInfo, NoInfo, Info
  <2> QED BY <2>1, <2>2 DEF TypeOK
<1>4. CASE input \in [kind : {"listing"}, entries : Seq(EntryNames)]
  <2>1. input.kind = "listing" /\ input.entries \in Seq(EntryNames)
    BY <1>4
  <2>2. \A c \in 0..Len(input.entries) : Page(input.entries, c, 1).next \in c..Len(input.entries)
    BY <2>1, PageNext
  <2> QED BY <2>1, <2>2 DEF TypeOK
<1>5. CASE input \in [kind : {"health"}, answered : BOOLEAN, modules : Seq(Modules), running : Shas, host : Shas]
  <2>1. input.kind = "health"
    BY <1>5
  <2>2. BuildReport(input.answered, input.modules, input.host).health \in {"error", "not_installed", "disabled", "ready"}
    BY DEF BuildReport, Report
  <2> QED BY <2>1, <2>2 DEF TypeOK
<1> QED BY <1>1, <1>2, <1>3, <1>4, <1>5 DEF InputTyped

-----------------------------------------------------------------------------
(* path::normalize is right on raw paths of any length: every name a later *)
(* ".." cancels goes, the others stay in order, and nothing gets above the *)
(* root (core/src/path.rs).                                                *)
THEOREM NormalizeIsRight == Spec => []NormalizeIsReference
BY InputsTyped, NormalizeRight, PTL

(* basename and parent take every normalised path apart, and join puts it  *)
(* together again (core/src/path.rs).                                      *)
THEOREM NamesComeApart == Spec => []ParentAndBasename
<1>1. InputTyped => ParentAndBasename
  BY PathsRight
<1> QED BY <1>1, InputsTyped, PTL

(* A renamed tree's keys come back when it is renamed back, for every      *)
(* normalised path and every directory it is in (rename of both backends). *)
THEOREM RenamesComeBack == Spec => []RekeyInverts
<1>1. InputTyped => RekeyInverts
  BY PathsRight
<1> QED BY <1>1, InputsTyped, PTL

(* Pages of any sizes show every visible entry of any listing once, in     *)
(* order, and end (enumerate of ext/src/volume.rs).                        *)
THEOREM PagesAreComplete == Spec => []PagesShowEachEntryOnce
BY InputsTyped, PagesRight, PTL

(* The plain cloud is shown for the right builds whatever FSKit lists      *)
(* (app/src/health.rs).                                                    *)
THEOREM CloudIsRight == Spec => []CloudMeansRightBuild
BY InputsTyped, CloudRight, PTL

(* The source path of every accepted form is parsed back into its          *)
(* configuration, however long its fields (source_path of                  *)
(* app/src/connection.rs, parse_source_path of ext/src/lib.rs).            *)
THEOREM ConfigsArrive == Spec => []ConfigArrives
BY InputsTyped, ConfigRight, PTL

(* Its secret arrives whole as well, through the Keychain or mount's -o    *)
(* option (format_options of app/src/mounts.rs, parse_options of           *)
(* ext/src/lib.rs).                                                        *)
THEOREM SecretsArrive == Spec => []SecretArrives
BY InputsTyped, SecretRight, PTL

(* The row of the mount table is read back as the folder and the type for  *)
(* any folder and any source path without a blank (parse_line of           *)
(* app/src/mounts.rs).                                                     *)
THEOREM MountsAreFound == Spec => []MountIsFound
BY InputsTyped, MountRight, PTL

(* The running extension's answer is found within whatever mount prints    *)
(* around it (parse_info of app/src/mounts.rs, info_message of             *)
(* ext/src/lib.rs).                                                        *)
THEOREM ProbesAreRead == Spec => []ProbeIsRead
BY InputsTyped, ProbeRight, PTL

(* What each conversion returns is of its type, for accepted forms and for *)
(* others: the keys the extension's parser finds are words of the form     *)
(* (parse_source_path of ext/src/lib.rs).                                  *)
THEOREM ConversionsTyped == Spec => []TypeOK
BY InputsTyped, TypesRight, PTL
=============================================================================
