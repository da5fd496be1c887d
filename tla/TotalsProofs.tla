---------------------------- MODULE TotalsProofs ----------------------------
(***************************************************************************)
(* Theorems of Quota and of ResourceTracker, for every set of scopes,      *)
(* amounts, resources and rows of transformers.                            *)
(*                                                                         *)
(* Both parts of the program keep totals.  What a scope has consumed of a  *)
(* quota and what a resource group produces are sums; a sum takes one      *)
(* element after the other, so what is known of it comes from a smallest   *)
(* set on which it would be wrong.                                         *)
(*                                                                         *)
(* A transformer tells its parent when its total moves, and the parent     *)
(* tells its own: what a handler leaves right is what it recounted, the    *)
(* rows it wrote and their ancestors, and the ancestors are the least set  *)
(* that holds the parent and is closed under taking parents.               *)
(***************************************************************************)
EXTENDS Quota, ResourceTracker, FiniteSetTheorems, WellFoundedInduction, TLAPS

-----------------------------------------------------------------------------
(* Sums over finite sets. *)

\* What MapThenSumSet does with the values of a function: one element after the other.
Pick(s) == CHOOSE x \in s : TRUE

SumStep(f, S, g) == [s \in SUBSET S |-> IF s = {} THEN 0 ELSE f[Pick(s)] + g[s \ {Pick(s)}]]

SumOver(f, S) == CHOOSE g : g = SumStep(f, S, g)
SumOf(f, S) == SumOver(f, S)[S]

LEMMA PickIn == ASSUME NEW s, s # {} PROVE Pick(s) \in s
  BY DEF Pick

\* Some subsets of a finite set have a smallest one among them.
LEMMA SubsetMin ==
  ASSUME NEW S, IsFiniteSet(S), NEW Bad, Bad \subseteq SUBSET S, Bad # {}
  PROVE  \E T \in Bad : \A U \in SUBSET T : U # T => U \notin Bad
  <1> DEFINE R == StrictSubsetOrdering(S)
  <1>1. IsWellFoundedOn(R, SUBSET S)
    BY FS_StrictSubsetOrderingWellFounded, FS_FiniteSubsetsOfFinite, Zenon
  <1>2. PICK T \in Bad : \A U \in Bad : <<U, T>> \notin R
    BY <1>1, WFMin, Zenon
  <1>3. ASSUME NEW U \in SUBSET T, U # T, U \in Bad PROVE FALSE
    <2>1. U \in SUBSET S /\ T \in SUBSET S
      OBVIOUS
    <2>2. <<U, T>> \in R
      BY <1>3, <2>1 DEF StrictSubsetOrdering
    <2> QED
      BY <1>2, <1>3, <2>2
  <1> QED
    BY <1>3

\* Two functions that satisfy the equation of a sum agree where both are defined.
LEMMA SumUnique ==
  ASSUME NEW f, NEW S, NEW T, IsFiniteSet(S),
         NEW g, g = SumStep(f, S, g), NEW h, h = SumStep(f, T, h)
  PROVE  \A s \in SUBSET (S \cap T) : g[s] = h[s]
  <1> DEFINE Bad == {s \in SUBSET (S \cap T) : g[s] # h[s]}
  <1>1. ASSUME NEW s \in SUBSET (S \cap T), s # {}
        PROVE  g[s] = f[Pick(s)] + g[s \ {Pick(s)}] /\ h[s] = f[Pick(s)] + h[s \ {Pick(s)}]
    <2>1. g[s] = SumStep(f, S, g)[s] /\ h[s] = SumStep(f, T, h)[s]
      OBVIOUS
    <2> QED
      BY <1>1, <2>1 DEF SumStep
  <1>2. ASSUME NEW s \in SUBSET (S \cap T), s = {} PROVE g[s] = h[s]
    <2>1. g[s] = SumStep(f, S, g)[s] /\ h[s] = SumStep(f, T, h)[s]
      OBVIOUS
    <2>2. SumStep(f, S, g)[s] = 0 /\ SumStep(f, T, h)[s] = 0
      BY <1>2 DEF SumStep
    <2> QED
      BY <2>1, <2>2
  <1>3. Bad = {}
    <2> SUFFICES ASSUME Bad # {} PROVE FALSE
      OBVIOUS
    <2>1. Bad \subseteq SUBSET S
      OBVIOUS
    <2>2. PICK s \in Bad : \A u \in SUBSET s : u # s => u \notin Bad
      <3> HIDE DEF Bad
      <3> QED
        BY <2>1, SubsetMin
    <2>3. s \in SUBSET (S \cap T) /\ g[s] # h[s]
      OBVIOUS
    <2>4. s # {}
      BY <1>2, <2>3
    <2>5. s \ {Pick(s)} \in SUBSET s /\ s \ {Pick(s)} # s
      BY <2>4, PickIn
    <2>6. g[s \ {Pick(s)}] = h[s \ {Pick(s)}]
      BY <2>2, <2>3, <2>5
    <2> QED
      BY <1>1, <2>3, <2>4, <2>6
  <1> QED
    BY <1>3

LEMMA SumDefined ==
  ASSUME NEW f, NEW S, IsFiniteSet(S)
  PROVE  SumOver(f, S) = SumStep(f, S, SumOver(f, S))
  <1> DEFINE Good(T) == \E g : g = SumStep(f, T, g)
             Bad == {T \in SUBSET S : ~Good(T)}
  <1>1. SUFFICES Good(S)
    BY <1>1 DEF SumOver
  <1>2. SUFFICES ASSUME Bad # {} PROVE FALSE
    OBVIOUS
  <1>3. PICK T \in Bad : \A U \in SUBSET T : U # T => U \notin Bad
    <2>1. Bad \subseteq SUBSET S
      OBVIOUS
    <2> HIDE DEF Bad
    <2> QED
      BY <1>2, <2>1, SubsetMin
  <1>4. IsFiniteSet(T) /\ T \in SUBSET S /\ ~Good(T)
    BY <1>3, FS_Subset
  <1>5. ASSUME NEW U \in SUBSET T, U # T
        PROVE  SumOver(f, U) = SumStep(f, U, SumOver(f, U))
    <2>1. Good(U)
      BY <1>3, <1>4, <1>5
    <2> QED
      BY <2>1 DEF SumOver
  <1> DEFINE h == [s \in SUBSET T |-> IF s = {} THEN 0 ELSE f[Pick(s)] + SumOf(f, s \ {Pick(s)})]
  <1>6. ASSUME NEW s \in SUBSET T, s # T PROVE h[s] = SumOf(f, s)
    <2>1. SumOf(f, s) = IF s = {} THEN 0 ELSE f[Pick(s)] + SumOver(f, s)[s \ {Pick(s)}]
      BY <1>5, <1>6 DEF SumOf, SumStep
    <2>2. CASE s = {}
      BY <2>1, <2>2
    <2>3. CASE s # {}
      <3> DEFINE u == s \ {Pick(s)}
      <3>1. u \in SUBSET s /\ u \in SUBSET T /\ u # T
        BY <2>3, PickIn
      <3>2. IsFiniteSet(s)
        BY <1>4, FS_Subset
      <3>3. /\ SumOver(f, u) = SumStep(f, u, SumOver(f, u))
            /\ SumOver(f, s) = SumStep(f, s, SumOver(f, s))
        BY <1>5, <1>6, <3>1
      <3>4. \A x \in SUBSET (s \cap u) : SumOver(f, s)[x] = SumOver(f, u)[x]
        BY <3>2, <3>3, SumUnique
      <3>5. u \in SUBSET (s \cap u)
        BY <3>1
      <3>6. SumOver(f, s)[u] = SumOver(f, u)[u]
        BY <3>4, <3>5
      <3> QED
        BY <2>1, <2>3, <3>6 DEF SumOf
    <2> QED
      BY <2>2, <2>3
  <1>7. h = SumStep(f, T, h)
    <2>1. ASSUME NEW s \in SUBSET T, s # {} PROVE h[s \ {Pick(s)}] = SumOf(f, s \ {Pick(s)})
      <3>1. s \ {Pick(s)} \in SUBSET T /\ s \ {Pick(s)} # T
        BY <2>1, PickIn
      <3> QED
        BY <1>6, <3>1
    <2> QED
      BY <2>1 DEF SumStep
  <1> QED
    BY <1>4, <1>7

LEMMA SumEmpty == \A f : SumOf(f, {}) = 0
  <1> SUFFICES ASSUME NEW f PROVE SumOf(f, {}) = 0
    OBVIOUS
  <1>1. SumOver(f, {}) = SumStep(f, {}, SumOver(f, {}))
    BY SumDefined, FS_EmptySet
  <1> QED
    BY <1>1 DEF SumOf, SumStep

LEMMA SumPick ==
  ASSUME NEW f, NEW S, IsFiniteSet(S), S # {}
  PROVE  SumOf(f, S) = f[Pick(S)] + SumOf(f, S \ {Pick(S)})
  <1> DEFINE u == S \ {Pick(S)}
  <1>1. IsFiniteSet(u) /\ u \in SUBSET (S \cap u)
    BY FS_Subset
  <1>2. /\ SumOver(f, S) = SumStep(f, S, SumOver(f, S))
        /\ SumOver(f, u) = SumStep(f, u, SumOver(f, u))
    BY <1>1, SumDefined
  <1>3. \A x \in SUBSET (S \cap u) : SumOver(f, S)[x] = SumOver(f, u)[x]
    BY <1>2, SumUnique
  <1>4. SumOver(f, S)[S] = f[Pick(S)] + SumOver(f, S)[u]
    BY <1>2 DEF SumStep
  <1> QED
    BY <1>1, <1>3, <1>4 DEF SumOf

\* A sum of integers is an integer.
LEMMA SumType ==
  ASSUME NEW f, NEW S, IsFiniteSet(S), \A x \in S : f[x] \in Int
  PROVE  SumOf(f, S) \in Int
  <1> DEFINE Bad == {T \in SUBSET S : SumOf(f, T) \notin Int}
  <1> SUFFICES ASSUME Bad # {} PROVE FALSE
    OBVIOUS
  <1>1. PICK T \in Bad : \A U \in SUBSET T : U # T => U \notin Bad
    <2>1. Bad \subseteq SUBSET S
      OBVIOUS
    <2> HIDE DEF Bad
    <2> QED
      BY <2>1, SubsetMin
  <1>2. IsFiniteSet(T) /\ T \in SUBSET S /\ SumOf(f, T) \notin Int
    BY FS_Subset
  <1>3. T # {}
    BY <1>2, SumEmpty
  <1>4. Pick(T) \in T /\ T \ {Pick(T)} # T
    BY <1>3, PickIn
  <1>5. SumOf(f, T \ {Pick(T)}) \in Int
    BY <1>1, <1>2, <1>4
  <1> QED
    BY <1>2, <1>3, <1>4, <1>5, SumPick

\* A sum depends on the values of its elements only.
LEMMA SumSame ==
  ASSUME NEW f, NEW g, NEW S, IsFiniteSet(S), \A x \in S : f[x] = g[x]
  PROVE  SumOf(f, S) = SumOf(g, S)
  <1> DEFINE Bad == {T \in SUBSET S : SumOf(f, T) # SumOf(g, T)}
  <1> SUFFICES ASSUME Bad # {} PROVE FALSE
    OBVIOUS
  <1>1. PICK T \in Bad : \A U \in SUBSET T : U # T => U \notin Bad
    <2>1. Bad \subseteq SUBSET S
      OBVIOUS
    <2> HIDE DEF Bad
    <2> QED
      BY <2>1, SubsetMin
  <1>2. IsFiniteSet(T) /\ T \in SUBSET S /\ SumOf(f, T) # SumOf(g, T)
    BY FS_Subset
  <1>3. T # {}
    BY <1>2, SumEmpty
  <1>4. Pick(T) \in T /\ T \ {Pick(T)} # T
    BY <1>3, PickIn
  <1>5. SumOf(f, T \ {Pick(T)}) = SumOf(g, T \ {Pick(T)})
    BY <1>1, <1>2, <1>4
  <1> QED
    BY <1>2, <1>3, <1>4, <1>5, SumPick

\* Any element can be taken out of a sum, not only the one that is picked.
LEMMA SumWithout ==
  ASSUME NEW f, NEW S, IsFiniteSet(S), \A x \in S : f[x] \in Int, NEW e \in S
  PROVE  SumOf(f, S) = f[e] + SumOf(f, S \ {e})
  <1> DEFINE Fine(T) == \A x \in T : SumOf(f, T) = f[x] + SumOf(f, T \ {x})
             Bad == {T \in SUBSET S : ~Fine(T)}
  <1>1. Bad = {}
    <2> SUFFICES ASSUME Bad # {} PROVE FALSE
      OBVIOUS
    <2>1. Bad \subseteq SUBSET S
      OBVIOUS
    <2>2. PICK T \in Bad : \A U \in SUBSET T : U # T => U \notin Bad
      <3> HIDE DEF Bad
      <3> QED
        BY <2>1, SubsetMin
    <2>3. T \in SUBSET S /\ IsFiniteSet(T)
      BY FS_Subset
    <2>4. PICK x \in T : SumOf(f, T) # f[x] + SumOf(f, T \ {x})
      OBVIOUS
    <2> DEFINE c == Pick(T)
    <2>5. c \in T /\ SumOf(f, T) = f[c] + SumOf(f, T \ {c})
      BY <2>3, <2>4, PickIn, SumPick
    <2>6. c # x
      BY <2>4, <2>5
    <2>7. Fine(T \ {c}) /\ Fine(T \ {x})
      <3>1. /\ T \ {c} \in SUBSET T /\ T \ {c} # T /\ T \ {c} \in SUBSET S
            /\ T \ {x} \in SUBSET T /\ T \ {x} # T /\ T \ {x} \in SUBSET S
        BY <2>3, <2>4, <2>5
      <3>2. T \ {c} \notin Bad /\ T \ {x} \notin Bad
        BY <2>2, <3>1
      <3> QED
        BY <3>1, <3>2
    <2> DEFINE rest == SumOf(f, T \ {c, x})
    <2>8. SumOf(f, T \ {c}) = f[x] + rest
      <3>1. (T \ {c}) \ {x} = T \ {c, x} /\ x \in T \ {c}
        BY <2>4, <2>6
      <3> QED
        BY <2>7, <3>1
    <2>9. SumOf(f, T \ {x}) = f[c] + rest
      <3>1. (T \ {x}) \ {c} = T \ {c, x} /\ c \in T \ {x}
        BY <2>5, <2>6
      <3> QED
        BY <2>7, <3>1
    <2>10. f[c] \in Int /\ f[x] \in Int /\ rest \in Int
      <3>1. IsFiniteSet(T \ {c, x}) /\ \A y \in T \ {c, x} : f[y] \in Int
        BY <2>3, FS_Subset
      <3> QED
        BY <2>3, <2>4, <2>5, <3>1, SumType
    <2> HIDE DEF c, rest
    <2> QED
      BY <2>4, <2>5, <2>8, <2>9, <2>10
  <1> QED
    BY <1>1

\* Naturals add up to a natural, and fewer of them to less.
LEMMA SumOfNats ==
  ASSUME NEW f, NEW S, IsFiniteSet(S), \A x \in S : f[x] \in Nat
  PROVE  SumOf(f, S) \in Nat
  <1> DEFINE Bad == {T \in SUBSET S : SumOf(f, T) \notin Nat}
  <1>1. Bad = {}
    <2> SUFFICES ASSUME Bad # {} PROVE FALSE
      OBVIOUS
    <2>1. Bad \subseteq SUBSET S
      OBVIOUS
    <2>2. PICK T \in Bad : \A U \in SUBSET T : U # T => U \notin Bad
      <3> HIDE DEF Bad
      <3> QED
        BY <2>1, SubsetMin
    <2>3. IsFiniteSet(T) /\ T \in SUBSET S /\ SumOf(f, T) \notin Nat
      BY FS_Subset
    <2>4. T # {}
      BY <2>3, SumEmpty
    <2>5. Pick(T) \in T /\ T \ {Pick(T)} # T
      BY <2>4, PickIn
    <2>6. SumOf(f, T \ {Pick(T)}) \in Nat
      BY <2>2, <2>3, <2>5
    <2>7. SumOf(f, T) = f[Pick(T)] + SumOf(f, T \ {Pick(T)})
      BY <2>3, <2>4, SumPick
    <2> QED
      BY <2>3, <2>5, <2>6, <2>7
  <1> QED
    BY <1>1

LEMMA SumShrinks ==
  ASSUME NEW f, NEW S, NEW T \in SUBSET S, IsFiniteSet(S), \A x \in S : f[x] \in Nat
  PROVE  SumOf(f, T) <= SumOf(f, S)
  <1> DEFINE Bad == {U \in SUBSET S : T \subseteq U /\ ~(SumOf(f, T) <= SumOf(f, U))}
  <1>1. Bad = {}
    <2> SUFFICES ASSUME Bad # {} PROVE FALSE
      OBVIOUS
    <2>1. Bad \subseteq SUBSET S
      OBVIOUS
    <2>2. PICK U \in Bad : \A V \in SUBSET U : V # U => V \notin Bad
      <3> HIDE DEF Bad
      <3> QED
        BY <2>1, SubsetMin
    <2>3. /\ U \in SUBSET S /\ IsFiniteSet(U) /\ T \subseteq U /\ IsFiniteSet(T)
          /\ ~(SumOf(f, T) <= SumOf(f, U))
      BY FS_Subset
    <2>4. SumOf(f, T) \in Nat /\ SumOf(f, U) \in Nat
      BY <2>3, SumOfNats
    <2>5. PICK x \in U : x \notin T
      BY <2>3, <2>4
    <2>6. U \ {x} \in SUBSET U /\ U \ {x} # U /\ T \subseteq U \ {x} /\ U \ {x} \in SUBSET S
      BY <2>3, <2>5
    <2>7. SumOf(f, T) <= SumOf(f, U \ {x})
      BY <2>2, <2>6
    <2>8. SumOf(f, U \ {x}) \in Nat
      BY <2>3, <2>6, FS_Subset, SumOfNats
    <2>9. SumOf(f, U) = f[x] + SumOf(f, U \ {x})
      BY <2>3, SumWithout
    <2> QED
      BY <2>3, <2>4, <2>7, <2>8, <2>9
  <1> QED
    BY <1>1

-----------------------------------------------------------------------------
(* Quotas of scopes. *)

LEMMA SavedType ==
  ASSUME QuotaTypeOK, NEW c \in Change
  PROVE  Saved(c) \in [Scope -> Amount \cup {None}]
  <1>1. /\ c.limit \in Amount \cup {None}
        /\ c.by \in {"form", "create", "edit"}
    BY DEF Change
  <1>2. Without(c.scope) \in [Scope -> Amount \cup {None}]
    BY DEF Without, QuotaTypeOK
  <1>3. CASE c.by # "edit"
    BY <1>1, <1>2, <1>3 DEF Saved, QuotaTypeOK
  <1>4. CASE c.by = "edit"
    BY <1>1, <1>4 DEF Saved, QuotaTypeOK
  <1>5. QED
    BY <1>3, <1>4

LEMMA MovedFromType == ASSUME NEW c \in Change PROVE MovedFrom(c) \in Place \cup {None}
  BY DEF MovedFrom, Moves, Change

LEMMA FollowedType ==
  ASSUME QuotaTypeOK, NEW m, NEW from \in Place \cup {None}, NEW to \in Place \cup {None},
         from # None => to # None
  PROVE  Followed(m, from, to) \subseteq Change \cup {None}
  <1>1. CASE pending = None \/ pending.by # "edit"
    BY <1>1 DEF Followed, QuotaTypeOK
  <1>2. CASE ~(pending = None \/ pending.by # "edit")
    <2>1. pending \in [by: {"edit"}, of: Place, scope: Place, limit: Amount]
      BY <1>2 DEF QuotaTypeOK, Change
    <2>2. \A x \in Place : [pending EXCEPT !.of = x] \in Change
      BY <2>1 DEF Change
    <2>3. pending.of \in Place /\ Elsewhere \in Place
      BY <2>1 DEF Place
    <2>4. pending.of = from => to \in Place /\ from \in Place
      BY <2>3, QuotaAssumption DEF Place
    <2>5. \A e \in Followed(m, from, to) : \E x \in Place : e = [pending EXCEPT !.of = x]
      BY <1>2, <2>3, <2>4 DEF Followed
    <2> QED
      BY <2>2, <2>5
  <1> QED
    BY <1>1, <1>2

(* Every row keeps its type, whoever writes it and however late. *)
THEOREM QuotaTypeCorrect == QuotaSpec => []QuotaTypeOK
  <1>1. QuotaInit => QuotaTypeOK
    BY QuotaAssumption DEF QuotaInit, QuotaTypeOK
  <1>2. QuotaTypeOK /\ [QuotaNext]_quotaVars => QuotaTypeOK'
    <2> SUFFICES ASSUME QuotaTypeOK, [QuotaNext]_quotaVars PROVE QuotaTypeOK'
      OBVIOUS
    <2>1. CASE UNCHANGED quotaVars
      BY <2>1 DEF quotaVars, QuotaTypeOK
    <2>2. CASE \E c \in Change : ChangeQuota(c)
      <3>1. PICK c \in Change : ChangeQuota(c)
        BY <2>2
      <3>2. pending' \in Change \cup {None}
        <4>1. c.scope \in Place
          BY DEF Change, Place
        <4>2. Followed(Saved(c), MovedFrom(c), c.scope) \subseteq Change \cup {None}
          BY <4>1, MovedFromType, FollowedType, QuotaAssumption DEF Place
        <4> QED
          BY <3>1, <4>2 DEF ChangeQuota
      <3>3. QED
        BY <3>1, <3>2, SavedType, MovedFromType DEF ChangeQuota, QuotaTypeOK
    <2>3. CASE \E c \in Change : Validate(c)
      BY <2>3 DEF Validate, QuotaTypeOK
    <2>4. CASE Save
      BY <2>4, SavedType, MovedFromType DEF Save, QuotaTypeOK
    <2>5. CASE Abandon
      BY <2>5 DEF Abandon, QuotaTypeOK
    <2>6. CASE \E s \in Scope : DeleteQuota(s)
      <3>1. PICK s \in Scope : DeleteQuota(s)
        BY <2>6
      <3>2. pending' \in Change \cup {None}
        BY <3>1, FollowedType DEF DeleteQuota
      <3>3. QED
        BY <3>1, <3>2 DEF DeleteQuota, Without, QuotaTypeOK
    <2>7. CASE \E t \in Team, o \in Org : MoveTeam(t, o)
      BY <2>7 DEF MoveTeam, QuotaTypeOK
    <2>8. CASE \E s \in Used, n \in Amount : Use(s, n)
      BY <2>8 DEF Use, QuotaTypeOK
    <2>9. QED
      BY <2>1, <2>2, <2>3, <2>4, <2>5, <2>6, <2>7, <2>8 DEF QuotaNext
  <1>3. QED
    BY <1>1, <1>2, PTL DEF QuotaSpec

(* The API accepts every limit that the form accepts. *)
THEOREM ApiIsNeverStricter == QuotaSpec => []ApiNeverStricter
  <1>1. ApiNeverStricter
    <2> SUFFICES ASSUME NEW s \in Scope, NEW l \in Amount, FormAccepts(s, l)
                 PROVE  ApiAccepts(s, l)
      BY DEF ApiNeverStricter
    <2>1. l # None /\ l >= 0
      BY QuotaAssumption
    <2>2. QED
      BY <2>1 DEF FormAccepts, ApiAccepts
  <1>2. QED
    BY <1>1, PTL

-----------------------------------------------------------------------------
(* Saving one change.                                                      *)

Apart(t) == Covered(t) => Covered(t)' \/ orgOf'[t] # orgOf[t] \/ HandedOver(orgOf[t]) \/ Overtaken

LEMMA WithoutKeepsTeams ==
  ASSUME QuotaTypeOK, NEW s \in Scope, limit' = Without(s), orgOf' = orgOf, NEW t \in Team, Covered(t)
  PROVE  Covered(t)'
  <1>1. t \in Scope /\ orgOf[t] \in Org /\ orgOf[t] \in Scope
    BY DEF QuotaTypeOK, Scope
  <1>2. orgOf[t] # t
    BY <1>1, QuotaAssumption
  <1>3. limit'[orgOf[t]] = None /\ limit[orgOf[t]] # None => orgOf[t] = s
    BY <1>1, QuotaAssumption DEF Without, TeamsOf
  <1>4. orgOf[t] = s => limit'[t] = None
    BY <1>1 DEF Without, TeamsOf
  <1>5. limit'[t] # None => limit[t] # None
    BY <1>1 DEF Without
  <1>6. QED
    BY <1>3, <1>4, <1>5 DEF Covered

(* An accepted change covers the team it gives a limit to; the other teams lose
   their cover only when the row of their organization is handed over. *)
LEMMA AcceptedKeepsTeams ==
  ASSUME QuotaTypeOK, NEW c \in Change, Accepted(c), limit' = Saved(c), orgOf' = orgOf,
         NEW t \in Team, Covered(t)
  PROVE  Covered(t)' \/ MovedFrom(c) = orgOf[t]
  <1>1. t \in Scope /\ orgOf[t] \in Org /\ orgOf[t] \in Scope /\ orgOf[t] # t
    BY QuotaAssumption DEF QuotaTypeOK, Scope
  <1>2. limit \in [Scope -> Amount \cup {None}] /\ (c.by # "edit" => c.scope \in Scope)
    BY DEF Change, QuotaTypeOK
  <1>3. c.scope \in Team => limit[orgOf[c.scope]] # None
    BY DEF Accepted, FormAccepts, ApiAccepts, Change, Scope
  <1>4. CASE c.by = "form" /\ c.limit = None
    <2>1. limit' = limit \/ limit' = Without(c.scope)
      BY <1>4 DEF Saved
    <2>2. CASE limit' = limit
      BY <2>2 DEF Covered
    <2>3. c.scope \in Scope
      BY <1>2, <1>4
    <2>4. QED
      BY <2>1, <2>2, <2>3, WithoutKeepsTeams
  <1>5. CASE \/ c.by = "form" /\ c.limit # None
             \/ c.by = "create"
    <2>1. c.limit # None
      BY <1>5, QuotaAssumption DEF Change
    <2>2. limit' = limit \/ limit' = [limit EXCEPT ![c.scope] = c.limit]
      BY <1>5 DEF Saved
    <2>3. limit'[t] # None => limit[t] # None \/ c.scope = t
      BY <1>1, <1>2, <2>2
    <2>4. limit[orgOf[t]] # None => limit'[orgOf[t]] # None
      BY <1>1, <1>2, <2>1, <2>2
    <2>5. QED
      BY <1>3, <2>3, <2>4 DEF Covered
  <1>6. CASE c.by = "edit"
    <2>1. c.limit # None
      BY <1>6, QuotaAssumption DEF Change
    <2>2. limit'[t] # None => limit[t] # None \/ c.scope = t
      BY <1>1, <1>2, <1>6 DEF Saved
    <2>3. limit[orgOf[t]] # None /\ limit'[orgOf[t]] = None => MovedFrom(c) = orgOf[t]
      BY <1>1, <1>2, <1>6, <2>1 DEF Saved, MovedFrom, Moves
    <2>4. QED
      BY <1>3, <2>2, <2>3 DEF Covered
  <1>7. QED
    BY <1>4, <1>5, <1>6 DEF Change

(* A team has a quota only under a quota of its organization, but for the three ways
   the property names: a row that leaves the attribute is one of them. *)
THEOREM TeamsStayUnderOrg == QuotaSpec => TeamsUnderOrg
  <1>1. QuotaTypeOK /\ [QuotaNext]_quotaVars => [\A t \in Team : Apart(t)]_quotaVars
    <2> SUFFICES ASSUME QuotaTypeOK, QuotaNext, NEW t \in Team, Covered(t), orgOf'[t] = orgOf[t],
                        ~HandedOver(orgOf[t]), ~Overtaken
                 PROVE  Covered(t)'
      BY DEF Apart
    <2>1. CASE \E c \in Change : ChangeQuota(c)
      BY <2>1, AcceptedKeepsTeams DEF ChangeQuota, HandedOver
    <2>2. CASE Save
      <3>1. /\ pending \in Change /\ limit' = Saved(pending) /\ orgOf' = orgOf /\ pending' = None
            /\ MovedFrom(pending) # orgOf[t]
        BY <2>2 DEF Save, QuotaTypeOK, HandedOver
      <3>2. CASE limit' = limit
        BY <3>1, <3>2 DEF Covered
      <3>3. CASE limit' # limit
        <4>1. Accepted(pending)
          BY <2>2, <3>1, <3>3 DEF Overtaken, Save
        <4>2. QED
          BY <3>1, <4>1, AcceptedKeepsTeams
      <3>4. QED
        BY <3>2, <3>3
    <2>3. CASE \E s \in Scope : DeleteQuota(s)
      BY <2>3, WithoutKeepsTeams DEF DeleteQuota
    <2>4. CASE \E s \in Team, o \in Org : MoveTeam(s, o)
      BY <2>4 DEF MoveTeam, Covered
    <2>5. CASE (\E c \in Change : Validate(c)) \/ Abandon \/ (\E s \in Used, n \in Amount : Use(s, n))
      BY <2>5 DEF Validate, Abandon, Use, Covered
    <2>6. QED
      BY <2>1, <2>2, <2>3, <2>4, <2>5 DEF QuotaNext
  <1>2. QED
    BY <1>1, QuotaTypeCorrect, PTL DEF QuotaSpec, TeamsUnderOrg, Apart

-----------------------------------------------------------------------------
(* A limit covers what its teams were given.                               *)

\* What another function m of limits leaves alone or clears.
Kept(m, t) == m[t] = limit[t] \/ m[t] = None

\* The teams of s that have a limit, when the limits are m.
Promised(m, s) == {t \in Team : orgOf[t] = s /\ m[t] # None}

LEMMA IsSum == \A S : MapThenSumSet(LAMBDA t : limit[t], S) = SumOf(limit, S)
  BY DEF MapThenSumSet, MapThenFoldSet, SumOf, SumOver, SumStep, Pick

LEMMA CommittedIs == \A s : Committed(s) = usage[s] + SumOf(limit, Promised(limit, s))
  BY IsSum DEF Committed, Promised

LEMMA CommittedWillBe ==
  \A s : Committed(s)' = usage'[s] + SumOf(limit', Promised(limit, s)')
  BY DEF Committed, Promised, MapThenSumSet, MapThenFoldSet, SumOf, SumOver, SumStep, Pick

LEMMA PromisedAmounts ==
  ASSUME NEW m \in [Scope -> Amount \cup {None}], NEW s
  PROVE  /\ IsFiniteSet(Promised(m, s))
         /\ \A t \in Promised(m, s) : m[t] \in Nat
         /\ SumOf(m, Promised(m, s)) \in Nat
  <1>1. IsFiniteSet(Promised(m, s))
    BY QuotaAssumption, FS_Subset DEF Promised
  <1>2. \A t \in Promised(m, s) : m[t] \in Nat
    BY QuotaAssumption DEF Promised, Scope
  <1> QED
    BY <1>1, <1>2, SumOfNats

LEMMA ConsumedIsCommitted ==
  ASSUME QuotaTypeOK, NEW s \in Scope
  PROVE  Consumed(s) = Committed(s) /\ Consumed(s) \in Nat
  <1>1. usage[s] \in Nat
    BY QuotaAssumption DEF QuotaTypeOK
  <1>2. CASE s \in Org
    <2>1. Given(s) = SumOf(limit, Promised(limit, s))
      <3>1. Limited(TeamsOf(s)) = Promised(limit, s)
        BY DEF Limited, TeamsOf, Promised
      <3> QED
        BY <3>1, IsSum DEF Given
    <2> QED
      BY <1>1, <1>2, <2>1, CommittedIs, PromisedAmounts DEF Consumed, QuotaTypeOK
  <1>3. CASE s \notin Org
    <2>1. Promised(limit, s) = {}
      BY <1>3 DEF Promised, QuotaTypeOK
    <2> QED
      BY <1>1, <1>3, <2>1, CommittedIs, SumEmpty DEF Consumed
  <1> QED
    BY <1>2, <1>3

LEMMA CommittedIsNat == QuotaTypeOK => \A s \in Scope : Committed(s) \in Nat
  BY ConsumedIsCommitted

LEMMA CommittedStaysNat == QuotaTypeOK' => \A s \in Scope : Committed(s)' \in Nat
  <1>1. (QuotaTypeOK => \A s \in Scope : Committed(s) \in Nat)'
    BY CommittedIsNat, PTL
  <1> QED
    BY <1>1

\* Limits that only go away commit less.
LEMMA FewerPromised ==
  ASSUME QuotaTypeOK, NEW m \in [Scope -> Amount \cup {None}], NEW s,
         \A t \in Promised(m, s) : Kept(m, t)
  PROVE  SumOf(m, Promised(m, s)) <= SumOf(limit, Promised(limit, s))
  <1> DEFINE P == Promised(m, s)
             Q == Promised(limit, s)
  <1>1. P \subseteq Q /\ \A t \in P : m[t] = limit[t]
    BY DEF Promised, Kept
  <1>2. SumOf(m, P) = SumOf(limit, P)
    BY <1>1, PromisedAmounts, SumSame
  <1>3. SumOf(limit, P) <= SumOf(limit, Q)
    <2>1. IsFiniteSet(Q) /\ \A t \in Q : limit[t] \in Nat
      BY PromisedAmounts DEF QuotaTypeOK
    <2> HIDE DEF P, Q
    <2> QED
      BY <1>1, <2>1, SumShrinks
  <1> QED
    BY <1>2, <1>3

\* A new limit of one team commits the difference.
LEMMA OnePromised ==
  ASSUME QuotaTypeOK, NEW m \in [Scope -> Amount \cup {None}], NEW e \in Team, m[e] # None,
         \A t \in Team : t # e => Kept(m, t)
  PROVE  SumOf(m, Promised(m, orgOf[e])) + CurrentLimit(e)
             <= SumOf(limit, Promised(limit, orgOf[e])) + m[e]
  <1> DEFINE P == Promised(m, orgOf[e])
             Q == Promised(limit, orgOf[e])
  <1>1. /\ P \ {e} \subseteq Q \ {e} /\ \A t \in P \ {e} : m[t] = limit[t]
        /\ e \in P
    BY DEF Promised, Kept
  <1>2. /\ IsFiniteSet(P) /\ \A t \in P : m[t] \in Nat
        /\ IsFiniteSet(Q) /\ \A t \in Q : limit[t] \in Nat
    BY PromisedAmounts DEF QuotaTypeOK
  <1>3. e \notin Q => Q \ {e} = Q /\ CurrentLimit(e) = 0
    BY DEF Promised, CurrentLimit
  <1>4. e \in Q => CurrentLimit(e) = limit[e]
    BY DEF Promised, CurrentLimit
  <1> HIDE DEF P, Q
  <1>5. SumOf(m, P) = m[e] + SumOf(m, P \ {e})
    BY <1>1, <1>2, SumWithout
  <1>6. IsFiniteSet(P \ {e}) /\ IsFiniteSet(Q \ {e})
    BY <1>2, FS_Subset
  <1>7. SumOf(m, P \ {e}) = SumOf(limit, P \ {e})
    BY <1>1, <1>6, SumSame
  <1>8. SumOf(limit, P \ {e}) <= SumOf(limit, Q \ {e})
    BY <1>1, <1>2, <1>6, SumShrinks
  <1>9. SumOf(limit, Q) = CurrentLimit(e) + SumOf(limit, Q \ {e})
    <2>1. SumOf(limit, Q \ {e}) \in Nat
      BY <1>2, <1>6, SumOfNats
    <2>2. CASE e \in Q
      BY <1>2, <1>4, <2>2, SumWithout
    <2>3. CASE e \notin Q
      BY <1>3, <2>1, <2>3
    <2> QED
      BY <2>2, <2>3
  <1>10. /\ m[e] \in Nat /\ CurrentLimit(e) \in Nat
         /\ SumOf(m, P \ {e}) \in Nat /\ SumOf(limit, Q \ {e}) \in Nat
    BY <1>1, <1>2, <1>3, <1>4, <1>6, SumOfNats
  <1>11. SumOf(m, P) + CurrentLimit(e) <= SumOf(limit, Q) + m[e]
    BY <1>5, <1>7, <1>8, <1>9, <1>10
  <1> QED
    BY <1>11 DEF P, Q

\* Where limits only go away, what is left is covered.
LEMMA FewerCovered ==
  ASSUME QuotaTypeOK, QuotaTypeOK', orgOf' = orgOf, NEW s \in Scope, usage'[s] <= usage[s],
         \A t \in Team : orgOf[t] = s => Kept(limit', t)
  PROVE  Committed(s)' <= Committed(s)
  <1>1. SumOf(limit', Promised(limit', s)) <= SumOf(limit, Promised(limit, s))
    BY FewerPromised DEF Promised, QuotaTypeOK
  <1>2. Promised(limit, s)' = Promised(limit', s)
    BY DEF Promised
  <1>3. /\ SumOf(limit', Promised(limit', s)) \in Nat /\ SumOf(limit, Promised(limit, s)) \in Nat
        /\ usage[s] \in Nat /\ usage'[s] \in Nat
    BY QuotaAssumption, PromisedAmounts DEF QuotaTypeOK
  <1> QED
    BY <1>1, <1>2, <1>3, CommittedIs, CommittedWillBe

LEMMA AcceptedCovers ==
  ASSUME QuotaTypeOK, QuotaTypeOK', NEW c \in Change, Accepted(c), limit' = Saved(c),
         orgOf' = orgOf, usage' = usage, NEW s \in Scope, Covers(s),
         c.scope = s => ~BelowUsage(c)
  PROVE  Covers(s)'
  <1>1. /\ c.scope \in Place /\ c.by \in {"form", "create", "edit"}
        /\ c.by # "edit" => c.scope \in Scope
        /\ limit \in [Scope -> Amount \cup {None}] /\ limit' \in [Scope -> Amount \cup {None}]
        /\ usage'[s] = usage[s] /\ usage[s] \in Nat
    BY QuotaAssumption DEF Change, QuotaTypeOK, Place
  <1>2. /\ Committed(s) = Consumed(s) /\ Committed(s) \in Nat
    BY ConsumedIsCommitted
  <1>3. Committed(s)' \in Nat
    BY CommittedStaysNat
  <1>4. limit'[s] # None => limit'[s] \in Nat
    BY <1>1, QuotaAssumption
  <1>5. CASE limit' = limit \/ limit' = Without(c.scope)
    <2>1. \A x \in Scope : Kept(limit', x)
      BY <1>1, <1>5 DEF Kept, Without
    <2>2. Committed(s)' <= Committed(s)
      BY <1>1, <2>1, FewerCovered DEF Scope
    <2> QED
      BY <1>1, <1>2, <1>3, <1>4, <2>1, <2>2 DEF Covers, Kept
  <1>6. CASE ~(limit' = limit \/ limit' = Without(c.scope))
    <2>1. c.limit \in Nat /\ c.limit # None
      BY <1>6, QuotaAssumption DEF Saved, Change
    <2>3. /\ c.scope \in Scope => limit'[c.scope] = c.limit
          /\ \A x \in Scope : x # c.scope => Kept(limit', x)
      <3>1. CASE c.by # "edit"
        <4>1. limit' = limit \/ limit' = [limit EXCEPT ![c.scope] = c.limit]
          BY <1>1, <2>1, <3>1 DEF Saved
        <4> QED
          BY <1>1, <1>6, <4>1 DEF Kept
      <3>2. CASE c.by = "edit"
        <4>1. limit' = [x \in Scope |-> CASE x = c.scope -> c.limit
                                         [] x # c.scope /\ x = c.of -> None
                                         [] OTHER -> limit[x]]
          BY <1>6, <3>2 DEF Saved
        <4> QED
          BY <4>1 DEF Kept
      <3> QED
        BY <3>1, <3>2
    <2>4. (c.scope \in Team /\ orgOf[c.scope] = s) \/ Committed(s)' <= Committed(s)
      BY <1>1, <2>3, FewerCovered DEF Scope
    <2>5. CASE c.scope = s
      <3>1. ~(c.scope \in Team /\ orgOf[c.scope] = s)
        BY <2>5, QuotaAssumption DEF QuotaTypeOK
      <3>2. c.limit >= Consumed(s)
        <4>1. CASE c.by = "form"
          BY <2>1, <2>5, <4>1 DEF Accepted, FormAccepts
        <4>2. CASE c.by # "form" /\ ~(s \in Team \/ limit[s] = None)
          BY <1>1, <2>5, <4>2 DEF Accepted, ApiAccepts, Scope
        <4>3. CASE c.by # "form" /\ (s \in Team \/ limit[s] = None)
          BY <1>2, <2>1, <2>5, <4>3 DEF BelowUsage
        <4> QED
          BY <4>1, <4>2, <4>3
      <3> QED
        BY <1>2, <1>3, <2>1, <2>3, <2>4, <2>5, <3>1, <3>2 DEF Covers
    <2>6. CASE c.scope # s /\ ~(c.scope \in Team /\ orgOf[c.scope] = s)
      BY <1>1, <1>2, <1>3, <1>4, <2>3, <2>4, <2>6 DEF Covers, Kept
    <2>7. CASE c.scope \in Team /\ orgOf[c.scope] = s
      <3>1. s \in Org /\ s # c.scope /\ c.scope \in Scope
        BY <2>7, QuotaAssumption DEF QuotaTypeOK, Scope
      <3>2. limit[s] # None /\ c.limit <= Available(s) + CurrentLimit(c.scope)
        BY <1>1, <2>1, <2>7, <3>1, QuotaAssumption DEF Accepted, FormAccepts, ApiAccepts, Scope
      <3>3. Committed(s)' + CurrentLimit(c.scope) <= Committed(s) + c.limit
        <4>1. SumOf(limit', Promised(limit', s)) + CurrentLimit(c.scope)
                  <= SumOf(limit, Promised(limit, s)) + limit'[c.scope]
          BY <1>1, <2>1, <2>3, <2>7, <3>1, OnePromised DEF Scope
        <4>2. Promised(limit, s)' = Promised(limit', s)
          BY DEF Promised
        <4>3. SumOf(limit', Promised(limit', s)) \in Nat /\ SumOf(limit, Promised(limit, s)) \in Nat
          BY <1>1, PromisedAmounts
        <4>4. CurrentLimit(c.scope) \in Nat
          BY <1>1, <3>1, QuotaAssumption DEF CurrentLimit
        <4> QED
          BY <1>1, <2>1, <2>3, <3>1, <4>1, <4>2, <4>3, <4>4, CommittedIs, CommittedWillBe
      <3>4. limit[s] \in Nat /\ CurrentLimit(c.scope) \in Nat
        BY <1>1, <3>1, <3>2, QuotaAssumption DEF CurrentLimit
      <3>5. Committed(s)' <= limit[s]
        BY <1>2, <1>3, <2>1, <3>2, <3>3, <3>4 DEF Available
      <3> QED
        BY <2>3, <3>1, <3>5 DEF Covers, Kept
    <2> QED
      BY <2>5, <2>6, <2>7
  <1> QED
    BY <1>5, <1>6

CoverKept(s) ==
    Covers(s) =>
        \/ Covers(s)'
        \/ usage'[s] > usage[s]
        \/ orgOf' # orgOf
        \/ Overtaken
        \/ \E c \in Change : c.scope = s /\ BelowUsage(c) /\ Accepted(c) /\ limit' = Saved(c)

(* A limit covers what its scope uses and what its teams were given, for every number of teams
   and every amount, but for the exceptions the property names. *)
THEOREM LimitsCoverUse == QuotaSpec => LimitsCover
  <1>1. QuotaTypeOK /\ QuotaTypeOK' /\ [QuotaNext]_quotaVars => [\A s \in Scope : CoverKept(s)]_quotaVars
    <2> SUFFICES ASSUME QuotaTypeOK, QuotaTypeOK', QuotaNext, NEW s \in Scope PROVE CoverKept(s)
      OBVIOUS
    <2>1. ASSUME NEW c \in Change, Accepted(c), limit' = Saved(c), orgOf' = orgOf, usage' = usage
          PROVE  CoverKept(s)
      BY <2>1, AcceptedCovers DEF CoverKept
    <2>4. ASSUME limit' = limit \/ \E x \in Scope : limit' = Without(x),
                 orgOf' = orgOf, usage'[s] \in Nat, usage[s] \in Nat
          PROVE  CoverKept(s)
      <3>1. \A x \in Scope : Kept(limit', x)
        BY <2>4 DEF Kept, Without
      <3>2. CASE usage'[s] <= usage[s]
        <4>1. Committed(s)' <= Committed(s)
          BY <2>4, <3>1, <3>2, FewerCovered DEF Scope
        <4>2. Committed(s) \in Nat /\ Committed(s)' \in Nat
          BY CommittedIsNat, CommittedStaysNat
        <4>3. limit[s] # None => limit[s] \in Nat
          BY QuotaAssumption DEF QuotaTypeOK
        <4> QED
          BY <3>1, <4>1, <4>2, <4>3 DEF CoverKept, Covers, Kept
      <3>3. CASE ~(usage'[s] <= usage[s])
        BY <2>4, <3>3 DEF CoverKept
      <3> QED
        BY <3>2, <3>3
    <2>5. usage[s] \in Nat /\ usage'[s] \in Nat
      BY QuotaAssumption DEF QuotaTypeOK
    <2>2. CASE \E c \in Change : ChangeQuota(c)
      BY <2>1, <2>2 DEF ChangeQuota
    <2>3. CASE Save
      <3>1. /\ pending \in Change /\ limit' = Saved(pending) /\ pending' = None /\ pending # None
            /\ orgOf' = orgOf /\ usage' = usage
        BY <2>3 DEF Save, QuotaTypeOK
      <3>2. CASE Accepted(pending)
        BY <2>1, <3>1, <3>2
      <3>3. CASE ~Accepted(pending) /\ limit' = limit
        BY <2>4, <2>5, <3>1, <3>3
      <3>4. CASE ~Accepted(pending) /\ limit' # limit
        BY <3>1, <3>4 DEF CoverKept, Overtaken
      <3> QED
        BY <3>2, <3>3, <3>4
    <2>6. CASE \E x \in Scope : DeleteQuota(x)
      BY <2>4, <2>5, <2>6 DEF DeleteQuota
    <2>7. CASE \E x \in Used, n \in Amount : Use(x, n)
      BY <2>4, <2>5, <2>7 DEF Use
    <2>8. CASE (\E c \in Change : Validate(c)) \/ Abandon
      BY <2>4, <2>5, <2>8 DEF Validate, Abandon
    <2>9. CASE \E t \in Team, o \in Org : MoveTeam(t, o)
      <3>1. limit' = limit /\ usage' = usage
        BY <2>9 DEF MoveTeam
      <3>2. CASE orgOf' = orgOf
        BY <2>4, <2>5, <3>1, <3>2
      <3>3. CASE orgOf' # orgOf
        BY <3>3 DEF CoverKept
      <3> QED
        BY <3>2, <3>3
    <2> QED
      BY <2>2, <2>3, <2>6, <2>7, <2>8, <2>9 DEF QuotaNext
  <1> QED
    BY <1>1, QuotaTypeCorrect, PTL DEF QuotaSpec, LimitsCover, CoverKept

-----------------------------------------------------------------------------
(* The chain of parents. *)

Above(t, S) == S \cup UNION {ParentOf(t, p) : p \in S}

ChainStep(t, r, N, g) == [n \in 0 .. N |-> IF n = 0 THEN ParentOf(t, r) ELSE Above(t, g[n - 1])]

Chain(t, r) == CHOOSE g : g = ChainStep(t, r, Cardinality(Row), g)

LEMMA AncestorsAreChain == \A t, r : Ancestors(t, r) = Chain(t, r)[Cardinality(Row)]
  BY DEF Ancestors, Chain, ChainStep, Above

\* Some naturals have a smallest one among them.
LEMMA NatMin ==
  ASSUME NEW Bad \in SUBSET Nat, Bad # {}
  PROVE  \E n \in Bad : \A k \in Nat : k < n => k \notin Bad
  <1>1. IsWellFoundedOn(OpToRel(<, Nat), Nat)
    BY NatLessThanWellFounded, Zenon
  <1>2. PICK n \in Bad : \A k \in Bad : <<k, n>> \notin OpToRel(<, Nat)
    BY <1>1, WFMin, Zenon
  <1>3. \A k \in Nat : k < n => k \notin Bad
    BY <1>2 DEF OpToRel
  <1> QED
    BY <1>3

LEMMA ChainDefined ==
  ASSUME NEW t, NEW r
  PROVE  Chain(t, r) = ChainStep(t, r, Cardinality(Row), Chain(t, r))
  <1> DEFINE Good(n) == \E g : g = ChainStep(t, r, n, g)
             Bad == {n \in Nat : ~Good(n)}
  <1>1. Bad = {}
    <2> SUFFICES ASSUME Bad # {} PROVE FALSE
      OBVIOUS
    <2>1. PICK n \in Bad : \A k \in Nat : k < n => k \notin Bad
      <3>1. Bad \in SUBSET Nat
        OBVIOUS
      <3> HIDE DEF Bad
      <3> QED
        BY <3>1, NatMin
    <2>2. n \in Nat /\ ~Good(n)
      OBVIOUS
    <2>3. CASE n = 0
      <3> DEFINE g == [k \in 0 .. 0 |-> ParentOf(t, r)]
      <3>1. g = ChainStep(t, r, 0, g)
        BY DEF ChainStep
      <3> QED
        BY <2>2, <2>3, <3>1
    <2>4. CASE n # 0
      <3>1. n - 1 \in Nat /\ n - 1 < n
        BY <2>2, <2>4
      <3>2. Good(n - 1)
        BY <2>1, <3>1
      <3>3. PICK f : f = ChainStep(t, r, n - 1, f)
        BY <3>2
      <3> DEFINE g == [k \in 0 .. n |-> IF k = n THEN Above(t, f[n - 1]) ELSE f[k]]
      <3>4. \A k \in 0 .. n - 1 : f[k] = IF k = 0 THEN ParentOf(t, r) ELSE Above(t, f[k - 1])
        BY <3>3 DEF ChainStep
      <3>5. ASSUME NEW k \in 0 .. n
            PROVE  g[k] = IF k = 0 THEN ParentOf(t, r) ELSE Above(t, g[k - 1])
        <4>1. CASE k = n
          <5>1. k # 0 /\ k - 1 \in 0 .. n /\ k - 1 # n
            BY <2>2, <2>4, <4>1
          <5> QED
            BY <4>1, <5>1
        <4>2. CASE k # n
          <5>1. k \in 0 .. n - 1 /\ (k # 0 => k - 1 \in 0 .. n /\ k - 1 # n)
            BY <2>2, <4>2
          <5> QED
            BY <3>4, <4>2, <5>1
        <4> QED
          BY <4>1, <4>2
      <3>6. g = ChainStep(t, r, n, g)
        BY <3>5 DEF ChainStep
      <3> QED
        BY <2>2, <3>6
    <2> QED
      BY <2>3, <2>4
  <1>2. Cardinality(Row) \in Nat
    BY TrackerAssumption, FS_CardinalityType
  <1>3. Good(Cardinality(Row))
    BY <1>1, <1>2
  <1> QED
    BY <1>3 DEF Chain

LEMMA ChainIs ==
  ASSUME NEW t, NEW r
  PROVE  /\ Cardinality(Row) \in Nat
         /\ Chain(t, r)[0] = ParentOf(t, r)
         /\ \A n \in 1 .. Cardinality(Row) : Chain(t, r)[n] = Above(t, Chain(t, r)[n - 1])
  <1> DEFINE N == Cardinality(Row)
             g == Chain(t, r)
  <1>1. N \in Nat
    BY TrackerAssumption, FS_CardinalityType
  <1>2. g = ChainStep(t, r, N, g)
    BY ChainDefined
  <1> HIDE DEF N, g
  <1>3. \A n \in 0 .. N : g[n] = IF n = 0 THEN ParentOf(t, r) ELSE Above(t, g[n - 1])
    BY <1>2 DEF ChainStep
  <1>4. /\ N \in Nat
        /\ g[0] = ParentOf(t, r)
        /\ \A n \in 1 .. N : g[n] = Above(t, g[n - 1])
    BY <1>1, <1>3
  <1> QED
    BY <1>4 DEF N, g

Closed(t, C) == \A p \in C : ParentOf(t, p) \subseteq C

\* The ancestors of r are in every set that has its parent and the parents of its elements.
LEMMA AncestorsLeast ==
  ASSUME NEW t, NEW r, NEW C, ParentOf(t, r) \subseteq C, Closed(t, C)
  PROVE  Ancestors(t, r) \subseteq C
  <1> DEFINE N == Cardinality(Row)
             g == Chain(t, r)
             Bad == {n \in 0 .. N : ~(g[n] \subseteq C)}
  <1>1. /\ N \in Nat
        /\ g[0] = ParentOf(t, r)
        /\ \A n \in 1 .. N : g[n] = Above(t, g[n - 1])
    BY ChainIs
  <1> HIDE DEF N, g
  <1>2. Bad = {}
    <2> SUFFICES ASSUME Bad # {} PROVE FALSE
      OBVIOUS
    <2>1. PICK n \in Bad : \A k \in Nat : k < n => k \notin Bad
      <3>1. Bad \in SUBSET Nat
        BY <1>1
      <3> HIDE DEF Bad
      <3> QED
        BY <3>1, NatMin
    <2>2. n \in 0 .. N /\ ~(g[n] \subseteq C)
      OBVIOUS
    <2>3. n \in 1 .. N /\ n - 1 \in 0 .. N /\ n - 1 < n /\ n - 1 \in Nat
      BY <1>1, <2>2
    <2>4. g[n - 1] \subseteq C
      BY <2>1, <2>3
    <2> QED
      BY <1>1, <2>2, <2>3, <2>4 DEF Above, Closed
  <1>3. N \in 0 .. N
    BY <1>1
  <1> QED
    BY <1>2, <1>3, AncestorsAreChain DEF N, g

\* As many steps as there are rows reach all of them.
LEMMA AncestorsClosed ==
  ASSUME NEW t, NEW r
  PROVE  /\ ParentOf(t, r) \subseteq Ancestors(t, r)
         /\ Closed(t, Ancestors(t, r))
         /\ Ancestors(t, r) \subseteq Linked(t)
  <1> DEFINE N == Cardinality(Row)
             g == Chain(t, r)
             Fine(n) == /\ ParentOf(t, r) \subseteq g[n] /\ g[n] \subseteq Linked(t)
                        /\ Closed(t, g[n]) \/ n < Cardinality(g[n])
             Bad == {n \in 0 .. N : ~Fine(n)}
  <1>1. /\ N \in Nat
        /\ g[0] = ParentOf(t, r)
        /\ \A n \in 1 .. N : g[n] = Above(t, g[n - 1])
    BY ChainIs
  <1>2. \A S \in SUBSET Row : IsFiniteSet(S) /\ Cardinality(S) \in Nat /\ Cardinality(S) <= N
    BY TrackerAssumption, FS_Subset, FS_CardinalityType
  <1> HIDE DEF N, g
  <1>3. Bad = {}
    <2> SUFFICES ASSUME Bad # {} PROVE FALSE
      OBVIOUS
    <2>1. PICK n \in Bad : \A k \in Nat : k < n => k \notin Bad
      <3>1. Bad \in SUBSET Nat
        BY <1>1
      <3> HIDE DEF Bad
      <3> QED
        BY <3>1, NatMin
    <2>2. n \in 0 .. N /\ ~Fine(n)
      OBVIOUS
    <2>3. CASE n = 0
      <3>1. g[n] = ParentOf(t, r) /\ g[n] \in SUBSET Row /\ g[n] \subseteq Linked(t)
        BY <1>1, <2>3 DEF ParentOf, Linked
      <3>2. Closed(t, g[n]) \/ g[n] # {}
        BY DEF Closed
      <3>3. g[n] # {} => Cardinality(g[n]) # 0
        BY <1>2, <3>1, FS_EmptySet
      <3>4. Cardinality(g[n]) \in Nat
        BY <1>2, <3>1
      <3> QED
        BY <2>2, <2>3, <3>1, <3>2, <3>3, <3>4
    <2>4. CASE n # 0
      <3> DEFINE S == g[n - 1]
      <3>1. n \in 1 .. N /\ n - 1 \in 0 .. N /\ n - 1 < n /\ n - 1 \in Nat
        BY <1>1, <2>2, <2>4
      <3>2. Fine(n - 1)
        BY <2>1, <3>1
      <3>3. g[n] = Above(t, S)
        BY <1>1, <3>1
      <3>4. ParentOf(t, r) \subseteq g[n] /\ g[n] \subseteq Linked(t) /\ S \subseteq g[n]
        BY <3>2, <3>3 DEF Above, ParentOf
      <3>5. CASE Closed(t, S)
        <4>1. g[n] = S
          BY <3>3, <3>5 DEF Above, Closed
        <4> QED
          BY <2>2, <3>4, <3>5, <4>1
      <3>6. CASE ~Closed(t, S)
        <4>1. S \in SUBSET Row /\ g[n] \in SUBSET Row
          BY <3>4 DEF Linked
        <4>2. S # g[n]
          BY <3>3, <3>6 DEF Above, Closed
        <4>3. Cardinality(S) < Cardinality(g[n])
          BY <1>2, <3>4, <4>1, <4>2, FS_Subset
        <4>4. Cardinality(S) \in Nat /\ Cardinality(g[n]) \in Nat /\ n - 1 < Cardinality(S)
          BY <1>2, <3>2, <3>6, <4>1
        <4>5. n < Cardinality(g[n])
          BY <3>1, <4>3, <4>4
        <4> QED
          BY <2>2, <3>4, <4>5
      <3> QED
        BY <3>5, <3>6
    <2> QED
      BY <2>3, <2>4
  <1>4. N \in 0 .. N /\ Fine(N)
    BY <1>1, <1>3
  <1>5. g[N] \in SUBSET Row
    BY <1>4 DEF Linked
  <1>6. Cardinality(g[N]) <= N /\ Cardinality(g[N]) \in Nat
    BY <1>2, <1>5
  <1>7. Closed(t, g[N])
    BY <1>1, <1>4, <1>6
  <1> QED
    BY <1>4, <1>7, AncestorsAreChain DEF N, g

LEMMA AncestorsOfAncestors ==
  ASSUME NEW t, NEW r, NEW p \in Ancestors(t, r)
  PROVE  Ancestors(t, p) \subseteq Ancestors(t, r)
  BY AncestorsClosed, AncestorsLeast DEF Closed

-----------------------------------------------------------------------------
(* The sums of the tracker, and its rows. *)

Links == [Row -> Transformer \cup {Null}]
Resources == [Resource -> ResourceRow \cup {Null}]

LEMMA ProducedIsSum ==
  \A x, r : ProducedOf(x, r) = SumOf(Produces(x, r[2]), Members(x, r[1]))
  BY DEF ProducedOf, MapThenSumSet, MapThenFoldSet, SumOf, SumOver, SumStep, Pick

LEMMA ConsumedIsSum ==
  \A t, r : ConsumedOf(t, r) = SumOf(Consumes(t), Children(t, r)) \div Unit
  BY DEF ConsumedOf, MapThenSumSet, MapThenFoldSet, SumOf, SumOver, SumStep, Pick

LEMMA AttributeOfRow == ASSUME NEW r \in Row PROVE r[1] \in Group /\ r[2] \in Attribute
  BY DEF Group, Attribute

LEMMA LinkedRow ==
  ASSUME NEW t \in Links, NEW r \in Row
  PROVE  /\ t[r] = Null <=> t[r] \notin Transformer
         /\ r \in Linked(t) <=> t[r] # Null
         /\ r \in Linked(t) => /\ t[r].parent \in Row \cup {Null} /\ t[r].factor \in Factor
                               /\ t[r].produced \in Nat /\ t[r].consumed \in Nat
  BY NullIsNoRow DEF Links, Linked, Transformer

LEMMA StoredResource ==
  ASSUME NEW x \in Resources, NEW i \in Resource
  PROVE  /\ x[i] = Null <=> x[i] \notin ResourceRow
         /\ x[i] # Null => /\ x[i].group \in Group
                           /\ \A a \in Attribute : x[i].value[a] \in Value /\ x[i].value[a] \in Nat
  BY NullIsNoRow, TrackerAssumption DEF Resources, ResourceRow, Values

LEMMA Quotient == ASSUME NEW n \in Nat, NEW u \in Nat \ {0} PROVE n \div u \in Nat
  OBVIOUS

LEMMA ConsumedIsNat ==
  ASSUME NEW t \in Links, NEW r
  PROVE  /\ IsFiniteSet(Children(t, r))
         /\ \A c \in Linked(t) : Consumes(t)[c] \in Nat
         /\ ConsumedOf(t, r) \in Nat
  <1>1. IsFiniteSet(Children(t, r)) /\ Children(t, r) \subseteq Linked(t)
    BY TrackerAssumption, FS_Subset DEF Children, Linked
  <1>2. ASSUME NEW c \in Linked(t) PROVE Consumes(t)[c] \in Nat
    <2>1. t[c].produced \in Nat /\ t[c].factor \in Nat \ {0}
      BY LinkedRow, TrackerAssumption DEF Linked
    <2>2. Unit \div t[c].factor \in Nat
      BY <2>1, Quotient, TrackerAssumption
    <2> QED
      BY <2>1, <2>2 DEF Consumes
  <1>3. SumOf(Consumes(t), Children(t, r)) \in Nat
    BY <1>1, <1>2, SumOfNats
  <1> QED
    BY <1>1, <1>2, <1>3, ConsumedIsSum, Quotient, TrackerAssumption

LEMMA ProducedIsNat ==
  ASSUME NEW x \in Resources, NEW r \in Row
  PROVE  ProducedOf(x, r) \in Nat
  <1>1. IsFiniteSet(Members(x, r[1]))
    BY TrackerAssumption, FS_Subset DEF Members
  <1>2. \A i \in Members(x, r[1]) : Produces(x, r[2])[i] \in Nat
    BY StoredResource, AttributeOfRow DEF Members, Produces
  <1> QED
    BY <1>1, <1>2, SumOfNats, ProducedIsSum

\* What two tables of transformers have in common: the links, not the totals.
SameLinks(t, u) ==
    \A r \in Row : /\ t[r] = Null <=> u[r] = Null
                   /\ t[r] # Null => /\ u[r].parent = t[r].parent
                                     /\ u[r].factor = t[r].factor

LEMMA SameLinksSame ==
  ASSUME NEW t, NEW u, SameLinks(t, u)
  PROVE  /\ Linked(u) = Linked(t)
         /\ \A r : Children(u, r) = Children(t, r)
         /\ \A r \in Linked(t) : ParentOf(u, r) = ParentOf(t, r)
  BY DEF SameLinks, Linked, Children, ParentOf

Up(t, R) == UNION {Ancestors(t, r) : r \in R}

LEMMA NotifiedRow ==
  ASSUME NEW t \in Links, NEW R
  PROVE  /\ Notified(t, R) \in Links /\ SameLinks(t, Notified(t, R))
         /\ \A r \in Linked(t) :
               /\ Notified(t, R)[r].produced = t[r].produced
               /\ Notified(t, R)[r].consumed =
                      IF r \in Up(t, R) THEN ConsumedOf(t, r) ELSE t[r].consumed
  <1>1. Notified(t, R) = [r \in Row |-> IF r \in Up(t, R) THEN [t[r] EXCEPT !.consumed = ConsumedOf(t, r)]
                                                       ELSE t[r]]
    BY DEF Notified, Up
  <1>2. Up(t, R) \subseteq Linked(t)
    BY AncestorsClosed DEF Up
  <1>3. ASSUME NEW r \in Up(t, R)
        PROVE  /\ [t[r] EXCEPT !.consumed = ConsumedOf(t, r)] \in Transformer
               /\ [t[r] EXCEPT !.consumed = ConsumedOf(t, r)].parent = t[r].parent
               /\ [t[r] EXCEPT !.consumed = ConsumedOf(t, r)].factor = t[r].factor
               /\ [t[r] EXCEPT !.consumed = ConsumedOf(t, r)].produced = t[r].produced
               /\ [t[r] EXCEPT !.consumed = ConsumedOf(t, r)].consumed = ConsumedOf(t, r)
    <2>1. t[r] \in Transformer
      BY <1>2, LinkedRow DEF Linked
    <2>2. ConsumedOf(t, r) \in Nat
      BY ConsumedIsNat
    <2> QED
      BY <2>1, <2>2 DEF Transformer
  <1> DEFINE u == Notified(t, R)
  <1>4. \A r \in Row : /\ r \in Up(t, R) => u[r] = [t[r] EXCEPT !.consumed = ConsumedOf(t, r)]
                       /\ r \notin Up(t, R) => u[r] = t[r]
    BY <1>1
  <1>5. u \in Links
    BY <1>1, <1>3 DEF Links
  <1>6. SameLinks(t, u)
    <2> SUFFICES ASSUME NEW r \in Row
                 PROVE  /\ t[r] = Null <=> u[r] = Null
                        /\ t[r] # Null => u[r].parent = t[r].parent /\ u[r].factor = t[r].factor
      BY DEF SameLinks
    <2>1. CASE r \in Up(t, R)
      BY <1>2, <1>3, <1>4, <2>1, NullIsNoRow DEF Linked
    <2>2. CASE r \notin Up(t, R)
      BY <1>4, <2>2
    <2> QED
      BY <2>1, <2>2
  <1>7. ASSUME NEW r \in Linked(t)
        PROVE  /\ u[r].produced = t[r].produced
               /\ u[r].consumed = IF r \in Up(t, R) THEN ConsumedOf(t, r) ELSE t[r].consumed
    BY <1>3, <1>4 DEF Linked
  <1> QED
    BY <1>5, <1>6, <1>7

\* The totals of u are those of t, but for the transformers R, which produce what x says.
Produced(t, x, R) == [r \in Row |-> IF r \in R THEN [t[r] EXCEPT !.produced = ProducedOf(x, r)] ELSE t[r]]

LEMMA ProducedRow ==
  ASSUME NEW t \in Links, NEW x \in Resources, NEW R \in SUBSET Linked(t)
  PROVE  /\ Produced(t, x, R) \in Links /\ SameLinks(t, Produced(t, x, R))
         /\ \A r \in Linked(t) :
               /\ Produced(t, x, R)[r].produced = IF r \in R THEN ProducedOf(x, r) ELSE t[r].produced
               /\ Produced(t, x, R)[r].consumed = t[r].consumed
  <1> DEFINE u == Produced(t, x, R)
  <1>1. \A r \in Row : /\ r \in R => u[r] = [t[r] EXCEPT !.produced = ProducedOf(x, r)]
                       /\ r \notin R => u[r] = t[r]
    BY DEF Produced
  <1>2. ASSUME NEW r \in R
        PROVE  /\ [t[r] EXCEPT !.produced = ProducedOf(x, r)] \in Transformer
               /\ [t[r] EXCEPT !.produced = ProducedOf(x, r)].parent = t[r].parent
               /\ [t[r] EXCEPT !.produced = ProducedOf(x, r)].factor = t[r].factor
               /\ [t[r] EXCEPT !.produced = ProducedOf(x, r)].consumed = t[r].consumed
               /\ [t[r] EXCEPT !.produced = ProducedOf(x, r)].produced = ProducedOf(x, r)
    <2>1. t[r] \in Transformer /\ r \in Row
      BY LinkedRow DEF Linked
    <2>2. ProducedOf(x, r) \in Nat
      BY <2>1, ProducedIsNat
    <2> QED
      BY <2>1, <2>2 DEF Transformer
  <1>3. u \in Links
    BY <1>2 DEF Links, Produced
  <1>4. SameLinks(t, u)
    <2> SUFFICES ASSUME NEW r \in Row
                 PROVE  /\ t[r] = Null <=> u[r] = Null
                        /\ t[r] # Null => u[r].parent = t[r].parent /\ u[r].factor = t[r].factor
      BY DEF SameLinks
    <2>1. CASE r \in R
      BY <1>1, <1>2, <2>1, NullIsNoRow DEF Linked
    <2>2. CASE r \notin R
      BY <1>1, <2>2
    <2> QED
      BY <2>1, <2>2
  <1>5. ASSUME NEW r \in Linked(t)
        PROVE  /\ u[r].produced = IF r \in R THEN ProducedOf(x, r) ELSE t[r].produced
               /\ u[r].consumed = t[r].consumed
    BY <1>1, <1>2 DEF Linked
  <1> QED
    BY <1>3, <1>4, <1>5

LEMMA RecountedIs ==
  \A t, x, R : Recounted(t, x, R) = Notified(Produced(t, x, R), R)
  BY DEF Recounted, Produced

LEMMA SameLinksTwice ==
  ASSUME NEW t, NEW u, NEW w, SameLinks(t, u), SameLinks(u, w)
  PROVE  SameLinks(t, w)
  BY DEF SameLinks

LEMMA RecountedLinks ==
  ASSUME NEW t \in Links, NEW x \in Resources, NEW R \in SUBSET Linked(t)
  PROVE  Recounted(t, x, R) \in Links /\ SameLinks(t, Recounted(t, x, R))
  BY RecountedIs, ProducedRow, NotifiedRow, SameLinksTwice

-----------------------------------------------------------------------------
(* When a total is right. *)

LEMMA ProducedSame ==
  ASSUME NEW x, NEW y, NEW r, Members(y, r[1]) = Members(x, r[1]),
         \A i \in Members(x, r[1]) : y[i].value[r[2]] = x[i].value[r[2]]
  PROVE  ProducedOf(y, r) = ProducedOf(x, r)
  <1> DEFINE M == Members(x, r[1])
  <1>1. IsFiniteSet(M)
    BY TrackerAssumption, FS_Subset DEF Members
  <1>2. \A i \in M : Produces(y, r[2])[i] = Produces(x, r[2])[i]
    BY DEF Members, Produces
  <1>3. SumOf(Produces(y, r[2]), M) = SumOf(Produces(x, r[2]), M)
    <2> HIDE DEF M
    <2> QED
      BY <1>1, <1>2, SumSame
  <1> QED
    BY <1>3, ProducedIsSum

LEMMA ConsumedSame ==
  ASSUME NEW t \in Links, NEW u \in Links, NEW r, Children(u, r) = Children(t, r),
         \A c \in Children(t, r) : u[c].produced = t[c].produced /\ u[c].factor = t[c].factor
  PROVE  ConsumedOf(u, r) = ConsumedOf(t, r)
  <1> DEFINE C == Children(t, r)
  <1>1. IsFiniteSet(C)
    BY ConsumedIsNat
  <1>2. \A c \in C : c \in Linked(t) /\ c \in Linked(u)
    BY DEF Children
  <1>3. \A c \in C : Consumes(u)[c] = Consumes(t)[c]
    BY <1>2 DEF Consumes
  <1>4. SumOf(Consumes(u), C) = SumOf(Consumes(t), C)
    <2> HIDE DEF C
    <2> QED
      BY <1>1, <1>3, SumSame
  <1> QED
    BY <1>4, ConsumedIsSum

RightProduced(t, x, r) == t[r].produced = ProducedOf(x, r)
RightConsumed(t, r) == t[r].consumed = ConsumedOf(t, r)

\* A transformer none of whose children was saved was right, the others are recounted.
LEMMA NotifiedRight ==
  ASSUME NEW t \in Links, NEW R \in SUBSET Linked(t), NEW r \in Linked(t),
         (\A c \in Children(t, r) : c \notin R) => RightConsumed(t, r)
  PROVE  RightConsumed(Notified(t, R), r)
  <1> DEFINE u == Notified(t, R)
  <1>1. /\ u \in Links /\ SameLinks(t, u)
        /\ \A q \in Linked(t) : u[q].produced = t[q].produced
        /\ u[r].consumed = IF r \in Up(t, R) THEN ConsumedOf(t, r) ELSE t[r].consumed
    BY NotifiedRow
  <1> HIDE DEF u
  <1>2. ConsumedOf(u, r) = ConsumedOf(t, r)
    <2>1. Children(u, r) = Children(t, r)
      BY <1>1, SameLinksSame
    <2>2. \A c \in Children(t, r) : u[c].produced = t[c].produced /\ u[c].factor = t[c].factor
      BY <1>1 DEF Children, SameLinks, Linked
    <2> QED
      BY <1>1, <2>1, <2>2, ConsumedSame
  <1>3. ASSUME NEW c \in Children(t, r), c \in R PROVE r \in Up(t, R)
    <2>1. r \in ParentOf(t, c)
      BY DEF Children, ParentOf
    <2> QED
      BY <1>3, <2>1, AncestorsClosed DEF Up
  <1>4. u[r].consumed = ConsumedOf(t, r)
    BY <1>1, <1>3 DEF RightConsumed
  <1> QED
    BY <1>2, <1>4 DEF RightConsumed, u

LEMMA RecountedRight ==
  ASSUME NEW t \in Links, NEW x \in Resources, NEW R \in SUBSET Linked(t), NEW r \in Linked(t)
  PROVE  /\ r \in R \/ RightProduced(t, x, r) => RightProduced(Recounted(t, x, R), x, r)
         /\ RightConsumed(t, r) => RightConsumed(Recounted(t, x, R), r)
  <1> DEFINE u == Produced(t, x, R)
  <1>1. /\ u \in Links /\ SameLinks(t, u)
        /\ \A q \in Linked(t) : /\ u[q].produced = IF q \in R THEN ProducedOf(x, q) ELSE t[q].produced
                                /\ u[q].consumed = t[q].consumed
    BY ProducedRow
  <1>2. Recounted(t, x, R) = Notified(u, R)
    BY RecountedIs
  <1> HIDE DEF u
  <1>3. Linked(u) = Linked(t) /\ Children(u, r) = Children(t, r)
    BY <1>1, SameLinksSame
  <1>4. Notified(u, R)[r].produced = u[r].produced
    BY <1>1, <1>3, NotifiedRow
  <1>5. ASSUME RightConsumed(t, r), \A c \in Children(u, r) : c \notin R PROVE RightConsumed(u, r)
    <2>1. \A c \in Children(t, r) : u[c].produced = t[c].produced /\ u[c].factor = t[c].factor
      BY <1>1, <1>3, <1>5 DEF Children, SameLinks, Linked
    <2>2. ConsumedOf(u, r) = ConsumedOf(t, r)
      BY <1>1, <1>3, <2>1, ConsumedSame
    <2> QED
      BY <1>1, <1>5, <2>2 DEF RightConsumed
  <1>6. RightConsumed(t, r) => RightConsumed(Notified(u, R), r)
    BY <1>1, <1>3, <1>5, NotifiedRight
  <1> QED
    BY <1>1, <1>2, <1>4, <1>6 DEF RightProduced

\* A link that is new at s, or changed there.
LEMMA RelinkedRight ==
  ASSUME NEW t \in Links, NEW u \in Links, NEW s \in Linked(u),
         \A q \in Linked(u) \ {s} : q \in Linked(t) /\ u[q] = t[q],
         NEW r \in Linked(u), r \in Linked(t), u[r].consumed = t[r].consumed,
         RightConsumed(t, r), Children(t, r) \subseteq Children(u, r)
  PROVE  RightConsumed(Notified(u, {s}), r)
  <1>1. ASSUME \A c \in Children(u, r) : c \notin {s} PROVE RightConsumed(u, r)
    <2>1. Children(u, r) = Children(t, r)
      BY <1>1 DEF Children
    <2>2. \A c \in Children(t, r) : u[c] = t[c]
      BY <1>1, <2>1 DEF Children
    <2>3. ConsumedOf(u, r) = ConsumedOf(t, r)
      BY <2>1, <2>2, ConsumedSame
    <2> QED
      BY <2>3 DEF RightConsumed
  <1> QED
    BY <1>1, NotifiedRight

LEMMA SumZero ==
  ASSUME NEW f, NEW S, IsFiniteSet(S), \A x \in S : f[x] = 0
  PROVE  SumOf(f, S) = 0
  <1> DEFINE Bad == {T \in SUBSET S : SumOf(f, T) # 0}
  <1>1. Bad = {}
    <2> SUFFICES ASSUME Bad # {} PROVE FALSE
      OBVIOUS
    <2>1. Bad \subseteq SUBSET S
      OBVIOUS
    <2>2. PICK T \in Bad : \A U \in SUBSET T : U # T => U \notin Bad
      <3> HIDE DEF Bad
      <3> QED
        BY <2>1, SubsetMin
    <2>3. IsFiniteSet(T) /\ T \in SUBSET S /\ SumOf(f, T) # 0
      BY FS_Subset
    <2>4. T # {}
      BY <2>3, SumEmpty
    <2>5. Pick(T) \in T /\ T \ {Pick(T)} # T
      BY <2>4, PickIn
    <2>6. SumOf(f, T \ {Pick(T)}) = 0
      BY <2>2, <2>3, <2>5
    <2>7. SumOf(f, T) = f[Pick(T)] + SumOf(f, T \ {Pick(T)})
      BY <2>3, <2>4, SumPick
    <2> QED
      BY <2>3, <2>5, <2>6, <2>7
  <1> QED
    BY <1>1

\* A new transformer that produces nothing takes nothing.
LEMMA ChildOfZero ==
  ASSUME NEW t \in Links, NEW u \in Links, NEW s \in Linked(u), u[s].produced = 0,
         NEW r \in Linked(t),
         Children(u, r) \ {s} = Children(t, r), s \notin Linked(t),
         \A q \in Linked(t) : u[q] = t[q]
  PROVE  ConsumedOf(u, r) = ConsumedOf(t, r)
  <1> DEFINE f == Consumes(u)
             C == Children(u, r)
  <1>1. /\ IsFiniteSet(C) /\ IsFiniteSet(C \ {s})
        /\ \A c \in C : f[c] \in Nat
    <2>1. IsFiniteSet(C) /\ C \subseteq Linked(u)
      BY ConsumedIsNat DEF Children
    <2>2. \A c \in C : f[c] \in Nat
      BY <2>1, ConsumedIsNat
    <2> HIDE DEF f, C
    <2> QED
      BY <2>1, <2>2, FS_Subset
  <1>2. f[s] = 0
    <2>1. u[s].factor \in Nat \ {0}
      BY LinkedRow, TrackerAssumption DEF Linked
    <2>2. Unit \div u[s].factor \in Nat
      BY <2>1, Quotient, TrackerAssumption
    <2> QED
      BY <2>2 DEF Consumes
  <1>3. \A c \in C \ {s} : f[c] = Consumes(t)[c]
    BY DEF Consumes, Children, Linked
  <1>4. SumOf(f, C \ {s}) = SumOf(Consumes(t), Children(t, r))
    <2> HIDE DEF f, C
    <2>1. SumOf(f, C \ {s}) = SumOf(Consumes(t), C \ {s})
      BY <1>1, <1>3, SumSame
    <2> QED
      BY <2>1 DEF C
  <1>5. SumOf(f, C) = SumOf(f, C \ {s})
    <2> HIDE DEF f, C
    <2>1. CASE s \in C
      <3>1. SumOf(f, C) = f[s] + SumOf(f, C \ {s})
        BY <1>1, <2>1, SumWithout
      <3>2. SumOf(f, C \ {s}) \in Nat
        BY <1>1, SumOfNats
      <3> QED
        BY <1>2, <3>1, <3>2
    <2>2. CASE s \notin C
      BY <2>2
    <2> QED
      BY <2>1, <2>2
  <1> QED
    BY <1>4, <1>5, ConsumedIsSum

-----------------------------------------------------------------------------
(* What each handler leaves. *)

LEMMA TypeOKIs == TypeOK <=> transformer \in Links /\ resource \in Resources
  BY DEF TypeOK, Links, Resources

LEMMA ZeroRow ==
  ASSUME NEW p \in Row \cup {Null}, NEW f \in Factor
  PROVE  [parent |-> p, factor |-> f, produced |-> 0, consumed |-> 0] \in Transformer
  BY DEF Transformer

LEMMA UnlinkedRows ==
  ASSUME transformer \in Links, NEW R \in SUBSET Row
  PROVE  /\ Unlinked(R) \in Links
         /\ Linked(Unlinked(R)) = Linked(transformer) \ R
         /\ \A r \in Linked(transformer) \ R :
               /\ Unlinked(R)[r].parent = IF transformer[r].parent \in R THEN Null ELSE transformer[r].parent
               /\ Unlinked(R)[r].factor = transformer[r].factor
               /\ Unlinked(R)[r].produced = transformer[r].produced
               /\ Unlinked(R)[r].consumed = transformer[r].consumed
  <1> DEFINE u == Unlinked(R)
  <1>1. ASSUME NEW r \in Row
        PROVE  /\ r \in R \/ transformer[r] = Null => u[r] = Null
               /\ ~(r \in R \/ transformer[r] = Null) =>
                     IF transformer[r].parent \in R THEN u[r] = [transformer[r] EXCEPT !.parent = Null]
                                                    ELSE u[r] = transformer[r]
    BY DEF Unlinked
  <1>2. ASSUME NEW r \in Linked(transformer)
        PROVE  /\ [transformer[r] EXCEPT !.parent = Null] \in Transformer
               /\ [transformer[r] EXCEPT !.parent = Null].parent = Null
               /\ [transformer[r] EXCEPT !.parent = Null].factor = transformer[r].factor
               /\ [transformer[r] EXCEPT !.parent = Null].produced = transformer[r].produced
               /\ [transformer[r] EXCEPT !.parent = Null].consumed = transformer[r].consumed
    <2>1. transformer[r] \in Transformer
      BY LinkedRow DEF Linked
    <2> QED
      BY <2>1 DEF Transformer
  <1>3. ASSUME NEW r \in Row
        PROVE  u[r] \in Transformer \cup {Null} /\ (u[r] # Null <=> transformer[r] # Null /\ r \notin R)
    <2>1. CASE r \in R \/ transformer[r] = Null
      BY <1>1, <2>1
    <2>2. CASE ~(r \in R \/ transformer[r] = Null)
      <3>1. r \in Linked(transformer) /\ transformer[r] \in Transformer
        BY <2>2, LinkedRow DEF Linked
      <3> QED
        BY <1>1, <1>2, <2>2, <3>1, NullIsNoRow
    <2> QED
      BY <2>1, <2>2
  <1>4. u \in Links
    <2>1. u = [r \in Row |-> u[r]]
      BY DEF Unlinked
    <2> HIDE DEF u
    <2> QED
      BY <1>3, <2>1 DEF Links
  <1>5. Linked(u) = Linked(transformer) \ R
    <2> SUFFICES ASSUME NEW r \in Row PROVE u[r] # Null <=> transformer[r] # Null /\ r \notin R
      BY DEF Linked
    <2> QED
      BY <1>3
  <1>6. ASSUME NEW r \in Linked(transformer) \ R
        PROVE  /\ u[r].parent = IF transformer[r].parent \in R THEN Null ELSE transformer[r].parent
               /\ u[r].factor = transformer[r].factor
               /\ u[r].produced = transformer[r].produced
               /\ u[r].consumed = transformer[r].consumed
    BY <1>1, <1>2 DEF Linked
  <1> QED
    BY <1>4, <1>5, <1>6

LEMMA ValuesOf ==
  ASSUME NEW x \in Resources, NEW i \in Resource, x[i] # Null
  PROVE  x[i] \in ResourceRow /\ x[i].value \in Values /\ x[i].group \in Group
  BY DEF Resources, ResourceRow

LEMMA OverwrittenValues ==
  ASSUME NEW old \in Values, NEW A, NEW v, \A a \in A : v[a] \in Value
  PROVE  /\ Overwritten(old, A, v) \in Values
         /\ \A a \in Attribute \ A : Overwritten(old, A, v)[a] = old[a]
  BY DEF Overwritten, Values

WithValue(x, i, w) == [x EXCEPT ![i].value = w]
WithGroup(x, i, g) == [x EXCEPT ![i].group = g]

LEMMA StoredValue ==
  ASSUME NEW x \in Resources, NEW i \in Resource, x[i] # Null, NEW w \in Values
  PROVE  /\ WithValue(x, i, w) \in Resources
         /\ WithValue(x, i, w)[i] = [group |-> x[i].group, value |-> w]
         /\ \A j \in Resource : j # i => WithValue(x, i, w)[j] = x[j]
  <1>1. x[i] \in ResourceRow
    BY ValuesOf
  <1>2. [x[i] EXCEPT !.value = w] = [group |-> x[i].group, value |-> w]
    BY <1>1 DEF ResourceRow
  <1>3. [x[i] EXCEPT !.value = w] \in ResourceRow
    BY <1>1 DEF ResourceRow
  <1> QED
    BY <1>2, <1>3 DEF Resources, WithValue

LEMMA StoredGroup ==
  ASSUME NEW x \in Resources, NEW i \in Resource, x[i] # Null, NEW g \in Group
  PROVE  /\ WithGroup(x, i, g) \in Resources
         /\ WithGroup(x, i, g)[i] # Null
         /\ WithGroup(x, i, g)[i].group = g
         /\ WithGroup(x, i, g)[i].value = x[i].value
         /\ \A j \in Resource : j # i => WithGroup(x, i, g)[j] = x[j]
  <1>1. x[i] \in ResourceRow
    BY ValuesOf
  <1>2. /\ [x[i] EXCEPT !.group = g] \in ResourceRow
        /\ [x[i] EXCEPT !.group = g].group = g
        /\ [x[i] EXCEPT !.group = g].value = x[i].value
    BY <1>1 DEF ResourceRow
  <1> QED
    BY <1>2, NullIsNoRow DEF Resources, WithGroup

\* One resource that stays in its group, and whose value of an attribute stays.
LEMMA OneStays ==
  ASSUME NEW x \in Resources, NEW y \in Resources, NEW i \in Resource,
         \A j \in Resource : j # i => y[j] = x[j],
         x[i] # Null, y[i] # Null, y[i].group = x[i].group,
         NEW r \in Row, r[1] = x[i].group => y[i].value[r[2]] = x[i].value[r[2]]
  PROVE  ProducedOf(y, r) = ProducedOf(x, r)
  <1>1. Members(y, r[1]) = Members(x, r[1])
    BY DEF Members
  <1>2. \A j \in Members(x, r[1]) : y[j].value[r[2]] = x[j].value[r[2]]
    BY DEF Members
  <1> QED
    BY <1>1, <1>2, ProducedSame

\* One resource that is not in the group of r, before and after.
LEMMA OneElsewhere ==
  ASSUME NEW x \in Resources, NEW y \in Resources, NEW i \in Resource,
         \A j \in Resource : j # i => y[j] = x[j],
         NEW r \in Row, x[i] # Null => x[i].group # r[1], y[i] # Null => y[i].group # r[1]
  PROVE  ProducedOf(y, r) = ProducedOf(x, r)
  <1>1. Members(y, r[1]) = Members(x, r[1])
    BY DEF Members
  <1>2. \A j \in Members(x, r[1]) : y[j].value[r[2]] = x[j].value[r[2]]
    BY DEF Members
  <1> QED
    BY <1>1, <1>2, ProducedSame

LEMMA ZeroValue ==
  ASSUME NEW w \in ResourceRow, NEW a \in Attribute
  PROVE  /\ [w EXCEPT !.value[a] = 0] \in ResourceRow
         /\ [w EXCEPT !.value[a] = 0].group = w.group
         /\ \A b \in Attribute : b # a => [w EXCEPT !.value[a] = 0].value[b] = w.value[b]
  <1> DEFINE v == [w.value EXCEPT ![a] = 0]
  <1>1. w = [group |-> w.group, value |-> w.value] /\ w.group \in Group /\ w.value \in Values
    BY DEF ResourceRow
  <1>2. v \in Values /\ \A b \in Attribute : b # a => v[b] = w.value[b]
    BY <1>1, TrackerAssumption DEF Values
  <1>3. [w EXCEPT !.value[a] = 0] = [w EXCEPT !.value = v]
    OBVIOUS
  <1> HIDE DEF v
  <1>4. [w EXCEPT !.value = v] = [group |-> w.group, value |-> v]
    BY DEF ResourceRow
  <1> QED
    BY <1>1, <1>2, <1>3, <1>4 DEF ResourceRow

-----------------------------------------------------------------------------
(* What is right after a step. *)

Right(t, x, r) == RightProduced(t, x, r) /\ RightConsumed(t, r)

AllRight == \A r \in Linked(transformer) : Right(transformer, resource, r)

\* The totals that a step leaves wrong.
OnlyNamed ==
    \A r \in Linked(transformer') :
        Right(transformer', resource', r) \/ LostChild(r) \/ Moved(r[1]) \/ MovedTo(r)

LEMMA BalancedIsRight == Balanced => AllRight /\ NothingHidden /\ NoDangling
  BY DEF Balanced, AllRight, Wrong, Right, RightProduced, RightConsumed

LEMMA OnlyNamedIs ==
  OnlyNamed => \A r \in Wrong' : LostChild(r) \/ Moved(r[1]) \/ MovedTo(r)
  BY DEF OnlyNamed, Wrong, Right, RightProduced, RightConsumed

LEMMA SameResources ==
  ASSUME NEW t, NEW u, NEW x, NEW r, RightProduced(t, x, r), u[r].produced = t[r].produced
  PROVE  RightProduced(u, x, r)
  BY DEF RightProduced

LEMMA CreateKeeps ==
  ASSUME TypeOK, NEW r \in Row, NEW p \in Row \cup {Null}, NEW f \in Factor, CreateTransformer(r, p, f)
  PROVE  /\ TypeOK'
         /\ AllRight /\ NothingHidden /\ NoDangling => OnlyNamed
  <1> DEFINE new == [parent |-> p, factor |-> f, produced |-> 0, consumed |-> 0]
             t == transformer
             u == transformer'
  <1>1. /\ t \in Links /\ resource \in Resources /\ resource' = resource
        /\ u = [t EXCEPT ![r] = new] /\ new \in Transformer /\ new # Null /\ t[r] = Null
        /\ p \in Targets(r[1])
    BY TypeOKIs, ZeroRow, NullIsNoRow DEF CreateTransformer, Linked
  <1>2. /\ u \in Links /\ u[r] = new /\ \A q \in Row : q # r => u[q] = t[q]
        /\ Linked(u) = Linked(t) \cup {r} /\ r \notin Linked(t)
    <2> HIDE DEF new
    <2> QED
      BY <1>1 DEF Links, Linked
  <1>3. TypeOK'
    BY <1>1, <1>2 DEF TypeOK, Links, Resources
  <1>4. u[r].produced = 0 /\ u[r].consumed = 0 /\ u[r].parent = p /\ p # r
    BY <1>1, <1>2, TrackerAssumption DEF Targets
  <1> HIDE DEF new, t, u
  <1>5. ASSUME AllRight, NEW q \in Linked(t) PROVE Right(u, resource, q)
    <2>1. u[q] = t[q] /\ q \in Row /\ q # r
      BY <1>2 DEF Linked
    <2>2. Children(u, q) \ {r} = Children(t, q) /\ r \notin Linked(t)
      BY <1>2 DEF Children, Linked
    <2>3. ConsumedOf(u, q) = ConsumedOf(t, q)
      <3>1. \A o \in Linked(t) : u[o] = t[o]
        BY <1>2 DEF Linked
      <3>2. t \in Links /\ u \in Links /\ r \in Linked(u) /\ u[r].produced = 0
        BY <1>1, <1>2, <1>4
      <3> QED
        BY <2>2, <3>1, <3>2, ChildOfZero
    <2>4. Right(t, resource, q)
      BY <1>5 DEF AllRight, t
    <2> QED
      BY <2>1, <2>3, <2>4 DEF Right, RightProduced, RightConsumed
  <1>6. ASSUME NothingHidden, NoDangling PROVE Right(u, resource, r)
    <2>1. Children(u, r) = {}
      BY <1>1, <1>2, <1>4, <1>6, TrackerAssumption DEF Children, NoDangling, Linked, t
    <2>2. ConsumedOf(u, r) = 0
      BY <2>1, ConsumedIsSum, SumEmpty, TrackerAssumption
    <2>3. \A i \in Members(resource, r[1]) : Produces(resource, r[2])[i] = 0
      <3>1. r = <<r[1], r[2]>> /\ r[2] \in Attribute
        BY TrackerAssumption, AttributeOfRow
      <3> QED
        BY <1>2, <1>6, <3>1 DEF Members, Produces, NothingHidden, t
    <2>4. IsFiniteSet(Members(resource, r[1]))
      BY TrackerAssumption, FS_Subset DEF Members
    <2>5. ProducedOf(resource, r) = 0
      BY <2>3, <2>4, ProducedIsSum, SumZero
    <2> QED
      BY <1>4, <2>2, <2>5 DEF Right, RightProduced, RightConsumed
  <1> QED
    BY <1>1, <1>2, <1>3, <1>5, <1>6 DEF OnlyNamed, u

\* A row of Transformer is saved at s: it may be new there, it may have been at r.
LEMMA RelinkKeeps ==
  ASSUME transformer \in Links, resource \in Resources, resource' = resource, AllRight,
         NEW u \in Links, NEW s \in Linked(u), transformer' = Notified(u, {s}),
         \A q \in Linked(u) \ {s} : q \in Linked(transformer) /\ u[q] = transformer[q],
         NEW q \in Linked(u), q \in Linked(transformer),
         u[q].produced = transformer[q].produced, u[q].consumed = transformer[q].consumed,
         ~LostChild(q)
  PROVE  Right(transformer', resource', q)
  <1>1. /\ transformer' \in Links /\ SameLinks(u, transformer')
        /\ transformer'[q].produced = u[q].produced
    BY NotifiedRow
  <1>2. Children(transformer', q) = Children(u, q)
    BY <1>1, SameLinksSame
  <1>3. Children(transformer, q) \subseteq Children(u, q)
    BY <1>2 DEF LostChild
  <1>4. Right(transformer, resource, q)
    BY DEF AllRight
  <1>5. RightConsumed(transformer', q)
    BY <1>3, <1>4, RelinkedRight DEF Right
  <1> QED
    BY <1>1, <1>4, <1>5 DEF Right, RightProduced

LEMMA EditKeeps ==
  ASSUME TypeOK, NEW r \in Row, NEW p \in Row \cup {Null}, NEW f \in Factor, EditTransformer(r, p, f)
  PROVE  TypeOK' /\ (AllRight => OnlyNamed)
  <1> DEFINE new == [transformer[r] EXCEPT !.parent = p, !.factor = f]
             u == [transformer EXCEPT ![r] = new]
  <1>1. /\ transformer \in Links /\ resource \in Resources /\ resource' = resource
        /\ r \in Linked(transformer) /\ transformer' = Notified(u, {r})
    BY TypeOKIs DEF EditTransformer
  <1>2. /\ new \in Transformer /\ new # Null /\ new.produced = transformer[r].produced
        /\ new.consumed = transformer[r].consumed
    <2>1. transformer[r] \in Transformer
      BY <1>1, LinkedRow
    <2>2. /\ new \in Transformer /\ new.produced = transformer[r].produced
          /\ new.consumed = transformer[r].consumed
      BY <2>1 DEF Transformer
    <2> QED
      BY <2>2, NullIsNoRow
  <1> HIDE DEF new
  <1>3. /\ u \in Links /\ u[r] = new /\ \A q \in Row : q # r => u[q] = transformer[q]
        /\ Linked(u) = Linked(transformer) /\ r \in Linked(u)
    BY <1>1, <1>2 DEF Links, Linked
  <1> HIDE DEF u
  <1>4. transformer' \in Links /\ Linked(transformer') = Linked(u)
    BY <1>1, <1>3, NotifiedRow, SameLinksSame
  <1>5. ASSUME AllRight, NEW q \in Linked(u), ~LostChild(q) PROVE Right(transformer', resource', q)
    <2>1. u[q].produced = transformer[q].produced /\ u[q].consumed = transformer[q].consumed
      BY <1>2, <1>3 DEF Linked
    <2>2. \A o \in Linked(u) \ {r} : o \in Linked(transformer) /\ u[o] = transformer[o]
      BY <1>3 DEF Linked
    <2> QED
      BY <1>1, <1>3, <1>5, <2>1, <2>2, RelinkKeeps
  <1> QED
    BY <1>1, <1>4, <1>5 DEF TypeOK, Links, Resources, OnlyNamed

LEMMA MoveTransformerKeeps ==
  ASSUME TypeOK, NEW r \in Row, NEW s \in Row, NEW p \in Row \cup {Null}, MoveTransformer(r, s, p)
  PROVE  TypeOK' /\ (AllRight => OnlyNamed)
  <1> DEFINE new == [transformer[r] EXCEPT !.parent = p]
             u == [transformer EXCEPT ![r] = Null, ![s] = new]
  <1>1. /\ transformer \in Links /\ resource \in Resources /\ resource' = resource
        /\ r \in Linked(transformer) /\ s \notin Linked(transformer) /\ s # r
        /\ transformer' = Notified(u, {s})
    BY TypeOKIs DEF MoveTransformer
  <1>2. new \in Transformer /\ new # Null
    <2>1. transformer[r] \in Transformer
      BY <1>1, LinkedRow
    <2>2. new \in Transformer
      BY <2>1 DEF Transformer
    <2> QED
      BY <2>2, NullIsNoRow
  <1> HIDE DEF new
  <1>3. /\ u \in Links /\ u[s] = new /\ u[r] = Null
        /\ \A q \in Row : q # r /\ q # s => u[q] = transformer[q]
        /\ Linked(u) = (Linked(transformer) \ {r}) \cup {s}
    BY <1>1, <1>2 DEF Links, Linked
  <1> HIDE DEF u
  <1>4. transformer' \in Links /\ Linked(transformer') = Linked(u)
    BY <1>1, <1>3, NotifiedRow, SameLinksSame
  <1>5. ASSUME AllRight, NEW q \in Linked(u), q # s, ~LostChild(q)
        PROVE  Right(transformer', resource', q)
    <2>1. \A o \in Linked(u) \ {s} : o \in Linked(transformer) /\ u[o] = transformer[o]
      BY <1>1, <1>3 DEF Linked
    <2>2. q \in Linked(transformer) /\ u[q] = transformer[q]
      BY <1>5, <2>1
    <2> QED
      BY <1>1, <1>3, <1>5, <2>1, <2>2, RelinkKeeps
  <1>6. MovedTo(s)
    BY <1>1, <1>3, <1>4 DEF MovedTo
  <1> QED
    BY <1>1, <1>4, <1>5, <1>6 DEF TypeOK, Links, Resources, OnlyNamed

-----------------------------------------------------------------------------
(* Deletions: a transformer that stays either lost a child or takes what it took. *)

LEMMA UnlinkKeeps ==
  ASSUME transformer \in Links, AllRight, NEW R \in SUBSET Row, transformer' = Unlinked(R),
         NEW r \in Linked(transformer'), ~LostChild(r),
         ProducedOf(resource', r) = ProducedOf(resource, r)
  PROVE  Right(transformer', resource', r)
  <1>1. /\ transformer' \in Links /\ Linked(transformer') = Linked(transformer) \ R
        /\ \A q \in Linked(transformer') :
              /\ transformer'[q].parent =
                     IF transformer[q].parent \in R THEN Null ELSE transformer[q].parent
              /\ transformer'[q].factor = transformer[q].factor
              /\ transformer'[q].produced = transformer[q].produced
              /\ transformer'[q].consumed = transformer[q].consumed
    BY UnlinkedRows
  <1>2. r \in Linked(transformer) /\ Right(transformer, resource, r)
    BY <1>1 DEF AllRight
  <1>3. Children(transformer', r) = Children(transformer, r)
    <2>1. Children(transformer, r) \subseteq Children(transformer', r)
      BY DEF LostChild
    <2>2. r \in Row /\ r # Null
      BY <1>2, TrackerAssumption DEF Linked
    <2>3. Children(transformer', r) \subseteq Children(transformer, r)
      BY <1>1, <2>2 DEF Children
    <2> QED
      BY <2>1, <2>3
  <1>4. \A c \in Children(transformer, r) :
            transformer'[c].produced = transformer[c].produced /\ transformer'[c].factor = transformer[c].factor
    BY <1>1, <1>3 DEF Children
  <1>5. ConsumedOf(transformer', r) = ConsumedOf(transformer, r)
    BY <1>1, <1>3, <1>4, ConsumedSame
  <1> QED
    BY <1>1, <1>2, <1>5 DEF Right, RightProduced, RightConsumed

LEMMA DeleteTransformerKeeps ==
  ASSUME TypeOK, NEW r \in Row, DeleteTransformer(r)
  PROVE  TypeOK' /\ (AllRight => OnlyNamed)
  <1> DEFINE M == Members(resource, r[1])
             zero(i) == [resource[i] EXCEPT !.value[r[2]] = 0]
  <1>1. /\ transformer \in Links /\ resource \in Resources /\ transformer' = Unlinked({r})
        /\ \A i \in Resource : resource'[i] = IF i \in M THEN zero(i) ELSE resource[i]
        /\ resource' = [i \in Resource |-> resource'[i]]
    BY TypeOKIs DEF DeleteTransformer
  <1>2. transformer' \in Links /\ Linked(transformer') = Linked(transformer) \ {r}
    BY <1>1, UnlinkedRows
  <1>3. ASSUME NEW i \in M
        PROVE  /\ zero(i) \in ResourceRow /\ zero(i).group = resource[i].group
               /\ \A b \in Attribute : b # r[2] => zero(i).value[b] = resource[i].value[b]
    <2>1. i \in Resource /\ resource[i] \in ResourceRow /\ r[2] \in Attribute
      BY <1>1, ValuesOf, AttributeOfRow DEF Members
    <2> QED
      BY <2>1, ZeroValue
  <1> HIDE DEF M, zero
  <1>4. resource' \in Resources
    BY <1>1, <1>3 DEF Resources
  <1>5. ASSUME NEW q \in Linked(transformer') PROVE ProducedOf(resource', q) = ProducedOf(resource, q)
    <2>1. Members(resource', q[1]) = Members(resource, q[1])
      BY <1>1, <1>3, NullIsNoRow DEF Members, M
    <2>2. q \in Row /\ q # r /\ q[2] \in Attribute
      BY <1>2, AttributeOfRow DEF Linked
    <2>3. q[1] = r[1] => q[2] # r[2]
      BY <2>2, TrackerAssumption
    <2>4. \A i \in Members(resource, q[1]) : resource'[i].value[q[2]] = resource[i].value[q[2]]
      BY <1>1, <1>3, <2>2, <2>3 DEF Members, M
    <2> QED
      BY <2>1, <2>4, ProducedSame
  <1>6. ASSUME AllRight PROVE OnlyNamed
    BY <1>1, <1>5, <1>6, UnlinkKeeps DEF OnlyNamed
  <1> QED
    BY <1>2, <1>4, <1>6, TypeOKIs DEF TypeOK, Links, Resources

LEMMA DeleteGroupKeeps ==
  ASSUME TypeOK, NEW g \in Group, DeleteGroup(g)
  PROVE  TypeOK' /\ (AllRight => OnlyNamed)
  <1> DEFINE R == {r \in Row : r[1] = g}
  <1>1. /\ transformer \in Links /\ resource \in Resources /\ transformer' = Unlinked(R)
        /\ \A i \in Resource : resource'[i] = IF i \in Members(resource, g) THEN Null ELSE resource[i]
        /\ resource' = [i \in Resource |-> resource'[i]]
    BY TypeOKIs DEF DeleteGroup
  <1>2. transformer' \in Links /\ Linked(transformer') = Linked(transformer) \ R
    BY <1>1, UnlinkedRows
  <1>3. resource' \in Resources
    BY <1>1 DEF Resources
  <1>4. ASSUME NEW q \in Linked(transformer') PROVE ProducedOf(resource', q) = ProducedOf(resource, q)
    <2>1. q[1] # g
      BY <1>2 DEF Linked
    <2>2. Members(resource', q[1]) = Members(resource, q[1])
      BY <1>1, <2>1 DEF Members
    <2>3. \A i \in Members(resource, q[1]) : resource'[i].value[q[2]] = resource[i].value[q[2]]
      BY <1>1, <2>1 DEF Members
    <2> QED
      BY <2>2, <2>3, ProducedSame
  <1>5. ASSUME AllRight PROVE OnlyNamed
    BY <1>1, <1>4, <1>5, UnlinkKeeps DEF OnlyNamed
  <1> QED
    BY <1>2, <1>3, <1>5 DEF TypeOK, Links, Resources

LEMMA DeleteAttributeKeeps ==
  ASSUME TypeOK, NEW a \in Attribute, DeleteAttribute(a)
  PROVE  TypeOK' /\ (AllRight => OnlyNamed)
  <1> DEFINE R == {r \in Row : r[2] = a}
             zero(i) == [resource[i] EXCEPT !.value[a] = 0]
  <1>1. /\ transformer \in Links /\ resource \in Resources /\ transformer' = Unlinked(R)
        /\ \A i \in Resource : resource'[i] = IF resource[i] = Null THEN Null ELSE zero(i)
        /\ resource' = [i \in Resource |-> resource'[i]]
    BY TypeOKIs DEF DeleteAttribute
  <1>2. transformer' \in Links /\ Linked(transformer') = Linked(transformer) \ R
    BY <1>1, UnlinkedRows
  <1>3. ASSUME NEW i \in Resource, resource[i] # Null
        PROVE  /\ zero(i) \in ResourceRow /\ zero(i).group = resource[i].group
               /\ \A b \in Attribute : b # a => zero(i).value[b] = resource[i].value[b]
    <2>1. resource[i] \in ResourceRow
      BY <1>1, <1>3, ValuesOf
    <2> QED
      BY <2>1, ZeroValue
  <1> HIDE DEF zero
  <1>4. resource' \in Resources
    BY <1>1, <1>3 DEF Resources
  <1>5. ASSUME NEW q \in Linked(transformer') PROVE ProducedOf(resource', q) = ProducedOf(resource, q)
    <2>1. q \in Row /\ q[2] # a /\ q[2] \in Attribute
      BY <1>2, AttributeOfRow DEF Linked
    <2>2. Members(resource', q[1]) = Members(resource, q[1])
      BY <1>1, <1>3, NullIsNoRow DEF Members
    <2>3. \A i \in Members(resource, q[1]) : resource'[i].value[q[2]] = resource[i].value[q[2]]
      BY <1>1, <1>3, <2>1 DEF Members
    <2> QED
      BY <2>2, <2>3, ProducedSame
  <1>6. ASSUME AllRight PROVE OnlyNamed
    BY <1>1, <1>5, <1>6, UnlinkKeeps DEF OnlyNamed
  <1> QED
    BY <1>2, <1>4, <1>6 DEF TypeOK, Links, Resources

-----------------------------------------------------------------------------
(* Resources: the totals of the group are recounted, those of the others need not be. *)

LEMMA RowsOfLinked == \A t, g : RowsOf(t, g) \in SUBSET Linked(t)
  BY DEF RowsOf

\* The transformers R are recounted with the resources y, the others produce what they did.
LEMMA RecountKeeps ==
  ASSUME transformer \in Links, AllRight, NEW y \in Resources, NEW R \in SUBSET Linked(transformer),
         transformer' = Recounted(transformer, y, R),
         NEW r \in Linked(transformer'),
         r \in R \/ ProducedOf(y, r) = ProducedOf(resource, r),
         ProducedOf(resource', r) = ProducedOf(y, r)
  PROVE  Right(transformer', resource', r)
  <1>1. Linked(transformer') = Linked(transformer)
    BY RecountedLinks, SameLinksSame
  <1>2. Right(transformer, resource, r)
    BY <1>1 DEF AllRight
  <1>3. r \in R \/ RightProduced(transformer, y, r)
    BY <1>2 DEF Right, RightProduced
  <1>4. RightProduced(transformer', y, r) /\ RightConsumed(transformer', r)
    BY <1>1, <1>2, <1>3, RecountedRight DEF Right
  <1> QED
    BY <1>4 DEF Right, RightProduced

LEMMA CreateResourceKeeps ==
  ASSUME TypeOK, NEW i \in Resource, NEW g \in Group, NEW v \in [AttributesOf(g) -> Value],
         CreateResource(i, g, v)
  PROVE  TypeOK' /\ (AllRight => OnlyNamed)
  <1> DEFINE new == [group |-> g, value |-> Overwritten([a \in Attribute |-> 0], AttributesOf(g), v)]
             R == RowsOf(transformer, g)
  <1>1. /\ transformer \in Links /\ resource \in Resources /\ resource[i] = Null
        /\ resource' = [resource EXCEPT ![i] = new]
        /\ transformer' = Recounted(transformer, resource', R)
    BY TypeOKIs DEF CreateResource
  <1>2. new \in ResourceRow /\ new.group = g
    <2>1. [a \in Attribute |-> 0] \in Values
      BY TrackerAssumption DEF Values
    <2>2. Overwritten([a \in Attribute |-> 0], AttributesOf(g), v) \in Values
      BY <2>1, OverwrittenValues
    <2> QED
      BY <2>2 DEF ResourceRow
  <1> HIDE DEF new
  <1>3. /\ resource' \in Resources /\ resource'[i] = new
        /\ \A j \in Resource : j # i => resource'[j] = resource[j]
    BY <1>1, <1>2 DEF Resources
  <1>4. transformer' \in Links /\ Linked(transformer') = Linked(transformer)
    BY <1>1, <1>3, RowsOfLinked, RecountedLinks, SameLinksSame
  <1>5. ASSUME NEW q \in Linked(transformer') PROVE q \in R \/ ProducedOf(resource', q) = ProducedOf(resource, q)
    <2>1. q \in Row /\ (q[1] = g => q \in R)
      BY <1>4 DEF RowsOf, Linked
    <2>2. q[1] # g => ProducedOf(resource', q) = ProducedOf(resource, q)
      <3>1. resource[i] = Null /\ resource'[i].group = g
        BY <1>1, <1>2, <1>3
      <3> QED
        BY <1>1, <1>3, <2>1, <3>1, OneElsewhere
    <2> QED
      BY <2>1, <2>2
  <1>6. ASSUME AllRight PROVE OnlyNamed
    BY <1>1, <1>3, <1>5, <1>6, RowsOfLinked, RecountKeeps DEF OnlyNamed
  <1> QED
    BY <1>3, <1>4, <1>6 DEF TypeOK, Links, Resources

LEMMA DeleteResourceKeeps ==
  ASSUME TypeOK, NEW i \in Resource, DeleteResource(i)
  PROVE  TypeOK' /\ (AllRight => OnlyNamed)
  <1> DEFINE g == resource[i].group
             R == RowsOf(transformer, g)
  <1>1. /\ transformer \in Links /\ resource \in Resources /\ resource[i] # Null
        /\ resource' = [resource EXCEPT ![i] = Null]
        /\ transformer' = Recounted(transformer, resource', R)
    BY TypeOKIs DEF DeleteResource
  <1>2. /\ resource' \in Resources /\ resource'[i] = Null
        /\ \A j \in Resource : j # i => resource'[j] = resource[j]
    BY <1>1 DEF Resources
  <1>3. transformer' \in Links /\ Linked(transformer') = Linked(transformer)
    BY <1>1, <1>2, RowsOfLinked, RecountedLinks, SameLinksSame
  <1>4. ASSUME NEW q \in Linked(transformer') PROVE q \in R \/ ProducedOf(resource', q) = ProducedOf(resource, q)
    <2>1. q \in Row /\ (q[1] = g => q \in R)
      BY <1>3 DEF RowsOf, Linked
    <2>2. q[1] # g => ProducedOf(resource', q) = ProducedOf(resource, q)
      BY <1>1, <1>2, <2>1, OneElsewhere
    <2> QED
      BY <2>1, <2>2
  <1>5. ASSUME AllRight PROVE OnlyNamed
    BY <1>1, <1>2, <1>4, <1>5, RowsOfLinked, RecountKeeps DEF OnlyNamed
  <1> QED
    BY <1>2, <1>3, <1>5 DEF TypeOK, Links, Resources

\* The attributes A of a resource are overwritten, and nothing else of it.
Overwrite(x, i, A, v) == WithValue(x, i, Overwritten(x[i].value, A, v))

LEMMA OverwrittenRow ==
  ASSUME NEW x \in Resources, NEW i \in Resource, x[i] # Null, NEW A, NEW v, \A a \in A : v[a] \in Value
  PROVE  /\ Overwrite(x, i, A, v) \in Resources
         /\ Overwrite(x, i, A, v)[i] # Null
         /\ Overwrite(x, i, A, v)[i].group = x[i].group
         /\ \A r \in Row : ~(r[1] = x[i].group /\ r[2] \in A)
                              => ProducedOf(Overwrite(x, i, A, v), r) = ProducedOf(x, r)
  <1> DEFINE w == Overwritten(x[i].value, A, v)
             y == Overwrite(x, i, A, v)
  <1>1. w \in Values /\ \A a \in Attribute \ A : w[a] = x[i].value[a]
    BY ValuesOf, OverwrittenValues
  <1>2. y = WithValue(x, i, w)
    BY DEF Overwrite
  <1> HIDE DEF w, y
  <1>3. /\ y \in Resources /\ y[i] = [group |-> x[i].group, value |-> w]
        /\ \A j \in Resource : j # i => y[j] = x[j]
    BY <1>1, <1>2, StoredValue
  <1>4. y[i] # Null /\ y[i].group = x[i].group /\ y[i].value = w
    <2>1. [group |-> x[i].group, value |-> w] \in ResourceRow
      BY <1>1, ValuesOf DEF ResourceRow
    <2> QED
      BY <1>3, <2>1, NullIsNoRow
  <1>5. ASSUME NEW r \in Row, ~(r[1] = x[i].group /\ r[2] \in A) PROVE ProducedOf(y, r) = ProducedOf(x, r)
    <2>1. r[1] = x[i].group => y[i].value[r[2]] = x[i].value[r[2]]
      BY <1>1, <1>4, <1>5, AttributeOfRow
    <2> QED
      BY <1>3, <1>4, <2>1, OneStays
  <1> QED
    BY <1>3, <1>4, <1>5 DEF y

LEMMA EditResourceKeeps ==
  ASSUME TypeOK, NEW i \in Resource, NEW g \in Group, NEW v \in [AttributesOf(g) -> Value],
         EditResource(i, g, v)
  PROVE  TypeOK' /\ (AllRight => OnlyNamed)
  <1> DEFINE R == RowsOf(transformer, g)
  <1>1. /\ transformer \in Links /\ resource \in Resources /\ resource[i] # Null /\ g = resource[i].group
        /\ resource' = [resource EXCEPT ![i].value = Overwritten(@, AttributesOf(g), v)]
        /\ transformer' = Recounted(transformer, resource', R)
    BY TypeOKIs DEF EditResource
  <1>2. /\ resource' \in Resources
        /\ \A q \in Row : ~(q[1] = g /\ q[2] \in AttributesOf(g))
                             => ProducedOf(resource', q) = ProducedOf(resource, q)
    <2> DEFINE A == AttributesOf(g)
    <2>1. \A a \in A : v[a] \in Value
      OBVIOUS
    <2>2. resource' = Overwrite(resource, i, A, v)
      BY <1>1 DEF Overwrite, WithValue
    <2> HIDE DEF A
    <2>3. /\ resource' \in Resources
          /\ \A q \in Row : ~(q[1] = resource[i].group /\ q[2] \in A)
                               => ProducedOf(resource', q) = ProducedOf(resource, q)
      <3>1. resource \in Resources /\ resource[i] # Null
        BY <1>1
      <3> QED
        BY <2>1, <2>2, <3>1, OverwrittenRow
    <2> QED
      BY <1>1, <2>3 DEF A
  <1>3. transformer' \in Links /\ Linked(transformer') = Linked(transformer)
    BY <1>1, <1>2, RowsOfLinked, RecountedLinks, SameLinksSame
  <1>4. ASSUME NEW q \in Linked(transformer') PROVE q \in R \/ ProducedOf(resource', q) = ProducedOf(resource, q)
    BY <1>2, <1>3 DEF RowsOf, Linked
  <1>5. ASSUME AllRight PROVE OnlyNamed
    BY <1>1, <1>2, <1>4, <1>5, RowsOfLinked, RecountKeeps DEF OnlyNamed
  <1> QED
    BY <1>2, <1>3, <1>5 DEF TypeOK, Links, Resources

\* A resource that leaves its group is where it was for every other group.
LEMMA MovedAway ==
  ASSUME NEW x \in Resources, NEW i \in Resource, x[i] # Null, NEW g \in Group,
         NEW r \in Row, g = x[i].group \/ r[1] \notin {g, x[i].group}
  PROVE  ProducedOf(WithGroup(x, i, g), r) = ProducedOf(x, r)
  <1> DEFINE y == WithGroup(x, i, g)
  <1>1. /\ y \in Resources /\ y[i] # Null /\ y[i].group = g /\ y[i].value = x[i].value
        /\ \A j \in Resource : j # i => y[j] = x[j]
    BY StoredGroup
  <1> HIDE DEF y
  <1>2. CASE g = x[i].group
    BY <1>1, <1>2, OneStays DEF y
  <1>3. CASE r[1] \notin {g, x[i].group}
    BY <1>1, <1>3, OneElsewhere DEF y
  <1> QED
    BY <1>2, <1>3

LEMMA MoveResourceKeeps ==
  ASSUME TypeOK, NEW i \in Resource, NEW g \in Group, MoveResource(i, g)
  PROVE  TypeOK' /\ (AllRight => OnlyNamed)
  <1>1. /\ transformer \in Links /\ resource \in Resources /\ resource[i] # Null
        /\ resource' = WithGroup(resource, i, g) /\ transformer' = transformer
    BY TypeOKIs DEF MoveResource, WithGroup
  <1>2. resource' \in Resources /\ resource'[i] # Null /\ resource'[i].group = g
    BY <1>1, StoredGroup
  <1>3. ASSUME AllRight, NEW r \in Linked(transformer'), ~Moved(r[1])
        PROVE  Right(transformer', resource', r)
    <2>1. r \in Row /\ (g = resource[i].group \/ r[1] \notin {g, resource[i].group})
      BY <1>1, <1>2, <1>3 DEF Moved, Linked
    <2>2. ProducedOf(resource', r) = ProducedOf(resource, r)
      BY <1>1, <2>1, MovedAway
    <2>3. Right(transformer, resource, r)
      BY <1>1, <1>3 DEF AllRight
    <2> QED
      BY <1>1, <2>2, <2>3 DEF Right, RightProduced
  <1> QED
    BY <1>1, <1>2, <1>3 DEF OnlyNamed, TypeOK, Links, Resources

LEMMA UpdateResourceKeeps ==
  ASSUME TypeOK, NEW i \in Resource, NEW g \in Group, NEW A \in SUBSET Attribute,
         NEW v \in [A -> Value], UpdateResource(i, g, A, v)
  PROVE  TypeOK' /\ (AllRight => OnlyNamed)
  <1> DEFINE stored == [resource EXCEPT ![i].value = Overwritten(@, A, v)]
             old == resource[i].group
             R == {r \in RowsOf(transformer, old) : r[2] \in A}
  <1>1. /\ transformer \in Links /\ resource \in Resources /\ resource[i] # Null
        /\ stored = Overwrite(resource, i, A, v)
        /\ resource' = WithGroup(stored, i, g)
        /\ transformer' = Recounted(transformer, stored, R)
    BY TypeOKIs DEF UpdateResource, WithGroup, WithValue, Overwrite
  <1> HIDE DEF stored
  <1>2. /\ stored \in Resources /\ stored[i] # Null /\ stored[i].group = old
        /\ \A q \in Row : ~(q[1] = old /\ q[2] \in A) => ProducedOf(stored, q) = ProducedOf(resource, q)
    <2>1. \A a \in A : v[a] \in Value
      OBVIOUS
    <2> QED
      BY <1>1, <2>1, OverwrittenRow
  <1>3. R \in SUBSET Linked(transformer)
    BY RowsOfLinked
  <1>4. transformer' \in Links /\ Linked(transformer') = Linked(transformer)
    BY <1>1, <1>2, <1>3, RecountedLinks, SameLinksSame
  <1>5. resource' \in Resources /\ resource'[i] # Null /\ resource'[i].group = g
    BY <1>1, <1>2, StoredGroup
  <1>6. ASSUME AllRight, NEW q \in Linked(transformer'), ~Moved(q[1])
        PROVE  Right(transformer', resource', q)
    <2>1. q \in Row /\ (g = old \/ q[1] \notin {g, old})
      BY <1>1, <1>4, <1>5, <1>6 DEF Moved, Linked
    <2>2. ProducedOf(resource', q) = ProducedOf(stored, q)
      BY <1>1, <1>2, <2>1, MovedAway
    <2>3. q \in R \/ ProducedOf(stored, q) = ProducedOf(resource, q)
      BY <1>2, <1>4, <2>1 DEF RowsOf
    <2> HIDE DEF R
    <2> QED
      BY <1>1, <1>2, <1>3, <1>6, <2>2, <2>3, RecountKeeps
  <1> QED
    BY <1>4, <1>5, <1>6 DEF OnlyNamed, TypeOK, Links, Resources

LEMMA UpdateResourceFailsKeeps ==
  ASSUME TypeOK, NEW i \in Resource, NEW g \in Group, NEW A \in SUBSET Attribute, NEW a \in Attribute,
         NEW v \in [A \cup {a} -> Value], UpdateResourceFails(i, g, A, a, v)
  PROVE  TypeOK' /\ (AllRight => OnlyNamed)
  <1> DEFINE old == resource[i].group
             R == {r \in RowsOf(transformer, old) : r[2] \in A}
             B == A \cup {a}
  <1>1. /\ transformer \in Links /\ resource \in Resources /\ resource[i] # Null
        /\ resource' = Overwrite(resource, i, B, v)
        /\ transformer' = Recounted(transformer, resource', R)
        /\ a \notin AttributesOf(old)
    BY TypeOKIs DEF UpdateResourceFails, WithValue, Overwrite
  <1>2. /\ resource' \in Resources
        /\ \A q \in Row : ~(q[1] = old /\ q[2] \in B) => ProducedOf(resource', q) = ProducedOf(resource, q)
    <2>1. \A b \in B : v[b] \in Value
      OBVIOUS
    <2> HIDE DEF B
    <2> QED
      BY <1>1, <2>1, OverwrittenRow
  <1>3. R \in SUBSET Linked(transformer)
    BY RowsOfLinked
  <1>4. transformer' \in Links /\ Linked(transformer') = Linked(transformer)
    BY <1>1, <1>2, <1>3, RecountedLinks, SameLinksSame
  <1>5. ASSUME NEW q \in Linked(transformer')
        PROVE  q \in R \/ ProducedOf(resource', q) = ProducedOf(resource, q)
    <2>1. q \in Row /\ (q[1] = old => q[2] # a)
      BY <1>1, <1>4 DEF AttributesOf, RowsOf, Linked
    <2> QED
      BY <1>2, <1>4, <2>1 DEF RowsOf
  <1>6. ASSUME AllRight PROVE OnlyNamed
    <2> HIDE DEF R
    <2> QED
      BY <1>1, <1>2, <1>3, <1>5, <1>6, RecountKeeps DEF OnlyNamed
  <1> QED
    BY <1>2, <1>4, <1>6 DEF TypeOK, Links, Resources

-----------------------------------------------------------------------------
(* The theorems about totals. *)

LEMMA StepKeeps ==
  ASSUME TypeOK, Next
  PROVE  TypeOK' /\ (Balanced => OnlyNamed)
  <1> USE BalancedIsRight
  <1>1. CASE \E r \in Row, p \in Row \cup {Null}, f \in Factor : CreateTransformer(r, p, f)
    BY <1>1, CreateKeeps
  <1>2. CASE \E r \in Row, p \in Row \cup {Null}, f \in Factor : EditTransformer(r, p, f)
    BY <1>2, EditKeeps
  <1>3. CASE \E r, s \in Row, p \in Row \cup {Null} : MoveTransformer(r, s, p)
    BY <1>3, MoveTransformerKeeps
  <1>4. CASE \E r \in Row : DeleteTransformer(r)
    BY <1>4, DeleteTransformerKeeps
  <1>5. CASE \E g \in Group : DeleteGroup(g)
    BY <1>5, DeleteGroupKeeps
  <1>6. CASE \E a \in Attribute : DeleteAttribute(a)
    BY <1>6, DeleteAttributeKeeps
  <1>7. CASE \E i \in Resource, g \in Group : \E v \in [AttributesOf(g) -> Value] : CreateResource(i, g, v)
    BY <1>7, CreateResourceKeeps
  <1>8. CASE \E i \in Resource, g \in Group : \E v \in [AttributesOf(g) -> Value] : EditResource(i, g, v)
    BY <1>8, EditResourceKeeps
  <1>9. CASE \E i \in Resource, g \in Group : MoveResource(i, g)
    BY <1>9, MoveResourceKeeps
  <1>10. CASE \E i \in Resource, g \in Group, A \in SUBSET Attribute : \E v \in [A -> Value] :
                  UpdateResource(i, g, A, v)
    BY <1>10, UpdateResourceKeeps
  <1>11. CASE \E i \in Resource, g \in Group, A \in SUBSET Attribute, a \in Attribute :
                  \E v \in [A \cup {a} -> Value] : UpdateResourceFails(i, g, A, a, v)
    BY <1>11, UpdateResourceFailsKeeps
  <1>12. CASE \E i \in Resource : DeleteResource(i)
    BY <1>12, DeleteResourceKeeps
  <1> QED
    BY <1>1, <1>2, <1>3, <1>4, <1>5, <1>6, <1>7, <1>8, <1>9, <1>10, <1>11, <1>12 DEF Next

(* Every row of the tracker keeps its type, and every total stays a natural number. *)
THEOREM TrackerTypeCorrect == Spec => []TypeOK
  <1>1. Init => TypeOK
    BY DEF Init, TypeOK
  <1>2. TypeOK /\ [Next]_vars => TypeOK'
    <2>1. TypeOK /\ UNCHANGED vars => TypeOK'
      BY DEF vars, TypeOK
    <2> QED
      BY <2>1, StepKeeps
  <1> QED
    BY <1>1, <1>2, PTL DEF Spec

(* From balanced totals a step leaves wrong only those the property names, for every number of
   rows and resources, however long the chains of links. *)
THEOREM TotalsFollowRows == Spec => TotalsFollow
  <1>1. TypeOK /\ [Next]_vars
            => [Balanced => \A r \in Wrong' : \/ LostChild(r)
                                              \/ Moved(r[1])
                                              \/ MovedTo(r)]_vars
    BY StepKeeps, OnlyNamedIs
  <1> QED
    BY <1>1, TrackerTypeCorrect, PTL DEF Spec, TotalsFollow

-----------------------------------------------------------------------------
(* No loop. *)

LoopFree(t) == \A r \in Linked(t) : r \notin Ancestors(t, r)
Attached(t) == \A r \in Linked(t) : t[r].parent \in Linked(t) \cup {Null}

\* Fewer links have fewer ancestors.
LEMMA FewerLinksNoLoop ==
  ASSUME NEW t, NEW u, Linked(u) \subseteq Linked(t), LoopFree(t),
         \A q \in Linked(u) : ParentOf(u, q) \subseteq ParentOf(t, q)
  PROVE  LoopFree(u)
  <1> SUFFICES ASSUME NEW r \in Linked(u) PROVE r \notin Ancestors(u, r)
    BY DEF LoopFree
  <1> DEFINE C == Ancestors(t, r) \cap Linked(u)
  <1>1. ParentOf(u, r) \subseteq C
    BY AncestorsClosed DEF ParentOf
  <1>2. Closed(u, C)
    <2> SUFFICES ASSUME NEW p \in C, NEW q \in ParentOf(u, p) PROVE q \in C
      BY DEF Closed
    <2>1. q \in Linked(u) /\ q \in ParentOf(t, p)
      BY DEF ParentOf
    <2> QED
      BY <2>1, AncestorsClosed DEF Closed
  <1>3. Ancestors(u, r) \subseteq C
    BY <1>1, <1>2, AncestorsLeast
  <1> QED
    BY <1>3 DEF LoopFree

\* A link from s into a set of rows that is closed and does not contain s makes no loop.
LEMMA NewLinkNoLoop ==
  ASSUME NEW t, NEW u, NEW s, LoopFree(t), Linked(u) \subseteq Linked(t) \cup {s},
         \A q \in Linked(u) \ {s} : ParentOf(u, q) \subseteq ParentOf(t, q),
         NEW D, Closed(t, D), s \notin D, ParentOf(u, s) \subseteq D
  PROVE  LoopFree(u)
  <1> SUFFICES ASSUME NEW r \in Linked(u) PROVE r \notin Ancestors(u, r)
    BY DEF LoopFree
  <1> DEFINE within(C) == C \cap Linked(u)
  <1>1. ASSUME NEW C, Closed(t, C), s \notin C, ParentOf(u, r) \subseteq C
        PROVE  Ancestors(u, r) \subseteq C
    <2>1. ParentOf(u, r) \subseteq within(C)
      BY <1>1 DEF ParentOf
    <2>2. Closed(u, within(C))
      <3> SUFFICES ASSUME NEW p \in within(C), NEW q \in ParentOf(u, p) PROVE q \in within(C)
        BY DEF Closed
      <3>1. q \in Linked(u) /\ q \in ParentOf(t, p)
        BY <1>1 DEF ParentOf
      <3> QED
        BY <1>1, <3>1 DEF Closed
    <2> HIDE DEF within
    <2>3. Ancestors(u, r) \subseteq within(C)
      BY <2>1, <2>2, AncestorsLeast
    <2> QED
      BY <2>3 DEF within
  <1>2. CASE r = s
    BY <1>1, <1>2
  <1>3. CASE r # s
    <2> DEFINE A == Ancestors(t, r)
    <2>1. Closed(t, A) /\ ParentOf(t, r) \subseteq A /\ ParentOf(u, r) \subseteq ParentOf(t, r)
      BY <1>3, AncestorsClosed
    <2>2. r \notin A
      BY <1>3 DEF LoopFree
    <2>3. CASE s \notin A
      BY <1>1, <2>1, <2>2, <2>3
    <2>4. CASE s \in A
      <3>1. r \notin D
        <4>1. ASSUME r \in D PROVE FALSE
          <5>1. ParentOf(t, r) \subseteq D
            BY <4>1 DEF Closed
          <5>2. A \subseteq D
            BY <5>1, AncestorsLeast
          <5> QED
            BY <2>4, <5>2
        <4> QED
          BY <4>1
      <3> DEFINE C == within(A \cup D)
      <3>2. ParentOf(u, r) \subseteq C
        BY <2>1 DEF ParentOf
      <3>3. Closed(u, C)
        <4> SUFFICES ASSUME NEW p \in C, NEW q \in ParentOf(u, p) PROVE q \in C
          BY DEF Closed
        <4>1. q \in Linked(u)
          BY DEF ParentOf
        <4>2. CASE p = s
          BY <4>1, <4>2
        <4>3. CASE p # s
          <5>1. q \in ParentOf(t, p)
            BY <4>3
          <5> QED
            BY <2>1, <4>1, <5>1 DEF Closed
        <4> QED
          BY <4>2, <4>3
      <3> HIDE DEF C
      <3>4. Ancestors(u, r) \subseteq C
        BY <3>2, <3>3, AncestorsLeast
      <3> QED
        BY <2>2, <3>1, <3>4 DEF C
    <2> QED
      BY <2>3, <2>4
  <1> QED
    BY <1>2, <1>3

\* Where a transformer may be linked to.
Reached(t, p) == IF p = Null THEN {} ELSE {p} \cup Ancestors(t, p)

LEMMA ReachedClosed ==
  ASSUME NEW t, NEW p
  PROVE  Closed(t, Reached(t, p))
  BY AncestorsClosed DEF Closed, Reached

LEMMA SameLinksSound ==
  ASSUME NEW t, NEW u, SameLinks(t, u)
  PROVE  /\ LoopFree(t) => LoopFree(u)
         /\ Attached(t) => Attached(u)
  <1>1. Linked(u) = Linked(t) /\ \A q \in Linked(u) : ParentOf(u, q) = ParentOf(t, q)
    BY SameLinksSame
  <1>2. LoopFree(t) => LoopFree(u)
    BY <1>1, FewerLinksNoLoop
  <1>3. Attached(t) => Attached(u)
    BY <1>1 DEF Attached, SameLinks, Linked
  <1> QED
    BY <1>2, <1>3

SoundLinks == LoopFree(transformer) /\ Attached(transformer)

StaySound ==
    /\ LoopFree(transformer')
    /\ \/ Attached(transformer')
       \/ \E r \in Linked(transformer), s \in Linked(transformer') :
             r \notin Linked(transformer') /\ s \notin Linked(transformer)

LEMMA CreateSound ==
  ASSUME TypeOK, SoundLinks, NEW r \in Row, NEW p \in Row \cup {Null}, NEW f \in Factor,
         CreateTransformer(r, p, f)
  PROVE  StaySound
  <1> DEFINE new == [parent |-> p, factor |-> f, produced |-> 0, consumed |-> 0]
             t == transformer
             u == transformer'
  <1>1. /\ t \in Links /\ u = [t EXCEPT ![r] = new] /\ new \in Transformer /\ new # Null
        /\ r \notin Linked(t) /\ p \in Linked(t) \cup {Null}
    BY TypeOKIs, ZeroRow, NullIsNoRow DEF CreateTransformer, Targets
  <1>2. new.parent = p
    OBVIOUS
  <1> HIDE DEF new
  <1>3. /\ u[r] = new /\ \A q \in Row : q # r => u[q] = t[q]
        /\ Linked(u) = Linked(t) \cup {r}
    BY <1>1 DEF Links, Linked
  <1> DEFINE D == Reached(t, p)
  <1>4. LoopFree(u)
    <2>1. Closed(t, D)
      BY ReachedClosed
    <2>2. r \notin D /\ ParentOf(u, r) \subseteq D
      BY <1>1, <1>2, <1>3, AncestorsClosed, TrackerAssumption DEF Reached, ParentOf, Linked
    <2>3. \A q \in Linked(u) \ {r} : ParentOf(u, q) \subseteq ParentOf(t, q)
      BY <1>1, <1>3, TrackerAssumption DEF ParentOf, Linked, SoundLinks, Attached
    <2>4. LoopFree(t) /\ Linked(u) \subseteq Linked(t) \cup {r}
      BY <1>3 DEF SoundLinks
    <2> HIDE DEF D, t, u
    <2> QED
      BY <2>1, <2>2, <2>3, <2>4, NewLinkNoLoop
  <1>5. Attached(u)
    BY <1>1, <1>2, <1>3 DEF Attached, SoundLinks, Linked
  <1> QED
    BY <1>4, <1>5 DEF StaySound

LEMMA EditSound ==
  ASSUME TypeOK, SoundLinks, NEW r \in Row, NEW p \in Row \cup {Null}, NEW f \in Factor,
         EditTransformer(r, p, f)
  PROVE  StaySound
  <1> DEFINE new == [transformer[r] EXCEPT !.parent = p, !.factor = f]
             u == [transformer EXCEPT ![r] = new]
             t == transformer
  <1>1. /\ t \in Links /\ r \in Linked(t) /\ transformer' = Notified(u, {r})
        /\ p \in Linked(t) \cup {Null} /\ ~LoopDetected(r, p)
    BY TypeOKIs DEF EditTransformer, Targets
  <1>2. new \in Transformer /\ new # Null /\ new.parent = p
    <2>1. transformer[r] \in Transformer
      BY <1>1, LinkedRow
    <2>2. new \in Transformer /\ new.parent = p
      BY <2>1 DEF Transformer
    <2> QED
      BY <2>2, NullIsNoRow
  <1> HIDE DEF new
  <1>3. /\ u \in Links /\ u[r] = new /\ \A q \in Row : q # r => u[q] = t[q]
        /\ Linked(u) = Linked(t)
    BY <1>1, <1>2 DEF Links, Linked
  <1> HIDE DEF u
  <1> DEFINE D == Reached(t, p)
  <1>4. LoopFree(u)
    <2>1. Closed(t, D)
      BY ReachedClosed
    <2>2. r \notin D
      BY <1>1 DEF Reached, LoopDetected
    <2>3. ParentOf(u, r) \subseteq D
      BY <1>2, <1>3, TrackerAssumption DEF Reached, ParentOf, Linked
    <2>4. \A q \in Linked(u) \ {r} : ParentOf(u, q) \subseteq ParentOf(t, q)
      BY <1>3 DEF ParentOf, Linked
    <2>5. LoopFree(t) /\ Linked(u) \subseteq Linked(t) \cup {r}
      BY <1>3 DEF SoundLinks
    <2> HIDE DEF D, t
    <2> QED
      BY <2>1, <2>2, <2>3, <2>4, <2>5, NewLinkNoLoop
  <1>5. Attached(u)
    BY <1>1, <1>2, <1>3 DEF Attached, SoundLinks, Linked
  <1>6. SameLinks(u, transformer')
    BY <1>1, <1>3, NotifiedRow
  <1> QED
    BY <1>4, <1>5, <1>6, SameLinksSound DEF StaySound

LEMMA MoveSound ==
  ASSUME TypeOK, SoundLinks, NEW r \in Row, NEW s \in Row, NEW p \in Row \cup {Null},
         MoveTransformer(r, s, p)
  PROVE  StaySound
  <1> DEFINE new == [transformer[r] EXCEPT !.parent = p]
             u == [transformer EXCEPT ![r] = Null, ![s] = new]
             t == transformer
  <1>1. /\ t \in Links /\ r \in Linked(t) /\ s \notin Linked(t) /\ s # r
        /\ transformer' = Notified(u, {s})
        /\ p \in Linked(t) \cup {Null}
    BY TypeOKIs DEF MoveTransformer, Targets
  <1>2. new \in Transformer /\ new # Null /\ new.parent = p
    <2>1. transformer[r] \in Transformer
      BY <1>1, LinkedRow
    <2>2. new \in Transformer /\ new.parent = p
      BY <2>1 DEF Transformer
    <2> QED
      BY <2>2, NullIsNoRow
  <1> HIDE DEF new
  <1>3. /\ u \in Links /\ u[s] = new /\ u[r] = Null
        /\ \A q \in Row : q # r /\ q # s => u[q] = t[q]
        /\ Linked(u) = (Linked(t) \ {r}) \cup {s}
    BY <1>1, <1>2 DEF Links, Linked
  <1> HIDE DEF u
  <1> DEFINE D == Reached(t, p)
  <1>4. LoopFree(u)
    <2>1. Closed(t, D)
      BY ReachedClosed
    <2>2. s \notin D
      BY <1>1, AncestorsClosed, TrackerAssumption DEF Reached
    <2>3. ParentOf(u, s) \subseteq D
      BY <1>2, <1>3, TrackerAssumption DEF Reached, ParentOf, Linked
    <2>4. \A q \in Linked(u) \ {s} : ParentOf(u, q) \subseteq ParentOf(t, q)
      BY <1>1, <1>3, TrackerAssumption DEF ParentOf, Linked, SoundLinks, Attached
    <2>5. LoopFree(t) /\ Linked(u) \subseteq Linked(t) \cup {s}
      BY <1>3 DEF SoundLinks
    <2> HIDE DEF D, t
    <2> QED
      BY <2>1, <2>2, <2>3, <2>4, <2>5, NewLinkNoLoop
  <1>5. SameLinks(u, transformer')
    BY <1>1, <1>3, NotifiedRow
  <1>6. Linked(transformer') = Linked(u)
    BY <1>5, SameLinksSame
  <1> QED
    BY <1>1, <1>3, <1>4, <1>5, <1>6, SameLinksSound DEF StaySound

LEMMA UnlinkSound ==
  ASSUME TypeOK, SoundLinks, NEW R \in SUBSET Row, transformer' = Unlinked(R)
  PROVE  StaySound
  <1> DEFINE t == transformer
             u == transformer'
  <1>1. /\ Linked(u) = Linked(t) \ R
        /\ \A q \in Linked(u) : u[q].parent = IF t[q].parent \in R THEN Null ELSE t[q].parent
    BY TypeOKIs, UnlinkedRows
  <1>2. \A q \in Linked(u) : ParentOf(u, q) \subseteq ParentOf(t, q)
    BY <1>1, TrackerAssumption DEF ParentOf, Linked
  <1>3. LoopFree(u)
    BY <1>1, <1>2, FewerLinksNoLoop DEF SoundLinks
  <1>4. Attached(u)
    BY <1>1 DEF SoundLinks, Attached
  <1> QED
    BY <1>3, <1>4 DEF StaySound

LEMMA RecountSound ==
  ASSUME TypeOK, SoundLinks, NEW y \in Resources, NEW R \in SUBSET Linked(transformer),
         transformer' = Recounted(transformer, y, R)
  PROVE  StaySound
  <1>1. SameLinks(transformer, transformer')
    BY TypeOKIs, RecountedLinks
  <1> QED
    BY <1>1, SameLinksSound DEF SoundLinks, StaySound

LEMMA StoredIsTyped ==
  ASSUME TypeOK, NEW i \in Resource, resource[i] # Null, NEW A \in SUBSET Attribute,
         NEW v \in [A -> Value]
  PROVE  [resource EXCEPT ![i].value = Overwritten(@, A, v)] \in Resources
  <1>1. \A a \in A : v[a] \in Value
    OBVIOUS
  <1>2. Overwrite(resource, i, A, v) \in Resources
    BY <1>1, TypeOKIs, OverwrittenRow
  <1> QED
    BY <1>2 DEF Overwrite, WithValue

LEMMA StepSound ==
  ASSUME TypeOK, TypeOK', SoundLinks, Next
  PROVE  StaySound
  <1>1. resource' \in Resources
    BY DEF TypeOK, Resources
  <1>2. CASE \E r \in Row, p \in Row \cup {Null}, f \in Factor : CreateTransformer(r, p, f)
    BY <1>2, CreateSound
  <1>3. CASE \E r \in Row, p \in Row \cup {Null}, f \in Factor : EditTransformer(r, p, f)
    BY <1>3, EditSound
  <1>4. CASE \E r, s \in Row, p \in Row \cup {Null} : MoveTransformer(r, s, p)
    BY <1>4, MoveSound
  <1>5. CASE \E r \in Row : DeleteTransformer(r)
    BY <1>5, UnlinkSound DEF DeleteTransformer
  <1>6. CASE \E g \in Group : DeleteGroup(g)
    BY <1>6, UnlinkSound DEF DeleteGroup
  <1>7. CASE \E a \in Attribute : DeleteAttribute(a)
    BY <1>7, UnlinkSound DEF DeleteAttribute
  <1>8. CASE \E i \in Resource, g \in Group : \E v \in [AttributesOf(g) -> Value] : CreateResource(i, g, v)
    BY <1>1, <1>8, RowsOfLinked, RecountSound DEF CreateResource
  <1>9. CASE \E i \in Resource, g \in Group : \E v \in [AttributesOf(g) -> Value] : EditResource(i, g, v)
    BY <1>1, <1>9, RowsOfLinked, RecountSound DEF EditResource
  <1>10. CASE \E i \in Resource, g \in Group : MoveResource(i, g)
    BY <1>10 DEF MoveResource, SoundLinks, StaySound
  <1>11. CASE \E i \in Resource, g \in Group, A \in SUBSET Attribute : \E v \in [A -> Value] :
                  UpdateResource(i, g, A, v)
    <2>1. PICK i \in Resource, g \in Group, A \in SUBSET Attribute :
                   \E v \in [A -> Value] : UpdateResource(i, g, A, v)
      BY <1>11
    <2>2. PICK v \in [A -> Value] : UpdateResource(i, g, A, v)
      BY <2>1
    <2> DEFINE stored == [resource EXCEPT ![i].value = Overwritten(@, A, v)]
               R == {r \in RowsOf(transformer, resource[i].group) : r[2] \in A}
    <2>3. resource[i] # Null /\ transformer' = Recounted(transformer, stored, R)
      BY <2>2 DEF UpdateResource
    <2>4. stored \in Resources
      BY <2>3, StoredIsTyped
    <2>5. R \in SUBSET Linked(transformer)
      BY RowsOfLinked
    <2> HIDE DEF stored, R
    <2> QED
      BY <2>3, <2>4, <2>5, RecountSound
  <1>12. CASE \E i \in Resource, g \in Group, A \in SUBSET Attribute, a \in Attribute :
                  \E v \in [A \cup {a} -> Value] : UpdateResourceFails(i, g, A, a, v)
    <2>1. PICK R \in SUBSET Linked(transformer) : transformer' = Recounted(transformer, resource', R)
      BY <1>12, RowsOfLinked DEF UpdateResourceFails
    <2> QED
      BY <1>1, <2>1, RecountSound
  <1>13. CASE \E i \in Resource : DeleteResource(i)
    BY <1>1, <1>13, RowsOfLinked, RecountSound DEF DeleteResource
  <1> QED
    BY <1>2, <1>3, <1>4, <1>5, <1>6, <1>7, <1>8, <1>9, <1>10, <1>11, <1>12, <1>13 DEF Next

(* Nothing comes to consume from itself, for every number of rows and chains of any length. *)
THEOREM LinksAreSound == Spec => LinksStaySound
  <1>1. TypeOK /\ TypeOK' /\ [Next]_vars
            => [NoDangling /\ NoLoop =>
                  /\ NoLoop'
                  /\ NoDangling' \/ \E r \in Linked(transformer), s \in Linked(transformer') :
                                        r \notin Linked(transformer') /\ s \notin Linked(transformer)]_vars
    BY StepSound DEF SoundLinks, StaySound, LoopFree, Attached, NoLoop, NoDangling
  <1> QED
    BY <1>1, TrackerTypeCorrect, PTL DEF Spec, LinksStaySound

=============================================================================
