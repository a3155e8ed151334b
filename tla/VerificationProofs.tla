-------------------------- MODULE VerificationProofs --------------------------
(***************************************************************************)
(* Resolving candidates, collecting their evidence, verifying the profiles *)
(* (Verification), for every set of candidates, answers, enterprises and   *)
(* fields and every number of turns, rounds, calls and deaths.             *)
(*                                                                         *)
(* IInv.  The table never holds a piece of evidence twice (SavedOnce), so  *)
(* the evidence that agrees on a value is of as many records: a profile    *)
(* that was built from it stays right while evidence is only added to,     *)
(* whichever node or process adds it (ProfilesKept).  That the records of  *)
(* the set's candidates reach the profiles is a matter of the links: a     *)
(* process reads one of the rows of a candidate, the turn's own unless a   *)
(* resolution died and left others (SetLinked).  Losing the right one      *)
(* takes a restart besides, and finding it again, after the evidence was   *)
(* collected without it, a third (ReachedOK, ShownOK).                     *)
(***************************************************************************)
EXTENDS Verification, FiniteSetTheorems, WellFoundedInduction, TLAPS

-----------------------------------------------------------------------------
(* Finite sets. *)

\* What a function gives for the members of a finite set is finite.
LEMMA ImageFinite ==
    ASSUME NEW S, IsFiniteSet(S), NEW f, DOMAIN f = S, f = [x \in S |-> f[x]]
    PROVE  IsFiniteSet({f[x] : x \in S})
<1> DEFINE T == {f[x] : x \in S}
<1>1. f \in Surjection(S, T)
    BY DEF Surjection
<1>2. QED
    BY <1>1, FS_Surjection

\* The union of finitely many finite sets is finite.
LEMMA UnionFinite ==
    ASSUME NEW S, IsFiniteSet(S), NEW f, f = [x \in S |-> f[x]], \A x \in S : IsFiniteSet(f[x])
    PROVE  IsFiniteSet(UNION {f[x] : x \in S})
<1>1. IsFiniteSet({f[x] : x \in S})
    BY ImageFinite
<1>2. QED
    BY <1>1, FS_UNION

\* A list has finitely many places.
LEMMA SequenceFinite ==
    ASSUME NEW X, NEW list \in Seq(X)
    PROVE  IsFiniteSet(DOMAIN list)
<1>1. DOMAIN list = 1..Len(list) /\ Len(list) \in Nat
    OBVIOUS
<1>2. QED
    BY <1>1, FS_Interval

-----------------------------------------------------------------------------
(* Evidence. *)

Record(v) == v = [enterprise |-> v.enterprise, field |-> v.field, value |-> v.value,
                  source |-> v.source, at |-> v.at]
Same(v, w) == v.enterprise = w.enterprise /\ v.field = w.field /\ v.value = w.value /\ v.source = w.source

\* Evidence that is saved: no two pieces are the same but for their time.
SavedOnce(all) ==
    /\ IsFiniteSet(all)
    /\ \A v \in all : Record(v)
    /\ \A v, w \in all : Same(v, w) => v = w
Unsaved(new) == IsFiniteSet(new) /\ \A v \in new : Record(v) /\ v.at = 0

\* Evidence with another time is the same evidence otherwise.
LEMMA AtLemma ==
    ASSUME NEW values, \A v \in values : Record(v), NEW now
    PROVE  /\ \A v \in values : \E w \in At(values, now) : Record(w) /\ w.at = now /\ Same(v, w)
           /\ \A w \in At(values, now) : Record(w) /\ w.at = now /\ \E v \in values : Same(v, w)
           /\ IsFiniteSet(values) => IsFiniteSet(At(values, now))
<1> DEFINE f == [v \in values |-> [v EXCEPT !.at = now]]
<1>1. \A v \in values : f[v] = [enterprise |-> v.enterprise, field |-> v.field, value |-> v.value,
                                source |-> v.source, at |-> now]
    BY DEF Record
<1>2. \A v \in values : Record(f[v]) /\ f[v].at = now /\ Same(v, f[v])
    BY <1>1 DEF Record, Same
<1>3. At(values, now) = {f[v] : v \in values}
    BY DEF At
<1>4. IsFiniteSet(values) => IsFiniteSet({f[v] : v \in values})
    <2>1. f = [v \in values |-> f[v]] /\ DOMAIN f = values
        OBVIOUS
    <2> HIDE DEF f
    <2>2. QED
        BY <2>1, ImageFinite
<1> HIDE DEF f
<1>5. QED
    BY <1>2, <1>3, <1>4

\* Saving evidence keeps what is there and stores no piece of it twice.
LEMMA SaveLemma ==
    ASSUME NEW all, SavedOnce(all), NEW new, Unsaved(new)
    PROVE  /\ SavedOnce(SaveEvidence(all, new))
           /\ all \subseteq SaveEvidence(all, new)
           /\ \A u \in new : \E v \in SaveEvidence(all, new) : Same(u, v)
<1> DEFINE now == Now(all)
           added == new \ At(all, 0)
           saved == SaveEvidence(all, new)
<1>1. saved = all \cup At(added, now)
    BY DEF SaveEvidence
<1>2. /\ \A v \in added : Record(v) /\ v.at = 0
      /\ IsFiniteSet(added)
    BY FS_Difference DEF Unsaved
<1> HIDE DEF now, added
<1>3. /\ \A v \in added : \E w \in At(added, now) : Record(w) /\ w.at = now /\ Same(v, w)
      /\ \A w \in At(added, now) : Record(w) /\ w.at = now /\ \E v \in added : Same(v, w)
      /\ IsFiniteSet(At(added, now))
    BY <1>2, AtLemma
<1>4. \A v \in all : \E w \in At(all, 0) : Record(w) /\ w.at = 0 /\ Same(v, w)
    BY AtLemma DEF SavedOnce
<1>5. \A w \in At(all, 0) : Record(w) /\ w.at = 0 /\ \E v \in all : Same(v, w)
    BY AtLemma DEF SavedOnce
<1>6. \A v, w : Record(v) /\ Record(w) /\ v.at = w.at /\ Same(v, w) => v = w
    BY DEF Record, Same
<1>7. \A u, v, w : Same(u, v) /\ Same(v, w) => Same(u, w) /\ Same(v, u)
    BY DEF Same
<1>8. ASSUME NEW v \in all, NEW w \in At(added, now), Same(v, w) PROVE FALSE
    <2>1. PICK u \in added : Same(u, w)
        BY <1>3
    <2>2. PICK o \in At(all, 0) : Record(o) /\ o.at = 0 /\ Same(v, o)
        BY <1>4
    <2>3. Same(u, o)
        BY <1>7, <1>8, <2>1, <2>2 DEF Same
    <2>4. u = o
        BY <1>2, <1>6, <2>2, <2>3
    <2>5. QED
        BY <2>4 DEF added
<1>9. ASSUME NEW v \in At(added, now), NEW w \in At(added, now), Same(v, w) PROVE v = w
    BY <1>3, <1>6, <1>9
<1>10. ASSUME NEW v \in saved, NEW w \in saved, Same(v, w) PROVE v = w
    <2>1. Same(w, v)
        BY <1>10 DEF Same
    <2>2. CASE v \in all /\ w \in all
        BY <1>10, <2>2 DEF SavedOnce
    <2>3. QED
        BY <1>1, <1>8, <1>9, <1>10, <2>1, <2>2
<1>11. IsFiniteSet(saved) /\ \A v \in saved : Record(v)
    <2>1. IsFiniteSet(all \cup At(added, now))
        BY <1>3, FS_Union DEF SavedOnce
    <2>2. QED
        BY <1>1, <1>3, <2>1 DEF SavedOnce
<1>12. ASSUME NEW u \in new PROVE \E v \in saved : Same(u, v)
    <2>1. CASE u \in added
        BY <1>1, <1>3, <2>1
    <2>2. CASE u \in At(all, 0)
        BY <1>1, <1>5, <2>2 DEF Same
    <2>3. QED
        BY <2>1, <2>2 DEF added
<1>13. QED
    BY <1>1, <1>10, <1>11, <1>12 DEF SavedOnce

-----------------------------------------------------------------------------
(* Numbers, functions and lists. *)

\* A set of numbers has a least member, and a bounded one a greatest: what
\* Min and Max choose.
LEMMA LeastNumber ==
    ASSUME NEW T \in SUBSET Nat, T # {}
    PROVE  \E n \in T : \A m \in T : n <= m
<1>1. PICK n \in T : \A m \in T : <<m, n>> \notin OpToRel(<, Nat)
    BY NatLessThanWellFounded, WFMin
<1>2. \A m \in T : m \in Nat /\ n \in Nat /\ ~(m < n)
    BY <1>1 DEF OpToRel
<1>3. QED
    BY <1>2

LEMMA GreatestNumber ==
    ASSUME NEW T \in SUBSET Nat, T # {}, NEW n \in Nat, \A m \in T : m <= n
    PROVE  \E x \in T : \A m \in T : x >= m
<1> DEFINE U == {k \in 0..n : n - k \in T}
<1>1. U \in SUBSET Nat
    OBVIOUS
<1>2. \A m \in T : n - m \in U /\ n - (n - m) = m
    OBVIOUS
<1>3. U # {}
    BY <1>2
<1>4. PICK k \in U : \A l \in U : k <= l
    <2> HIDE DEF U
    <2>1. QED
        BY <1>1, <1>3, LeastNumber
<1>5. \A m \in T : n - k >= m
    BY <1>2, <1>4
<1>6. QED
    BY <1>4, <1>5

LEMMA MaxLemma ==
    ASSUME NEW T \in SUBSET Nat, T # {}, NEW n \in Nat, \A m \in T : m <= n
    PROVE  Max(T) \in T /\ \A m \in T : Max(T) >= m
BY GreatestNumber DEF Max

LEMMA MinLemma ==
    ASSUME NEW S \in Nat, NEW T \in Nat
    PROVE  Min({S, T}) \in {S, T} /\ Min({S, T}) <= S /\ Min({S, T}) <= T
<1>1. \E x \in {S, T} : \A y \in {S, T} : x =< y
    OBVIOUS
<1>2. QED
    BY <1>1 DEF Min

\* Rows that are put into a dictionary replace those of their keys only.
LEMMA UpdatedLemma ==
    ASSUME NEW old, NEW new
    PROVE  /\ DOMAIN Updated(old, new) = DOMAIN new \cup DOMAIN old
           /\ \A k \in DOMAIN new : Updated(old, new)[k] = new[k]
           /\ \A k \in DOMAIN old \ DOMAIN new : Updated(old, new)[k] = old[k]
BY DEF Updated

\* The list of a finite set.
LEMMA ListLemma ==
    ASSUME NEW X, NEW S \in SUBSET X, IsFiniteSet(S)
    PROVE  SetToSeq(S) \in Seq(X)
<1>1. PICK n \in Nat : \E f \in [1..n -> S] : f \in Bijection(1..n, S)
    BY FS_NatBijection DEF ExistsBijection, Bijection, Injection
<1>2. PICK f \in [1..n -> S] : f \in Bijection(1..n, S)
    BY <1>1
<1>3. Cardinality(S) = n
    BY <1>2, FS_CountingElements, FS_CardinalityType DEF ExistsBijection
<1>4. \A a, b \in DOMAIN f : f[a] = f[b] => a = b
    BY <1>2 DEF Bijection, Injection, IsInjective
<1>5. SetToSeq(S) \in [1..n -> S]
    BY <1>3, <1>4 DEF SetToSeq, IsInjective
<1>6. QED
    BY <1>5

-----------------------------------------------------------------------------
(* The table of evidence. *)

\* When the evidence was saved: at numbers that do not grow for ever.
Dated(all) ==
    /\ \A v \in all : v.at \in Nat
    /\ \E n \in Nat : \A v \in all : v.at <= n

\* Evidence is of an enterprise that a run resolved, and of an answer that the
\* records of a candidate have.
Drawn(all) ==
    \A v \in all :
        /\ v.enterprise \in Enterprise
        /\ \E c \in Candidate : \E i \in DOMAIN sources[c] : v.source = <<c, i>>

\* A save is later than all evidence there is.
LEMMA NowLemma ==
    ASSUME NEW all, Dated(all)
    PROVE  Now(all) \in Nat /\ \A v \in all : v.at < Now(all)
<1> DEFINE T == {v.at : v \in all} \cup {0}
<1>1. T \in SUBSET Nat /\ T # {} /\ \A v \in all : v.at \in T
    BY DEF Dated
<1>2. PICK n \in Nat : \A m \in T : m <= n
    BY DEF Dated
<1> HIDE DEF T
<1>3. Max(T) \in T /\ \A m \in T : Max(T) >= m
    BY <1>1, <1>2, MaxLemma
<1>4. Now(all) = Max(T) + 1
    BY DEF Now, T
<1>5. Max(T) \in Nat
    BY <1>1, <1>3
<1>6. \A v \in all : v.at \in Nat /\ v.at <= Max(T)
    BY <1>1, <1>3
<1>7. QED
    BY <1>4, <1>5, <1>6

\* Whatever is saved was there or is one of the new.
LEMMA SavedFrom ==
    ASSUME NEW all, Dated(all), NEW new, Unsaved(new)
    PROVE  /\ Dated(SaveEvidence(all, new))
           /\ \A v \in SaveEvidence(all, new) : v \in all \/ \E u \in new : Same(u, v)
<1> DEFINE now == Now(all)
           added == new \ At(all, 0)
           saved == SaveEvidence(all, new)
<1>1. saved = all \cup At(added, now)
    BY DEF SaveEvidence
<1>2. \A v \in added : Record(v) /\ v \in new
    BY DEF Unsaved
<1>3. now \in Nat /\ \A v \in all : v.at < now
    BY NowLemma
<1> HIDE DEF now, added
<1>4. \A w \in At(added, now) : w.at = now /\ \E v \in added : Same(v, w)
    BY <1>2, AtLemma
<1>5. \A v \in saved : v.at \in Nat /\ v.at <= now
    BY <1>1, <1>3, <1>4 DEF Dated
<1>6. Dated(saved)
    BY <1>3, <1>5 DEF Dated
<1>7. QED
    BY <1>1, <1>2, <1>4, <1>6

\* Evidence drawn from records stays so when more of it is saved.
LEMMA SavedDrawn ==
    ASSUME NEW all, Dated(all), Drawn(all), NEW new, Unsaved(new), Drawn(new)
    PROVE  Drawn(SaveEvidence(all, new))
BY SavedFrom DEF Drawn, Same

\* A piece of evidence records what an answer says, of whom and by whom.
LEMMA EvidenceLemma ==
    ASSUME NEW e, NEW c, NEW i, NEW answer
    PROVE  /\ Record(Evidence(e, c, i, answer)) /\ Evidence(e, c, i, answer).at = 0
           /\ Evidence(e, c, i, answer).enterprise = e
           /\ Evidence(e, c, i, answer).source = <<c, i>>
           /\ Evidence(e, c, i, answer).field = Says[answer].field
           /\ Evidence(e, c, i, answer).value = Says[answer].value
BY DEF Evidence, Record

\* What the source records of candidates say is evidence of their enterprises.
LEMMA ExtractedLemma ==
    ASSUME NEW candidates \in SUBSET DOMAIN links, DOMAIN links \subseteq Candidate,
           \A c \in DOMAIN links : links[c].enterprise \in Enterprise,
           sources \in [Candidate -> Seq(Answer)]
    PROVE  /\ Unsaved(Extracted(candidates)) /\ Drawn(Extracted(candidates))
           /\ \A c \in candidates : \A i \in DOMAIN sources[c] :
                 Evidence(links[c].enterprise, c, i, sources[c][i]) \in Extracted(candidates)
<1> DEFINE said(c, i) == Evidence(links[c].enterprise, c, i, sources[c][i])
           f == [c \in candidates |-> {said(c, i) : i \in DOMAIN sources[c]}]
<1>1. Extracted(candidates) = UNION {f[c] : c \in candidates}
    BY DEF Extracted
<1>2. ASSUME NEW c \in candidates PROVE IsFiniteSet(f[c])
    <2> DEFINE g == [i \in DOMAIN sources[c] |-> said(c, i)]
    <2>1. sources[c] \in Seq(Answer)
        OBVIOUS
    <2>2. IsFiniteSet(DOMAIN sources[c])
        BY <2>1, SequenceFinite
    <2>3. f[c] = {g[i] : i \in DOMAIN sources[c]}
        OBVIOUS
    <2>4. g = [i \in DOMAIN sources[c] |-> g[i]] /\ DOMAIN g = DOMAIN sources[c]
        OBVIOUS
    <2> HIDE DEF g
    <2>5. IsFiniteSet({g[i] : i \in DOMAIN sources[c]})
        BY <2>2, <2>4, ImageFinite
    <2>6. QED
        BY <2>3, <2>5
<1>3. IsFiniteSet(candidates)
    <2>1. candidates \in SUBSET Candidate
        OBVIOUS
    <2>2. QED
        BY <2>1, FS_Subset, VerificationAssumption
<1>4. f = [c \in candidates |-> f[c]]
    OBVIOUS
<1>5. IsFiniteSet(UNION {f[c] : c \in candidates})
    <2> HIDE DEF f
    <2>1. QED
        BY <1>2, <1>3, <1>4, UnionFinite
<1>6. \A c \in candidates : \A i \in DOMAIN sources[c] :
          /\ Record(said(c, i)) /\ said(c, i).at = 0 /\ said(c, i).source = <<c, i>>
          /\ said(c, i).enterprise = links[c].enterprise
    BY EvidenceLemma
<1>7. \A v \in Extracted(candidates) : \E c \in candidates : \E i \in DOMAIN sources[c] : v = said(c, i)
    BY <1>1
<1>8. \A c \in candidates : \A i \in DOMAIN sources[c] : said(c, i) \in Extracted(candidates)
    BY <1>1
<1> HIDE DEF said, f
<1>9. Unsaved(Extracted(candidates))
    BY <1>1, <1>5, <1>6, <1>7 DEF Unsaved
<1>10. Drawn(Extracted(candidates))
    BY <1>6, <1>7 DEF Drawn
<1>11. QED
    BY <1>8, <1>9, <1>10 DEF said

\* A number of offices is evidence from a record of one of the offices.
LEMMA OfficeCountsLemma ==
    ASSUME NEW all, Dated(all), Drawn(all),
           NEW candidates \in SUBSET DOMAIN links, DOMAIN links \subseteq Candidate
    PROVE  Unsaved(OfficeCounts(all, candidates)) /\ Drawn(OfficeCounts(all, candidates))
<1> DEFINE first(e) == CHOOSE v \in Offices(all, e) : \A w \in Offices(all, e) : v.at <= w.at
           count(e) == [enterprise |-> e, field |-> "office_count", value |-> CountOf(Offices(all, e)),
                        source |-> first(e).source, at |-> 0]
           owners == {links[c].enterprise : c \in candidates}
           E == {d \in owners : Offices(all, d) # {}}
           f == [e \in E |-> count(e)]
<1>1. OfficeCounts(all, candidates) = {f[e] : e \in E}
    BY DEF OfficeCounts
<1>2. IsFiniteSet(E)
    <2> DEFINE g == [c \in candidates |-> links[c].enterprise]
    <2>1. candidates \in SUBSET Candidate
        OBVIOUS
    <2>2. IsFiniteSet(candidates)
        BY <2>1, FS_Subset, VerificationAssumption
    <2>3. owners = {g[c] : c \in candidates}
        OBVIOUS
    <2>4. g = [c \in candidates |-> g[c]] /\ DOMAIN g = candidates
        OBVIOUS
    <2> HIDE DEF g
    <2>5. IsFiniteSet({g[c] : c \in candidates})
        BY <2>2, <2>4, ImageFinite
    <2>6. IsFiniteSet(owners) /\ E \in SUBSET owners
        BY <2>3, <2>5
    <2>7. QED
        BY <2>6, FS_Subset
<1>3. ASSUME NEW e \in E
      PROVE  first(e) \in all /\ first(e).enterprise = e
    <2> DEFINE T == {v.at : v \in Offices(all, e)}
    <2>1. T \in SUBSET Nat /\ T # {}
        BY DEF Offices, Dated
    <2>2. PICK n \in T : \A m \in T : n <= m
        BY <2>1, LeastNumber
    <2>3. \E v \in Offices(all, e) : \A w \in Offices(all, e) : v.at <= w.at
        BY <2>2
    <2>4. first(e) \in Offices(all, e)
        BY <2>3
    <2>5. QED
        BY <2>4 DEF Offices
<1>4. f = [e \in E |-> f[e]] /\ DOMAIN f = E /\ \A e \in E : f[e] = count(e)
    OBVIOUS
<1>5. \A e \in E : Record(count(e)) /\ count(e).at = 0 /\ count(e).enterprise = e
                   /\ count(e).source = first(e).source
    BY DEF Record
<1> HIDE DEF f, E, count, first
<1>6. IsFiniteSet({f[e] : e \in E})
    BY <1>2, <1>4, ImageFinite
<1>7. Unsaved(OfficeCounts(all, candidates))
    BY <1>1, <1>4, <1>5, <1>6 DEF Unsaved
<1>8. Drawn(OfficeCounts(all, candidates))
    BY <1>1, <1>3, <1>4, <1>5 DEF Drawn
<1>9. QED
    BY <1>7, <1>8

EvidenceOK(all) == SavedOnce(all) /\ Dated(all) /\ Drawn(all)

\* Evidence is only added to, whatever collecting it or a call for more saves.
LEMMA SaveOK ==
    ASSUME NEW all, EvidenceOK(all), NEW new, Unsaved(new), Drawn(new)
    PROVE  /\ EvidenceOK(SaveEvidence(all, new))
           /\ all \subseteq SaveEvidence(all, new)
           /\ \A u \in new : \E v \in SaveEvidence(all, new) : Same(u, v)
BY SaveLemma, SavedFrom, SavedDrawn DEF EvidenceOK

\* Collecting leaves the table in order and puts all in it that the records of
\* the candidates say.
LEMMA CollectedLemma ==
    ASSUME EvidenceOK(evidence),
           NEW candidates \in SUBSET DOMAIN links, DOMAIN links \subseteq Candidate,
           \A c \in DOMAIN links : links[c].enterprise \in Enterprise,
           sources \in [Candidate -> Seq(Answer)]
    PROVE  /\ EvidenceOK(Collected(candidates))
           /\ evidence \subseteq Collected(candidates)
           /\ \A c \in candidates : \A i \in DOMAIN sources[c] :
                 \E v \in Collected(candidates) :
                    Same(Evidence(links[c].enterprise, c, i, sources[c][i]), v)
<1> DEFINE all == SaveEvidence(evidence, Extracted(candidates))
           counts == OfficeCounts(all, candidates)
<1>1. Collected(candidates) = SaveEvidence(all, counts)
    BY DEF Collected
<1>2. /\ Unsaved(Extracted(candidates)) /\ Drawn(Extracted(candidates))
      /\ \A c \in candidates : \A i \in DOMAIN sources[c] :
            Evidence(links[c].enterprise, c, i, sources[c][i]) \in Extracted(candidates)
    BY ExtractedLemma
<1>3. /\ EvidenceOK(all) /\ evidence \subseteq all
      /\ \A u \in Extracted(candidates) : \E v \in all : Same(u, v)
    BY <1>2, SaveOK
<1> HIDE DEF all
<1>4. Unsaved(counts) /\ Drawn(counts)
    BY <1>3, OfficeCountsLemma DEF EvidenceOK
<1> HIDE DEF counts
<1>5. /\ EvidenceOK(SaveEvidence(all, counts)) /\ all \subseteq SaveEvidence(all, counts)
    BY <1>3, <1>4, SaveOK
<1>6. QED
    BY <1>1, <1>2, <1>3, <1>5

-----------------------------------------------------------------------------
(* Agreement. *)

\* The records that say a value of a field of an enterprise.
Sources(e, f, value) == {v.source : v \in Group(Of(e, f), value)}

\* Evidence has finitely many values and sources.
LEMMA FiniteParts ==
    ASSUME NEW all, IsFiniteSet(all)
    PROVE  /\ IsFiniteSet(Values(all)) /\ Cardinality(Values(all)) \in Nat
           /\ IsFiniteSet({v.source : v \in all}) /\ Cardinality({v.source : v \in all}) \in Nat
<1> DEFINE g == [v \in all |-> v.value]
           h == [v \in all |-> v.source]
<1>1. /\ g = [v \in all |-> g[v]] /\ DOMAIN g = all /\ Values(all) = {g[v] : v \in all}
      /\ h = [v \in all |-> h[v]] /\ DOMAIN h = all /\ {v.source : v \in all} = {h[v] : v \in all}
    BY DEF Values
<1> HIDE DEF g, h
<1>2. IsFiniteSet({g[v] : v \in all}) /\ IsFiniteSet({h[v] : v \in all})
    BY <1>1, ImageFinite
<1>3. QED
    BY <1>1, <1>2, FS_CardinalityType

\* A field says what all the evidence of it says, and that it is in conflict when there
\* is more than one value.
LEMMA FieldLemma ==
    ASSUME SavedOnce(evidence), NEW e, NEW f
    PROVE  /\ Field(e, f).values = Values(Of(e, f))
           /\ Cardinality(Field(e, f).values) > 1 => Field(e, f).status = "CONFLICTING"
<1>1. Field(e, f).values = Values(Of(e, f)) /\ Field(e, f).status = Status(Of(e, f), f)
    BY DEF Field
<1>2. Of(e, f) = {} => Cardinality(Values(Of(e, f))) = 0
    <2>1. Of(e, f) = {} => Values(Of(e, f)) = {}
        BY DEF Values
    <2>2. QED
        BY <2>1, FS_EmptySet
<1>3. QED
    BY <1>1, <1>2 DEF Status

\* A field that resolve_fields calls VERIFIED has as many agreeing records as it needs.
LEMMA AgreementLemma ==
    ASSUME SavedOnce(evidence), NEW e, NEW f \in Required, Field(e, f).status = "VERIFIED"
    PROVE  Cardinality(Sources(e, f, Field(e, f).primary)) >= MinSources[f]
<1> DEFINE all == Of(e, f)
<1>1. /\ all # {} /\ ~(Cardinality(Values(all)) > 1) /\ Cardinality(all) >= MinSources[f]
      /\ Field(e, f).primary = Primary(all)
    BY DEF Field, Status
<1>2. all \in SUBSET evidence /\ \A v \in all : v.enterprise = e /\ v.field = f
    BY DEF Of
<1>3. IsFiniteSet(all)
    BY <1>2, FS_Subset DEF SavedOnce
<1> HIDE DEF all
<1>4. Values(all) # {}
    BY <1>1 DEF Values
<1>5. Cardinality(Values(all)) = 1
    <2>1. IsFiniteSet(Values(all)) /\ Cardinality(Values(all)) \in Nat
        BY <1>3, FiniteParts
    <2>2. Cardinality(Values(all)) # 0
        BY <1>4, <2>1, FS_EmptySet
    <2>3. QED
        BY <1>1, <2>1, <2>2
<1>6. PICK x : Values(all) = {x}
    BY <1>3, <1>5, FiniteParts, FS_Singleton
<1>7. Primary(all) = x
    <2> DEFINE rank(y) == [value |-> y, by |-> <<Confidence(Group(all, y)), Cardinality(Group(all, y)),
                                                -Min({v.at : v \in Group(all, y)})>>]
               ranks == {rank(y) : y \in Values(all)}
               better(g, h) == \E k \in 1..3 : g[k] > h[k] /\ \A l \in 1..(k - 1) : g[l] = h[l]
    <2>1. Primary(all) = (CHOOSE r \in ranks : \A s \in ranks \ {r} : ~better(s.by, r.by)).value
        BY DEF Primary
    <2>2. ranks = {rank(x)} /\ rank(x).value = x
        BY <1>6
    <2> HIDE DEF rank, better
    <2>3. \E r \in ranks : \A s \in ranks \ {r} : ~better(s.by, r.by)
        BY <2>2
    <2>4. (CHOOSE r \in ranks : \A s \in ranks \ {r} : ~better(s.by, r.by)) \in ranks
        BY <2>3
    <2>5. QED
        BY <2>1, <2>2, <2>4
<1>8. Group(all, x) = all
    BY <1>6 DEF Group, Values
<1>9. Cardinality({v.source : v \in all}) = Cardinality(all)
    <2> DEFINE h == [v \in all |-> v.source]
               T == {v.source : v \in all}
    <2>1. h \in Surjection(all, T)
        BY DEF Surjection
    <2>2. ASSUME NEW v \in all, NEW w \in all, v.source = w.source PROVE v = w
        <3>1. v.value = w.value
            BY <1>6 DEF Values
        <3>2. QED
            BY <1>2, <2>2, <3>1 DEF SavedOnce, Same
    <2>3. h \in Injection(all, T)
        BY <2>2 DEF Injection, IsInjective
    <2> HIDE DEF h
    <2>4. QED
        BY <1>3, <2>1, <2>3, FS_Surjection
<1>10. QED
    BY <1>1, <1>7, <1>8, <1>9 DEF Sources, all

\* The more evidence there is, the more records agree.
LEMMA AgreementGrows ==
    ASSUME evidence \subseteq evidence', SavedOnce(evidence)', NEW e, NEW f \in Required, NEW value,
           Cardinality(Sources(e, f, value)) >= MinSources[f]
    PROVE  Cardinality(Sources(e, f, value)') >= MinSources[f]
<1>1. Sources(e, f, value) \subseteq Sources(e, f, value)'
    BY DEF Sources, Group, Of
<1>2. Group(Of(e, f), value)' \in SUBSET evidence'
    BY DEF Group, Of
<1>3. IsFiniteSet(Group(Of(e, f), value)')
    BY <1>2, FS_Subset DEF SavedOnce
<1>4. IsFiniteSet(Sources(e, f, value)') /\ Cardinality(Sources(e, f, value)') \in Nat
    BY <1>3, FiniteParts DEF Sources
<1>5. Cardinality(Sources(e, f, value)) <= Cardinality(Sources(e, f, value)')
      /\ Cardinality(Sources(e, f, value)) \in Nat
    BY <1>1, <1>4, FS_Subset, FS_CardinalityType
<1>6. QED
    BY <1>4, <1>5, VerificationAssumption

-----------------------------------------------------------------------------
(* The inductive invariant. *)

States ==
    [node : Nodes, turn : 0..MaxTurns, criteria : 1..MaxVersion, set : SUBSET Candidate,
     resolution : 0..resolved, ids : SUBSET Enterprise, run : 0..Len(runs), round : 0..MaxRounds,
     unresolved : SUBSET Enterprise, profiles : SUBSET Enterprise, leads : SUBSET Enterprise]

Types ==
    /\ version \in 1..MaxVersion /\ resolved \in Nat /\ faults \in 0..MaxFaults
    /\ state \in States
    /\ work \in [left : SUBSET Enterprise, calls : 0..MaxCalls]
    /\ runs \in Seq(1..resolved)
    /\ sources \in [Candidate -> Seq(Answer)]
    /\ \A c \in Candidate : IsPrefix(Found[c], sources[c])

\* The candidates of the turn have been resolved.
Resolved == state.node \notin {"resolve_entities", "end"}

\* What a node may rely on.
GraphOK ==
    /\ Resolved => state.resolution # 0
    /\ Resolved /\ state.node # "collect_evidence" => state.run # 0
    /\ state.node = "targeted_verification" =>
          state.round < MaxRounds /\ state.unresolved \subseteq state.ids
    /\ state.node # "targeted_verification" => work.left = {}
    /\ work.left \subseteq state.ids
    /\ DOMAIN profiles \subseteq Enterprise /\ state.profiles \subseteq DOMAIN profiles
    /\ state.node = "score_leads" => state.ids \subseteq DOMAIN profiles

\* A run links a candidate once; what is read is one of the rows of the candidate.
TableOK ==
    /\ linkRows \subseteq [candidate : Candidate, link : [enterprise : Enterprise, run : 1..resolved]]
    /\ \A r, s \in linkRows : r.candidate = s.candidate /\ r.link.run = s.link.run => r = s
RowsOK ==
    /\ TableOK
    /\ DOMAIN links = {row.candidate : row \in linkRows}
    /\ \A c \in DOMAIN links : [candidate |-> c, link |-> links[c]] \in linkRows

\* Before the first verification run there are rows only of a resolution that died.
FirstRun ==
    state.run = 0 =>
        /\ state.node = "end" => linkRows = {}
        /\ state.node = "resolve_entities" /\ linkRows # {} => faults >= 1

\* The verification run, if it is chosen yet, is of the turn's resolution.
Owns == Resolved /\ (state.run = 0 \/ runs[state.run] = state.resolution)
LinkedNow(c) == links[c].run = state.resolution

\* The turn's resolution linked every candidate of the set to an enterprise of the
\* turn.  To read another link takes a resolution that died and a restart since.
SetLinked ==
    Resolved =>
        /\ \A row \in linkRows : row.link.run = state.resolution => row.link.enterprise \in state.ids
        /\ \A c \in state.set : \E row \in linkRows :
              row.candidate = c /\ row.link.run = state.resolution
        /\ Owns => /\ \A row \in linkRows : row.link.run # state.resolution => faults >= 1
                   /\ \A c \in state.set : ~LinkedNow(c) => faults >= 2

\* All that the records of a candidate say is evidence of its enterprise, or in the
\* enterprise's profile.
Reached(c) ==
    \A i \in DOMAIN sources[c] :
        \E v \in evidence : Same(Evidence(links[c].enterprise, c, i, sources[c][i]), v)
Shown(c) ==
    \A i \in DOMAIN sources[c] :
        LET said == Says[sources[c][i]]
        IN  said.field \in Required =>
                said.value \in profiles[links[c].enterprise][said.field].values

\* A link that was lost when evidence was collected is back only after a third restart.
ReachedOK ==
    Owns /\ state.run # 0 => \A c \in state.set : LinkedNow(c) => Reached(c) \/ faults >= 3
ShownOK ==
    Owns /\ state.node = "score_leads" =>
        \A c \in state.set : LinkedNow(c) => Shown(c) \/ faults >= 3

\* A profile owns up to its conflicts.
ConflictsOK ==
    \A e \in DOMAIN profiles, f \in Required :
        Cardinality(profiles[e][f].values) > 1 => profiles[e][f].status = "CONFLICTING"

ProfilesOK == ConflictsOK /\ VerifiedNeedsAgreement

IInv ==
    /\ Types /\ GraphOK /\ RowsOK /\ FirstRun /\ EvidenceOK(evidence)
    /\ SetLinked /\ ReachedOK /\ ShownOK /\ ProfilesOK

-----------------------------------------------------------------------------
(* What the steps have in common. *)

LEMMA InitLemma == Init => IInv
<1> SUFFICES ASSUME Init PROVE IInv
    OBVIOUS
<1> USE VerificationAssumption DEF Init
<1>1. \A c \in Candidate : Found[c] \in Seq(Answer) /\ IsPrefix(Found[c], Found[c])
    BY DEF IsPrefix
<1>2. Types
    BY <1>1 DEF Types, States, Nodes, Idle
<1>3. GraphOK
    BY DEF GraphOK, Resolved, Idle
<1>4. RowsOK
    BY DEF RowsOK, TableOK
<1>5. FirstRun /\ SetLinked /\ ReachedOK /\ ShownOK
    BY DEF FirstRun, SetLinked, ReachedOK, ShownOK, Owns, Resolved
<1>6. EvidenceOK(evidence)
    BY FS_EmptySet DEF EvidenceOK, SavedOnce, Dated, Drawn
<1>7. ProfilesOK
    BY DEF ProfilesOK, ConflictsOK, VerifiedNeedsAgreement
<1>8. QED
    BY <1>2, <1>3, <1>4, <1>5, <1>6, <1>7 DEF IInv

\* A step that neither resolves nor asks keeps the types.
LEMMA TypesKept ==
    ASSUME Types, UNCHANGED <<resolved, runs, sources>>, state' \in States,
           version' \in 1..MaxVersion, faults' \in 0..MaxFaults,
           work' \in [left : SUBSET Enterprise, calls : 0..MaxCalls]
    PROVE  Types'
<1>1. Enterprise' = Enterprise
    BY DEF Enterprise
<1>2. States' = States
    BY <1>1 DEF States
<1>3. QED
    BY <1>1, <1>2 DEF Types

LEMMA EnterprisesGrow ==
    ASSUME resolved \in Nat, resolved' \in Nat, resolved <= resolved'
    PROVE  Enterprise \subseteq Enterprise'
BY DEF Enterprise

\* The rows of the last turn and the evidence stay what they were.
LEMMA RowsKept ==
    ASSUME RowsOK, UNCHANGED <<resolved, links, linkRows>>
    PROVE  RowsOK'
BY DEF RowsOK, TableOK, Enterprise

LEMMA EvidenceKept ==
    ASSUME EvidenceOK(evidence), UNCHANGED evidence,
           resolved \in Nat, resolved' \in Nat, resolved <= resolved',
           \A c \in Candidate : DOMAIN sources[c] \subseteq DOMAIN sources'[c]
    PROVE  EvidenceOK(evidence)'
<1>1. Enterprise \subseteq Enterprise'
    BY EnterprisesGrow
<1>2. Drawn(evidence)'
    BY <1>1 DEF EvidenceOK, Drawn
<1>3. SavedOnce(evidence)' /\ Dated(evidence)'
    BY DEF EvidenceOK, SavedOnce, Dated, Record, Same
<1>4. QED
    BY <1>2, <1>3 DEF EvidenceOK

\* A profile that is kept stays right while evidence is only added to.
LEMMA ProfilesKept ==
    ASSUME ProfilesOK, UNCHANGED profiles, evidence \subseteq evidence', EvidenceOK(evidence)'
    PROVE  ProfilesOK'
<1>1. ConflictsOK'
    BY DEF ProfilesOK, ConflictsOK
<1>2. ASSUME NEW e \in DOMAIN profiles, NEW f \in Required, profiles[e][f].status = "VERIFIED"
      PROVE  Cardinality(Sources(e, f, profiles[e][f].primary)') >= MinSources[f]
    <2>1. Cardinality(Sources(e, f, profiles[e][f].primary)) >= MinSources[f]
        BY <1>2 DEF ProfilesOK, VerifiedNeedsAgreement, Sources
    <2>2. PICK value : value = profiles[e][f].primary
        OBVIOUS
    <2>3. Cardinality(Sources(e, f, value)') >= MinSources[f]
        BY <2>1, <2>2, AgreementGrows DEF EvidenceOK
    <2>4. QED
        BY <2>2, <2>3 DEF Sources
<1>3. VerifiedNeedsAgreement'
    BY <1>2 DEF VerifiedNeedsAgreement, Sources
<1>4. QED
    BY <1>1, <1>3 DEF ProfilesOK

\* The tables that a step leaves alone.
LEMMA TablesKept ==
    ASSUME IInv, UNCHANGED <<resolved, links, linkRows, sources, evidence, profiles>>
    PROVE  RowsOK' /\ EvidenceOK(evidence)' /\ ProfilesOK'
<1>1. RowsOK' /\ EvidenceOK(evidence)'
    BY RowsKept, EvidenceKept DEF IInv, Types
<1>2. ProfilesOK'
    BY <1>1, ProfilesKept DEF IInv
<1>3. QED
    BY <1>1, <1>2

-----------------------------------------------------------------------------
(* The steps that leave the tables alone. *)

LEMMA NewTurnLemma == IInv /\ NewTurn => IInv'
<1> SUFFICES ASSUME IInv, NewTurn PROVE IInv'
    OBVIOUS
<1>1. PICK set \in Sets :
          state' = [Goto("resolve_entities") EXCEPT !.turn = @ + 1, !.set = set, !.criteria = version]
    BY DEF NewTurn
<1>2. /\ state.node = "end" /\ state.turn < MaxTurns
      /\ UNCHANGED <<version, work, resolved, links, linkRows, runs, sources, evidence, profiles, faults>>
    BY DEF NewTurn
<1>3. RowsOK' /\ EvidenceOK(evidence)' /\ ProfilesOK'
    BY <1>2, TablesKept
<1>4. Types /\ GraphOK /\ FirstRun
    BY DEF IInv
<1>5. state' = [state EXCEPT !.node = "resolve_entities", !.turn = state.turn + 1, !.set = set,
                             !.criteria = version]
    BY <1>1 DEF Goto
<1>6. Types'
    <2>1. set \in SUBSET Candidate /\ MaxTurns \in Nat
        BY VerificationAssumption
    <2> DEFINE s == [state EXCEPT !.node = "resolve_entities", !.turn = state.turn + 1]
    <2>2. s \in States
        <3>1. state.turn + 1 \in 0..MaxTurns /\ state \in States
            BY <1>2, <1>4, <2>1 DEF Types, States
        <3>2. QED
            BY <3>1 DEF States, Nodes
    <2>3. state' = [s EXCEPT !.set = set, !.criteria = version]
        BY <1>5
    <2> HIDE DEF s
    <2>4. state' \in States
        BY <1>4, <2>1, <2>2, <2>3 DEF Types, States
    <2>5. QED
        BY <1>2, <1>4, <2>4, TypesKept DEF Types
<1>7. GraphOK'
    BY <1>2, <1>4, <1>5 DEF Types, States, GraphOK, Resolved, Enterprise
<1>8. FirstRun'
    BY <1>2, <1>4, <1>5 DEF Types, States, FirstRun
<1>9. SetLinked' /\ ReachedOK' /\ ShownOK'
    BY <1>4, <1>5 DEF Types, States, SetLinked, ReachedOK, ShownOK, Owns, Resolved
<1>10. QED
    BY <1>3, <1>6, <1>7, <1>8, <1>9 DEF IInv

\* The next node of the same turn and run finds the rows and the evidence as they were.
LEMMA MoveLemma ==
    ASSUME IInv, Resolved, Resolved', state'.node # "score_leads",
           UNCHANGED <<resolved, links, linkRows, runs, sources, evidence, profiles, faults>>,
           state'.run = state.run, state.run # 0, state'.resolution = state.resolution,
           state'.set = state.set, state'.ids = state.ids
    PROVE  /\ RowsOK' /\ EvidenceOK(evidence)' /\ ProfilesOK'
           /\ FirstRun' /\ SetLinked' /\ ReachedOK' /\ ShownOK'
<1>1. RowsOK' /\ EvidenceOK(evidence)' /\ ProfilesOK'
    BY TablesKept
<1>2. SetLinked /\ ReachedOK
    BY DEF IInv
<1>3. Owns' <=> Owns
    BY DEF Owns
<1>4. \A c : (LinkedNow(c) <=> LinkedNow(c)') /\ (Reached(c) <=> Reached(c)')
    BY DEF LinkedNow, Reached, Same, Evidence
<1>5. SetLinked'
    BY <1>2, <1>3, <1>4 DEF SetLinked
<1>6. ReachedOK'
    BY <1>2, <1>3, <1>4 DEF ReachedOK
<1>7. FirstRun' /\ ShownOK'
    BY DEF FirstRun, ShownOK
<1>8. QED
    BY <1>1, <1>5, <1>6, <1>7

LEMMA ResolveFieldsLemma == IInv /\ ResolveFields => IInv'
<1> SUFFICES ASSUME IInv, ResolveFields PROVE IInv'
    OBVIOUS
<1> DEFINE unresolved == {e \in state.ids : Lacking(e) # {}}
<1>1. /\ state.node = "resolve_fields"
      /\ UNCHANGED <<version, resolved, links, linkRows, runs, sources, evidence, profiles, faults>>
      /\ \/ /\ MoreEvidence(unresolved) /\ work' = [left |-> unresolved, calls |-> 0]
            /\ state' = [state EXCEPT !.node = "targeted_verification", !.unresolved = unresolved]
         \/ /\ state' = [state EXCEPT !.node = "build_verified_profiles", !.unresolved = unresolved]
            /\ work' = Idle
    BY DEF ResolveFields, Goto
<1>2. unresolved \subseteq state.ids
    OBVIOUS
<1> HIDE DEF unresolved
<1>3. Types /\ GraphOK
    BY DEF IInv
<1>4. Types'
    <2>1. state' \in States
        BY <1>1, <1>2, <1>3, ZenonT(60) DEF Types, States, Nodes
    <2>2. work' \in [left : SUBSET Enterprise, calls : 0..MaxCalls]
        <3>1. unresolved \in SUBSET Enterprise
            BY <1>2, <1>3 DEF Types, States
        <3>2. QED
            BY <1>1, <3>1, VerificationAssumption DEF Idle
    <2>3. QED
        BY <1>1, <1>3, <2>1, <2>2, TypesKept DEF Types
<1>5. GraphOK'
    <2>1. state'.node = "targeted_verification" => state'.round < MaxRounds
        BY <1>1, <1>3 DEF Types, States, MoreEvidence
    <2>2. state'.ids = state.ids /\ (state'.node # "targeted_verification" => work' = Idle)
        BY <1>1, <1>3 DEF Types, States
    <2>3. /\ work'.left \subseteq state'.ids
          /\ state'.node # "targeted_verification" => work'.left = {}
        <3>1. work' = [left |-> unresolved, calls |-> 0] \/ work' = [left |-> {}, calls |-> 0]
            BY <1>1 DEF Idle
        <3>2. work'.left \subseteq unresolved
            BY <3>1
        <3>3. QED
            BY <1>2, <2>2, <3>2 DEF Idle
    <2>4. QED
        BY <1>1, <1>2, <1>3, <2>1, <2>2, <2>3 DEF Types, States, GraphOK, Resolved, Enterprise
<1>6. /\ Resolved /\ Resolved' /\ state'.node # "score_leads" /\ state.run # 0
      /\ state'.run = state.run /\ state'.resolution = state.resolution
      /\ state'.set = state.set /\ state'.ids = state.ids
    BY <1>1, <1>3 DEF Types, States, GraphOK, Resolved
<1>7. QED
    BY <1>1, <1>4, <1>5, <1>6, MoveLemma DEF IInv

LEMMA NextRoundLemma == IInv /\ (Superseded \/ EndRound) => IInv'
<1> SUFFICES ASSUME IInv, Superseded \/ EndRound PROVE IInv'
    OBVIOUS
<1>1. /\ state.node = "targeted_verification" /\ work' = Idle
      /\ state' = [state EXCEPT !.node = "collect_evidence", !.round = state.round + 1, !.unresolved = {}]
      /\ UNCHANGED <<version, resolved, links, linkRows, runs, sources, evidence, profiles, faults>>
    BY DEF Superseded, EndRound, NextRound, Goto
<1>2. Types /\ GraphOK
    BY DEF IInv
<1>3. Types'
    <2> DEFINE s == [state EXCEPT !.node = "collect_evidence", !.unresolved = {}]
    <2>1. state' \in States
        <3>1. s \in States
            BY <1>2 DEF Types, States, Nodes
        <3>2. state' = [s EXCEPT !.round = state.round + 1] /\ s.round = state.round
            BY <1>1, <1>2 DEF Types, States
        <3>3. state.round \in 0..MaxRounds /\ state.round < MaxRounds /\ MaxRounds \in Nat
            BY <1>1, <1>2, VerificationAssumption, SMTT(40) DEF Types, States, GraphOK
        <3> HIDE DEF s
        <3>4. QED
            BY <3>1, <3>2, <3>3 DEF States
    <2>2. work' \in [left : SUBSET Enterprise, calls : 0..MaxCalls]
        BY <1>1, VerificationAssumption DEF Idle
    <2>3. QED
        BY <1>1, <1>2, <2>1, <2>2, TypesKept DEF Types
<1>4. GraphOK'
    BY <1>1, <1>2 DEF Types, States, GraphOK, Resolved, Enterprise, Idle
<1>5. /\ Resolved /\ Resolved' /\ state'.node # "score_leads" /\ state.run # 0
      /\ state'.run = state.run /\ state'.resolution = state.resolution
      /\ state'.set = state.set /\ state'.ids = state.ids
    BY <1>1, <1>2 DEF Types, States, GraphOK, Resolved
<1>6. QED
    BY <1>1, <1>3, <1>4, <1>5, MoveLemma DEF IInv

LEMMA ScoreLeadsLemma == IInv /\ ScoreLeads => IInv'
<1> SUFFICES ASSUME IInv, ScoreLeads PROVE IInv'
    OBVIOUS
<1>1. PICK leads : /\ leads \subseteq state.profiles
                   /\ state' = [state EXCEPT !.node = "end", !.leads = leads]
    BY DEF ScoreLeads, Goto
<1>2. /\ state.node = "score_leads"
      /\ UNCHANGED <<version, work, resolved, links, linkRows, runs, sources, evidence, profiles, faults>>
    BY DEF ScoreLeads
<1>3. RowsOK' /\ EvidenceOK(evidence)' /\ ProfilesOK'
    BY <1>2, TablesKept
<1>4. Types /\ GraphOK
    BY DEF IInv
<1>5. Types'
    <2>1. state' \in States
        BY <1>1, <1>2, <1>4 DEF Types, States, Nodes
    <2>2. QED
        BY <1>2, <1>4, <2>1, TypesKept DEF Types
<1>6. GraphOK'
    BY <1>1, <1>2, <1>4 DEF Types, States, GraphOK, Resolved, Enterprise
<1>7. FirstRun' /\ SetLinked' /\ ReachedOK' /\ ShownOK'
    BY <1>1, <1>2, <1>4 DEF Types, States, GraphOK, FirstRun, SetLinked, ReachedOK, ShownOK, Owns, Resolved
<1>8. QED
    BY <1>3, <1>5, <1>6, <1>7 DEF IInv

\* What is said of the links and the records is a matter of these variables.
LEMMA TurnKept ==
    ASSUME IInv, UNCHANGED <<state, links, linkRows, runs, sources, evidence, profiles, faults>>
    PROVE  SetLinked' /\ ReachedOK' /\ ShownOK'
<1>1. Owns' <=> Owns
    BY DEF Owns, Resolved
<1>2. \A c : /\ LinkedNow(c) <=> LinkedNow(c)'
             /\ Reached(c) <=> Reached(c)'
             /\ Shown(c) <=> Shown(c)'
    BY DEF LinkedNow, Reached, Shown, Same, Evidence
<1>3. SetLinked'
    BY <1>1, <1>2 DEF IInv, SetLinked, Resolved
<1>4. ReachedOK' /\ ShownOK'
    BY <1>1, <1>2 DEF IInv, ReachedOK, ShownOK
<1>5. QED
    BY <1>3, <1>4

LEMMA MutateLemma == IInv /\ Mutate => IInv'
<1> SUFFICES ASSUME IInv, Mutate PROVE IInv'
    OBVIOUS
<1>1. /\ version' = version + 1 /\ version < MaxVersion
      /\ UNCHANGED <<state, work, resolved, links, linkRows, runs, sources, evidence, profiles, faults>>
    BY DEF Mutate
<1>2. RowsOK' /\ EvidenceOK(evidence)' /\ ProfilesOK'
    BY <1>1, TablesKept
<1>3. Types'
    BY <1>1, TypesKept, VerificationAssumption DEF IInv, Types
<1>4. GraphOK' /\ FirstRun'
    BY <1>1 DEF IInv, GraphOK, FirstRun, Resolved, Enterprise
<1>5. SetLinked' /\ ReachedOK' /\ ShownOK'
    BY <1>1, TurnKept
<1>6. QED
    BY <1>2, <1>3, <1>4, <1>5 DEF IInv

LEMMA QuietLemma == IInv /\ UNCHANGED vars => IInv'
<1> SUFFICES ASSUME IInv, UNCHANGED vars PROVE IInv'
    OBVIOUS
<1>1. UNCHANGED <<version, state, work, resolved, links, linkRows, runs, sources, evidence, profiles, faults>>
    BY DEF vars
<1>2. RowsOK' /\ EvidenceOK(evidence)' /\ ProfilesOK'
    BY <1>1, TablesKept
<1>3. Types' /\ GraphOK' /\ FirstRun'
    BY <1>1 DEF IInv, Types, States, GraphOK, FirstRun, Resolved, Enterprise
<1>4. SetLinked' /\ ReachedOK' /\ ShownOK'
    BY <1>1, TurnKept
<1>5. QED
    BY <1>2, <1>3, <1>4 DEF IInv

-----------------------------------------------------------------------------
(* Resolving. *)

LinksOf(n) == [enterprise : [run : {n}, of : SUBSET Candidate], run : {n}]

\* A run links the candidates of its clusters, each to one of them.
LEMMA LinksLemma ==
    ASSUME NEW set \in SUBSET Candidate, NEW clusters \in SUBSET Clusters[set], NEW n,
           NEW new, new = Links(clusters, n)
    PROVE  /\ DOMAIN new \subseteq set
           /\ clusters = Clusters[set] => DOMAIN new = set
           /\ \A c \in DOMAIN new : new[c] \in LinksOf(n)
<1> DEFINE root == Roots(set)
           class(c) == {d \in set : root[d] = root[c]}
           clusterOf(c) == CHOOSE k \in clusters : c \in k
<1>1. Clusters[set] = {class(c) : c \in set}
    BY DEF Clusters
<1> HIDE DEF root
<1>2. \A k \in clusters : k \in SUBSET set
    BY <1>1
<1>3. \A c \in set : c \in class(c) /\ class(c) \in Clusters[set]
    BY <1>1
<1>4. UNION clusters \subseteq set /\ (clusters = Clusters[set] => UNION clusters = set)
    BY <1>2, <1>3
<1>5. new = [c \in UNION clusters |-> [enterprise |-> [run |-> n, of |-> clusterOf(c)], run |-> n]]
    BY DEF Links
<1>6. ASSUME NEW c \in UNION clusters PROVE clusterOf(c) \in SUBSET Candidate
    <2>1. \E k \in clusters : c \in k
        OBVIOUS
    <2>2. clusterOf(c) \in clusters
        BY <2>1
    <2>3. QED
        BY <1>2, <2>2
<1> HIDE DEF clusterOf
<1>7. QED
    BY <1>4, <1>5, <1>6 DEF LinksOf

\* The rows of a new run, all of its clusters or some, are the only ones of the run.
LEMMA RowsAdded ==
    ASSUME resolved \in Nat, TableOK, resolved' = resolved + 1,
           NEW set \in SUBSET Candidate, NEW clusters \in SUBSET Clusters[set],
           NEW new, new = Links(clusters, resolved + 1), linkRows' = linkRows \cup Rows(new)
    PROVE  /\ TableOK'
           /\ \A row \in linkRows' : row.link.run = resolved + 1 => row \in Rows(new)
           /\ \A row \in Rows(new) : /\ row.candidate \in DOMAIN new
                                     /\ row.link = new[row.candidate]
                                     /\ row.link.run = resolved + 1
           /\ \A c \in DOMAIN new : [candidate |-> c, link |-> new[c]] \in Rows(new)
<1> DEFINE Row == [candidate : Candidate, link : [enterprise : Enterprise, run : 1..resolved]]
<1>0. PICK n : n = resolved + 1 /\ new = Links(clusters, n)
    OBVIOUS
<1>1. DOMAIN new \subseteq set
    BY <1>0, LinksLemma
<1>2. \A c \in DOMAIN new : new[c] \in LinksOf(n)
    BY <1>0, LinksLemma
<1>3. \A row \in Rows(new) : \E c \in DOMAIN new : row = [candidate |-> c, link |-> new[c]]
    BY DEF Rows
<1>4. \A c \in DOMAIN new : [candidate |-> c, link |-> new[c]] \in Rows(new)
    BY DEF Rows
<1>5. \A row \in Rows(new) : row.candidate \in DOMAIN new /\ row.link = new[row.candidate]
                             /\ row = [candidate |-> row.candidate, link |-> row.link]
    BY <1>3
<1>6. \A c \in DOMAIN new : new[c].run = resolved + 1
    <2>1. \A c \in DOMAIN new : new[c].run = n
        BY <1>2 DEF LinksOf
    <2>2. QED
        BY <1>0, <2>1
<1>7. \A c \in DOMAIN new : new[c] \in [enterprise : Enterprise', run : 1..resolved']
    <2>1. n \in 1..resolved'
        BY <1>0
    <2>2. [run : {n}, of : SUBSET Candidate] \subseteq Enterprise'
        BY <2>1 DEF Enterprise
    <2>3. QED
        BY <1>2, <2>1, <2>2 DEF LinksOf
<1>8. \A row \in linkRows : row.link.run \in 1..resolved
    BY DEF TableOK
<1>9. \A row \in linkRows' : row.link.run = resolved + 1 => row \in Rows(new)
    BY <1>8
<1>10. linkRows' \subseteq [candidate : Candidate, link : [enterprise : Enterprise', run : 1..resolved']]
    <2>1. Enterprise \subseteq Enterprise'
        BY EnterprisesGrow
    <2>2. ASSUME NEW row \in linkRows
          PROVE  row \in [candidate : Candidate, link : [enterprise : Enterprise', run : 1..resolved']]
        <3>1. row \in Row
            BY DEF TableOK
        <3>2. QED
            BY <2>1, <3>1
    <2>3. ASSUME NEW row \in Rows(new)
          PROVE  row \in [candidate : Candidate, link : [enterprise : Enterprise', run : 1..resolved']]
        BY <1>1, <1>5, <1>7
    <2>4. QED
        BY <2>2, <2>3
<1>11. ASSUME NEW r \in linkRows', NEW s \in linkRows', r.candidate = s.candidate, r.link.run = s.link.run
       PROVE  r = s
    <2>1. CASE r \in Rows(new)
        BY <1>5, <1>6, <1>8, <1>11, <2>1
    <2>2. CASE r \in linkRows
        BY <1>5, <1>6, <1>8, <1>11, <2>2 DEF TableOK
    <2>3. QED
        BY <2>1, <2>2
<1>12. TableOK'
    BY <1>10, <1>11 DEF TableOK
<1>13. QED
    BY <1>4, <1>5, <1>6, <1>9, <1>12

\* More runs have more enterprises: the lists and states of before are still states.
LEMMA RunsGrow ==
    ASSUME resolved \in Nat, resolved' \in Nat, resolved <= resolved', NEW all \in Seq(1..resolved)
    PROVE  all \in Seq(1..resolved')
<1>1. all \in [1..Len(all) -> 1..resolved] /\ Len(all) \in Nat
    OBVIOUS
<1>2. 1..resolved \subseteq 1..resolved'
    OBVIOUS
<1>3. all \in [1..Len(all) -> 1..resolved']
    BY <1>1, <1>2
<1>4. QED
    BY <1>1, <1>3

LEMMA StatesGrow ==
    ASSUME resolved \in Nat, resolved' \in Nat, resolved <= resolved',
           Len(runs) \in Nat, Len(runs)' \in Nat, Len(runs) <= Len(runs)', NEW s \in States
    PROVE  s \in States'
<1>1. SUBSET Enterprise \subseteq SUBSET Enterprise'
    BY EnterprisesGrow
<1>2. 0..resolved \subseteq 0..resolved' /\ 0..Len(runs) \subseteq 0..Len(runs)'
    OBVIOUS
<1>3. QED
    BY <1>1, <1>2 DEF States

LEMMA ResolveEntitiesLemma == IInv /\ ResolveEntities => IInv'
<1> SUFFICES ASSUME IInv, ResolveEntities PROVE IInv'
    OBVIOUS
<1>1. PICK new : /\ new = Links(Clusters[state.set], resolved + 1)
                 /\ links' = Updated(links, new)
                 /\ linkRows' = linkRows \cup Rows(new)
    BY DEF ResolveEntities
<1>2. /\ state.node = "resolve_entities" /\ resolved' = resolved + 1
      /\ state' = [state EXCEPT !.node = "collect_evidence", !.resolution = resolved + 1,
                                !.ids = ListForTask(links')]
      /\ UNCHANGED <<version, work, runs, sources, evidence, profiles, faults>>
    BY DEF ResolveEntities, Goto
<1>3. Types /\ GraphOK /\ RowsOK /\ FirstRun
    BY DEF IInv
<1>4. resolved \in Nat /\ state \in States /\ state.set \in SUBSET Candidate
    BY <1>3 DEF Types, States
<1>5. DOMAIN new = state.set /\ \A c \in DOMAIN new : new[c] \in LinksOf(resolved + 1)
    <2>1. PICK n : n = resolved + 1
        OBVIOUS
    <2>2. new = Links(Clusters[state.set], n)
        BY <1>1, <2>1
    <2>3. QED
        BY <1>4, <2>1, <2>2, LinksLemma
<1>6. /\ TableOK'
      /\ \A row \in linkRows' : row.link.run = resolved + 1 => row \in Rows(new)
      /\ \A row \in Rows(new) : /\ row.candidate \in DOMAIN new
                                /\ row.link = new[row.candidate]
                                /\ row.link.run = resolved + 1
      /\ \A c \in DOMAIN new : [candidate |-> c, link |-> new[c]] \in Rows(new)
    BY <1>1, <1>2, <1>3, <1>4, RowsAdded DEF RowsOK
<1>7. /\ DOMAIN links' = DOMAIN new \cup DOMAIN links
      /\ \A c \in DOMAIN new : links'[c] = new[c]
      /\ \A c \in DOMAIN links \ DOMAIN new : links'[c] = links[c]
    BY <1>1 DEF Updated
<1>8. RowsOK'
    <2>1. DOMAIN links = {row.candidate : row \in linkRows}
        BY <1>3 DEF RowsOK
    <2>2. {row.candidate : row \in Rows(new)} = DOMAIN new
        <3>1. \A row \in Rows(new) : row.candidate \in DOMAIN new
            BY <1>6
        <3>2. ASSUME NEW c \in DOMAIN new
              PROVE  \E row \in Rows(new) : row.candidate = c
            <4>1. [candidate |-> c, link |-> new[c]] \in Rows(new)
                BY <1>6
            <4>2. QED
                BY <4>1
        <3>3. QED
            BY <3>1, <3>2
    <2>3. {row.candidate : row \in linkRows'}
              = {row.candidate : row \in linkRows} \cup {row.candidate : row \in Rows(new)}
        BY <1>1
    <2>4. DOMAIN links' = {row.candidate : row \in linkRows'}
        BY <1>7, <2>1, <2>2, <2>3
    <2>5. \A c \in DOMAIN links' : [candidate |-> c, link |-> links'[c]] \in linkRows'
        BY <1>1, <1>3, <1>6, <1>7 DEF RowsOK
    <2>6. QED
        BY <1>6, <2>4, <2>5 DEF RowsOK
<1>9. \A c \in DOMAIN links' : links'[c].enterprise \in Enterprise'
    <2>1. \A row \in linkRows' : row.link.enterprise \in Enterprise'
        BY <1>6 DEF TableOK
    <2>2. QED
        BY <1>8, <2>1 DEF RowsOK
<1>10. ListForTask(links') \subseteq Enterprise'
    BY <1>9 DEF ListForTask
<1>11. Types'
    <2>1. runs \in Seq(1..resolved')
        BY <1>2, <1>3, <1>4, RunsGrow DEF Types
    <2>2. state \in States'
        BY <1>2, <1>3, <1>4, StatesGrow DEF Types
    <2> DEFINE s == [state EXCEPT !.node = "collect_evidence", !.resolution = resolved + 1]
    <2>3. state' \in States'
        <3>1. resolved + 1 \in 0..resolved'
            BY <1>2, <1>4
        <3>2. s \in States'
            BY <2>2, <3>1 DEF States, Nodes
        <3>3. state' = [s EXCEPT !.ids = ListForTask(links')]
            BY <1>2
        <3> HIDE DEF s
        <3>4. QED
            BY <1>10, <3>2, <3>3 DEF States
    <2>4. Enterprise \subseteq Enterprise'
        BY <1>2, <1>4, EnterprisesGrow
    <2>5. work' \in [left : SUBSET Enterprise', calls : 0..MaxCalls]
        BY <1>2, <1>3, <2>4 DEF Types
    <2>6. QED
        BY <1>2, <1>3, <1>4, <2>1, <2>3, <2>5 DEF Types
<1>12. GraphOK'
    <2>1. work.left = {}
        BY <1>2, <1>3 DEF GraphOK
    <2>2. DOMAIN profiles \subseteq Enterprise'
        BY <1>2, <1>3, <1>4, EnterprisesGrow DEF GraphOK
    <2>3. /\ state'.node = "collect_evidence" /\ state'.resolution = resolved + 1
          /\ state'.profiles = state.profiles
        BY <1>2, <1>4 DEF States
    <2>4. QED
        BY <1>2, <1>3, <1>4, <2>1, <2>2, <2>3 DEF GraphOK, Resolved
<1>13. EvidenceOK(evidence)' /\ ProfilesOK'
    BY <1>2, <1>3, <1>4, EvidenceKept, ProfilesKept DEF IInv
<1>14. /\ state'.node = "collect_evidence" /\ state'.resolution = resolved + 1
       /\ state'.ids = ListForTask(links') /\ state'.set = state.set /\ state'.run = state.run
    BY <1>2, <1>4 DEF States
<1>15. FirstRun'
    BY <1>14 DEF FirstRun
<1>16. Owns' => state.run = 0
    <2>1. CASE state.run # 0
        <3>1. runs[state.run] \in 1..resolved
            BY <1>3, <2>1 DEF Types, States
        <3>2. QED
            BY <1>2, <1>4, <1>14, <2>1, <3>1 DEF Owns
    <2>2. QED
        BY <2>1
<1>17. SetLinked'
    <2>1. ASSUME NEW row \in linkRows', row.link.run = resolved + 1
          PROVE  row.link.enterprise \in ListForTask(links')
        BY <1>6, <1>7, <2>1 DEF ListForTask
    <2>2. ASSUME NEW c \in state.set
          PROVE  /\ \E row \in linkRows' : row.candidate = c /\ row.link.run = resolved + 1
                 /\ links'[c].run = resolved + 1
        <3>1. [candidate |-> c, link |-> new[c]] \in Rows(new)
            BY <1>5, <1>6
        <3>2. new[c].run = resolved + 1
            BY <1>6, <3>1
        <3>3. QED
            BY <1>1, <1>5, <1>7, <3>1, <3>2
    <2>3. ASSUME Owns', NEW row \in linkRows', row.link.run # resolved + 1
          PROVE  faults' >= 1
        <3>1. row \in linkRows
            BY <1>1, <1>6, <2>3
        <3>2. QED
            BY <1>2, <1>3, <1>16, <2>3, <3>1 DEF FirstRun
    <2>4. QED
        BY <1>14, <2>1, <2>2, <2>3 DEF SetLinked, LinkedNow
<1>18. ReachedOK' /\ ShownOK'
    BY <1>14, <1>16 DEF ReachedOK, ShownOK
<1>19. QED
    BY <1>8, <1>11, <1>12, <1>13, <1>15, <1>17, <1>18 DEF IInv

-----------------------------------------------------------------------------
(* Collecting, asking for more, and the profiles. *)

\* Links are of candidates, to enterprises of the runs so far.
LEMMA LinksTyped ==
    ASSUME RowsOK
    PROVE  /\ DOMAIN links \subseteq Candidate
           /\ \A c \in DOMAIN links : links[c].enterprise \in Enterprise
<1>1. \A row \in linkRows : row.candidate \in Candidate /\ row.link.enterprise \in Enterprise
    BY DEF RowsOK, TableOK
<1>2. \A c \in DOMAIN links : [candidate |-> c, link |-> links[c]].link = links[c]
    OBVIOUS
<1>3. QED
    BY <1>1, <1>2 DEF RowsOK

\* The verification run that is taken, when there is none, or taken again.
TakenRuns == IF state.run = 0 THEN Append(runs, state.resolution) ELSE runs
Taken == IF state.run = 0 THEN Len(TakenRuns) ELSE state.run

LEMMA TakenLemma ==
    ASSUME Types, GraphOK, Resolved
    PROVE  /\ TakenRuns \in Seq(1..resolved) /\ Len(runs) <= Len(TakenRuns)
           /\ Taken \in 1..Len(TakenRuns)
           /\ state.run # 0 => TakenRuns = runs /\ Taken = state.run
           /\ state.run = 0 => TakenRuns[Taken] = state.resolution
           /\ \A r \in 1..Len(runs) : TakenRuns[r] = runs[r]
           /\ Len(runs) \in Nat /\ Len(TakenRuns) \in Nat
<1>1. state.resolution \in 1..resolved /\ state.run \in 0..Len(runs) /\ runs \in Seq(1..resolved)
    BY DEF Types, States, GraphOK
<1>2. CASE state.run = 0
    <2>1. TakenRuns = Append(runs, state.resolution) /\ Taken = Len(TakenRuns)
        BY <1>2 DEF TakenRuns, Taken
    <2>2. /\ TakenRuns \in Seq(1..resolved) /\ Len(TakenRuns) = Len(runs) + 1
          /\ TakenRuns[Len(runs) + 1] = state.resolution
          /\ \A r \in 1..Len(runs) : TakenRuns[r] = runs[r]
        BY <1>1, <2>1
    <2>3. QED
        BY <1>1, <1>2, <2>1, <2>2
<1>3. CASE state.run # 0
    BY <1>1, <1>3 DEF TakenRuns, Taken
<1>4. QED
    BY <1>2, <1>3

LEMMA CollectEvidenceLemma == IInv /\ CollectEvidence => IInv'
<1> SUFFICES ASSUME IInv, CollectEvidence PROVE IInv'
    OBVIOUS
<1> DEFINE linked == LinkedCandidates(TakenRuns[Taken])
<1>1. /\ state.node = "collect_evidence" /\ runs' = TakenRuns /\ evidence' = Collected(linked)
      /\ state' = [state EXCEPT !.node = "resolve_fields", !.run = Taken]
      /\ UNCHANGED <<version, work, resolved, links, linkRows, sources, profiles, faults>>
    BY DEF CollectEvidence, TakenRuns, Taken, Goto
<1>2. Types /\ GraphOK /\ RowsOK /\ EvidenceOK(evidence) /\ SetLinked
    BY DEF IInv
<1>3. Resolved /\ state \in States /\ resolved \in Nat /\ sources \in [Candidate -> Seq(Answer)]
    BY <1>1, <1>2 DEF Types, Resolved
<1>4. /\ TakenRuns \in Seq(1..resolved) /\ Len(runs) <= Len(TakenRuns)
      /\ Taken \in 1..Len(TakenRuns)
      /\ state.run # 0 => TakenRuns = runs /\ Taken = state.run
      /\ state.run = 0 => TakenRuns[Taken] = state.resolution
      /\ Len(runs) \in Nat /\ Len(TakenRuns) \in Nat
    BY <1>2, <1>3, TakenLemma
<1>5. linked \in SUBSET DOMAIN links
    BY DEF LinkedCandidates
<1>6. /\ EvidenceOK(Collected(linked)) /\ evidence \subseteq Collected(linked)
      /\ \A c \in linked : \A i \in DOMAIN sources[c] : \E v \in Collected(linked) :
            Same(Evidence(links[c].enterprise, c, i, sources[c][i]), v)
    <2> HIDE DEF linked
    <2>1. QED
        BY <1>2, <1>3, <1>5, LinksTyped, CollectedLemma
<1>7. EvidenceOK(evidence)'
    BY <1>1, <1>6 DEF EvidenceOK, SavedOnce, Dated, Drawn, Record, Same, Enterprise
<1>8. RowsOK' /\ ProfilesOK'
    BY <1>1, <1>2, <1>6, <1>7, RowsKept, ProfilesKept DEF IInv
<1>9. /\ state'.node = "resolve_fields" /\ state'.run = Taken /\ state'.resolution = state.resolution
      /\ state'.ids = state.ids /\ state'.set = state.set /\ state'.profiles = state.profiles
    BY <1>1, <1>3 DEF States
<1>10. Types'
    <2>1. state \in States'
        BY <1>1, <1>3, <1>4, StatesGrow
    <2>2. state' \in States'
        <3>1. Taken \in 0..Len(runs)'
            BY <1>1, <1>4
        <3>2. QED
            BY <1>1, <2>1, <3>1 DEF States, Nodes
    <2>3. QED
        BY <1>1, <1>2, <1>4, <2>2 DEF Types, Enterprise
<1>11. GraphOK' /\ FirstRun' /\ ShownOK'
    BY <1>1, <1>2, <1>3, <1>4, <1>9 DEF GraphOK, FirstRun, ShownOK, Resolved, Enterprise
<1>12. Owns' => Owns /\ TakenRuns[Taken] = state.resolution
    BY <1>1, <1>3, <1>4, <1>9 DEF Owns, Resolved
<1>13. SetLinked'
    BY <1>1, <1>2, <1>3, <1>9, <1>12 DEF SetLinked, LinkedNow, Resolved
<1>14. ReachedOK'
    <2>1. ASSUME Owns', NEW c \in state.set, links[c].run = state.resolution
          PROVE  Reached(c)'
        <3>1. c \in DOMAIN links
            BY <1>2, <1>3 DEF SetLinked, RowsOK
        <3>2. c \in linked
            BY <1>12, <2>1, <3>1 DEF LinkedCandidates
        <3>3. QED
            BY <1>1, <1>6, <3>2 DEF Reached, Same, Evidence
    <2>2. QED
        BY <1>1, <1>9, <2>1 DEF ReachedOK, LinkedNow
<1>15. QED
    BY <1>7, <1>8, <1>10, <1>11, <1>13, <1>14 DEF IInv

LEMMA BuildLemma == IInv /\ BuildVerifiedProfiles => IInv'
<1> SUFFICES ASSUME IInv, BuildVerifiedProfiles PROVE IInv'
    OBVIOUS
<1>1. /\ state.node = "build_verified_profiles"
      /\ state' = [state EXCEPT !.node = "score_leads", !.profiles = state.ids]
      /\ UNCHANGED <<version, work, resolved, links, linkRows, runs, sources, evidence, faults>>
    BY DEF BuildVerifiedProfiles, Goto
<1>2. Types /\ GraphOK /\ RowsOK /\ EvidenceOK(evidence) /\ SetLinked /\ ReachedOK /\ ProfilesOK
    BY DEF IInv
<1>3. Resolved /\ state \in States /\ resolved \in Nat
    BY <1>1, <1>2 DEF Types, Resolved
<1>4. /\ DOMAIN profiles' = state.ids \cup DOMAIN profiles
      /\ \A e \in state.ids : profiles'[e] = Fields(e)
      /\ \A e \in DOMAIN profiles \ state.ids : profiles'[e] = profiles[e]
    BY DEF BuildVerifiedProfiles, Updated
<1>5. RowsOK' /\ EvidenceOK(evidence)'
    BY <1>1, <1>2, <1>3, RowsKept, EvidenceKept
<1>6. /\ state'.node = "score_leads" /\ state'.run = state.run /\ state'.resolution = state.resolution
      /\ state'.ids = state.ids /\ state'.set = state.set /\ state'.profiles = state.ids
    BY <1>1, <1>3 DEF States
<1>7. Types'
    <2>1. state' \in States
        BY <1>1, <1>3 DEF States, Nodes
    <2>2. QED
        BY <1>1, <1>2, <2>1, TypesKept DEF Types
<1>8. GraphOK'
    <2>1. state.ids \subseteq Enterprise
        BY <1>3 DEF States
    <2>2. DOMAIN profiles' \subseteq Enterprise'
        BY <1>1, <1>2, <1>4, <2>1 DEF GraphOK, Enterprise
    <2>3. QED
        BY <1>1, <1>2, <1>3, <1>4, <1>6, <2>2 DEF GraphOK, Resolved
<1>9. FirstRun'
    BY <1>6 DEF FirstRun
<1>10. \A e, f : Of(e, f)' = Of(e, f)
    BY <1>1 DEF Of
<1>11. \A e \in state.ids, f \in Required : profiles'[e][f] = Field(e, f)
    BY <1>4 DEF Fields
<1>12. ProfilesOK'
    <2>1. SavedOnce(evidence)
        BY <1>2 DEF EvidenceOK
    <2>2. ASSUME NEW e \in DOMAIN profiles', NEW f \in Required
          PROVE  Cardinality(profiles'[e][f].values) > 1 => profiles'[e][f].status = "CONFLICTING"
        <3>1. CASE e \in state.ids
            BY <1>11, <2>1, <3>1, FieldLemma
        <3>2. CASE e \notin state.ids
            BY <1>2, <1>4, <3>2 DEF ProfilesOK, ConflictsOK
        <3>3. QED
            BY <3>1, <3>2
    <2>3. ASSUME NEW e \in DOMAIN profiles', NEW f \in Required, profiles'[e][f].status = "VERIFIED"
          PROVE  Cardinality(Sources(e, f, profiles'[e][f].primary)) >= MinSources[f]
        <3>1. CASE e \in state.ids
            BY <1>11, <2>1, <2>3, <3>1, AgreementLemma
        <3>2. CASE e \notin state.ids
            BY <1>2, <1>4, <2>3, <3>2 DEF ProfilesOK, VerifiedNeedsAgreement, Sources
        <3>3. QED
            BY <3>1, <3>2
    <2>4. VerifiedNeedsAgreement'
        BY <1>10, <2>3 DEF VerifiedNeedsAgreement, Sources
    <2>5. QED
        BY <2>2, <2>4 DEF ProfilesOK, ConflictsOK
<1>13. (Owns' <=> Owns) /\ \A c : LinkedNow(c)' <=> LinkedNow(c)
    BY <1>1, <1>3, <1>6 DEF Owns, Resolved, LinkedNow
<1>14. \A c : Reached(c)' <=> Reached(c)
    BY <1>1 DEF Reached, Same, Evidence
<1>15. SetLinked' /\ ReachedOK'
    BY <1>1, <1>2, <1>3, <1>6, <1>13, <1>14 DEF SetLinked, ReachedOK, Resolved
<1>16. ShownOK'
    <2>1. ASSUME Owns, NEW c \in state.set, LinkedNow(c), Reached(c)
          PROVE  Shown(c)'
        <3>1. c \in DOMAIN links /\ [candidate |-> c, link |-> links[c]] \in linkRows
            BY <1>2, <1>3 DEF SetLinked, RowsOK
        <3>2. links[c].enterprise \in state.ids
            BY <1>2, <1>3, <2>1, <3>1 DEF SetLinked, LinkedNow
        <3>3. ASSUME NEW i \in DOMAIN sources[c], Says[sources[c][i]].field \in Required
              PROVE  Says[sources[c][i]].value
                         \in profiles'[links[c].enterprise][Says[sources[c][i]].field].values
            <4>1. PICK v \in evidence : Same(Evidence(links[c].enterprise, c, i, sources[c][i]), v)
                BY <2>1 DEF Reached
            <4>2. /\ v.enterprise = links[c].enterprise /\ v.field = Says[sources[c][i]].field
                  /\ v.value = Says[sources[c][i]].value
                BY <4>1, EvidenceLemma DEF Same
            <4>3. v.value \in Values(Of(v.enterprise, v.field))
                BY DEF Of, Values
            <4>4. Field(v.enterprise, v.field).values = Values(Of(v.enterprise, v.field))
                BY DEF Field
            <4>5. profiles'[v.enterprise][v.field] = Field(v.enterprise, v.field)
                BY <1>11, <3>2, <3>3, <4>2
            <4>6. QED
                BY <4>2, <4>3, <4>4, <4>5
        <3>4. QED
            BY <1>1, <3>3 DEF Shown
    <2>2. state.run # 0
        BY <1>1, <1>2, <1>3 DEF GraphOK
    <2>3. QED
        BY <1>1, <1>2, <1>6, <1>13, <2>1, <2>2 DEF ShownOK, ReachedOK
<1>17. QED
    BY <1>5, <1>7, <1>8, <1>9, <1>12, <1>15, <1>16 DEF IInv

\* What a list starts with it starts with when it is longer.
LEMMA PrefixGrows ==
    ASSUME NEW X, NEW s \in Seq(X), NEW t \in Seq(X), NEW more \in Seq(X), IsPrefix(s, t)
    PROVE  IsPrefix(s, t \o more)
<1>1. Len(s) \in Nat /\ Len(s) <= Len(t) /\ Len(t \o more) = Len(t) + Len(more)
    BY DEF IsPrefix
<1>2. SubSeq(t \o more, 1, Len(s)) = SubSeq(t, 1, Len(s))
    BY <1>1
<1>3. QED
    BY <1>1, <1>2 DEF IsPrefix

\* Answers to more calls, appended to the records of a candidate, are evidence of the
\* enterprise they were asked for.
LEMMA AnswersLemma ==
    ASSUME EvidenceOK(evidence), resolved \in Nat, UNCHANGED resolved,
           sources \in [Candidate -> Seq(Answer)], NEW c \in Candidate, NEW e \in Enterprise,
           NEW list \in Seq(Answer), sources' = [sources EXCEPT ![c] = @ \o list],
           evidence' = SaveEvidence(evidence,
               {Evidence(e, c, Len(sources[c]) + k, list[k]) : k \in DOMAIN list})
    PROVE  /\ EvidenceOK(evidence)' /\ evidence \subseteq evidence'
           /\ \A i \in DOMAIN sources'[c] : \/ i \in DOMAIN sources[c] /\ sources'[c][i] = sources[c][i]
                                            \/ \E v \in evidence' : Same(Evidence(e, c, i, sources'[c][i]), v)
           /\ sources'[c] = sources[c] \o list
           /\ \A d \in Candidate : DOMAIN sources[d] \subseteq DOMAIN sources'[d]
           /\ \A d \in Candidate \ {c} : sources'[d] = sources[d]
<1> DEFINE n == Len(sources[c])
           new == {Evidence(e, c, n + k, list[k]) : k \in DOMAIN list}
           g == [k \in DOMAIN list |-> Evidence(e, c, n + k, list[k])]
<1>1. /\ sources[c] \in Seq(Answer) /\ n \in Nat /\ sources'[c] = sources[c] \o list
      /\ \A d \in Candidate \ {c} : sources'[d] = sources[d]
    OBVIOUS
<1>2. /\ DOMAIN sources'[c] = 1..(n + Len(list)) /\ DOMAIN sources[c] = 1..n
      /\ DOMAIN list = 1..Len(list) /\ Len(list) \in Nat
      /\ \A i \in 1..n : sources'[c][i] = sources[c][i]
      /\ \A k \in 1..Len(list) : sources'[c][n + k] = list[k]
    BY <1>1
<1>3. \A d \in Candidate : DOMAIN sources[d] \subseteq DOMAIN sources'[d]
    BY <1>1, <1>2
<1>4. \A k \in DOMAIN list : /\ Record(g[k]) /\ g[k].at = 0 /\ g[k].enterprise = e
                             /\ g[k].source = <<c, n + k>>
    BY EvidenceLemma
<1>5. new = {g[k] : k \in DOMAIN list}
    OBVIOUS
<1>6. Unsaved(new)
    <2>1. g = [k \in DOMAIN list |-> g[k]] /\ DOMAIN g = DOMAIN list
        OBVIOUS
    <2>2. IsFiniteSet(DOMAIN list)
        BY SequenceFinite
    <2> HIDE DEF g, new
    <2>3. IsFiniteSet({g[k] : k \in DOMAIN list})
        BY <2>1, <2>2, ImageFinite
    <2>4. QED
        BY <1>4, <1>5, <2>3 DEF Unsaved
<1>7. /\ SavedOnce(evidence') /\ evidence \subseteq evidence'
      /\ \A u \in new : \E v \in evidence' : Same(u, v)
      /\ Dated(evidence')
      /\ \A v \in evidence' : v \in evidence \/ \E u \in new : Same(u, v)
    <2>1. evidence' = SaveEvidence(evidence, new)
        OBVIOUS
    <2>2. SavedOnce(evidence) /\ Dated(evidence)
        BY DEF EvidenceOK
    <2> HIDE DEF new
    <2>3. /\ SavedOnce(SaveEvidence(evidence, new)) /\ evidence \subseteq SaveEvidence(evidence, new)
          /\ \A u \in new : \E v \in SaveEvidence(evidence, new) : Same(u, v)
        BY <1>6, <2>2, SaveLemma
    <2>4. /\ Dated(SaveEvidence(evidence, new))
          /\ \A v \in SaveEvidence(evidence, new) : v \in evidence \/ \E u \in new : Same(u, v)
        BY <1>6, <2>2, SavedFrom
    <2>5. QED
        BY <2>1, <2>3, <2>4
<1>8. Drawn(evidence)'
    <2>1. Enterprise' = Enterprise
        BY DEF Enterprise
    <2>2. ASSUME NEW v \in evidence
          PROVE  /\ v.enterprise \in Enterprise
                 /\ \E d \in Candidate : \E i \in DOMAIN sources'[d] : v.source = <<d, i>>
        BY <1>3 DEF EvidenceOK, Drawn
    <2>3. ASSUME NEW v \in evidence', NEW k \in DOMAIN list, Same(g[k], v)
          PROVE  /\ v.enterprise \in Enterprise
                 /\ \E d \in Candidate : \E i \in DOMAIN sources'[d] : v.source = <<d, i>>
        <3>1. v.enterprise = e /\ v.source = <<c, n + k>>
            BY <1>4, <2>3 DEF Same
        <3>2. n + k \in DOMAIN sources'[c]
            BY <1>1, <1>2
        <3>3. QED
            BY <3>1, <3>2
    <2> HIDE DEF g
    <2>4. QED
        BY <1>5, <1>7, <2>1, <2>2, <2>3, ZenonT(60) DEF Drawn
<1>9. EvidenceOK(evidence)'
    BY <1>7, <1>8 DEF EvidenceOK, SavedOnce, Dated, Record, Same
<1>10. ASSUME NEW i \in DOMAIN sources'[c]
       PROVE  \/ i \in DOMAIN sources[c] /\ sources'[c][i] = sources[c][i]
              \/ \E v \in evidence' : Same(Evidence(e, c, i, sources'[c][i]), v)
    <2>1. CASE i \in 1..n
        BY <1>2, <2>1
    <2>2. CASE i \notin 1..n
        <3>1. i - n \in 1..Len(list) /\ n + (i - n) = i
            BY <1>1, <1>2, <2>2
        <3>2. Evidence(e, c, i, sources'[c][i]) = g[i - n]
            BY <1>2, <3>1
        <3>3. g[i - n] \in new
            BY <1>2, <3>1
        <3>4. QED
            BY <1>7, <3>2, <3>3
    <2>3. QED
        BY <2>1, <2>2
<1>11. QED
    BY <1>1, <1>3, <1>7, <1>9, <1>10

LEMMA EnrichLemma == ASSUME IInv, NEW e \in work.left, Enrich(e) PROVE IInv'
<1>1. PICK lacking, linked :
          /\ lacking = Lacking(e) /\ linked = {c \in DOMAIN links : links[c].enterprise = e}
          /\ LET calls == work.calls + Min({Cardinality(lacking), MaxCallsPerEntity})
                 affordable == lacking # {} /\ calls <= MaxCalls
                 c == CHOOSE d \in linked : TRUE
             IN
             /\ work' = [left |-> work.left \ {e}, calls |-> IF affordable THEN calls ELSE work.calls]
             /\ IF affordable /\ linked # {}
                THEN \E got \in SUBSET {a \in Extra[c] : Says[a].asked \in lacking} :
                     \E list \in {SetToSeq(got)} :
                        /\ sources' = [sources EXCEPT ![c] = @ \o list]
                        /\ evidence' = SaveEvidence(evidence,
                              {Evidence(e, c, Len(sources[c]) + k, list[k]) : k \in DOMAIN list})
                ELSE UNCHANGED <<sources, evidence>>
    BY DEF Enrich
<1> DEFINE calls == work.calls + Min({Cardinality(lacking), MaxCallsPerEntity})
           affordable == lacking # {} /\ calls <= MaxCalls
           c == CHOOSE d \in linked : TRUE
<1>2. /\ state.node = "targeted_verification"
      /\ work' = [left |-> work.left \ {e}, calls |-> IF affordable THEN calls ELSE work.calls]
      /\ UNCHANGED <<version, state, resolved, links, linkRows, runs, profiles, faults>>
    BY <1>1 DEF Enrich
<1>3. \/ UNCHANGED <<sources, evidence>>
       \/ /\ linked # {}
          /\ \E got \in SUBSET Extra[c] : \E list \in {SetToSeq(got)} :
                /\ sources' = [sources EXCEPT ![c] = @ \o list]
                /\ evidence' = SaveEvidence(evidence,
                      {Evidence(e, c, Len(sources[c]) + k, list[k]) : k \in DOMAIN list})
    <2>1. CASE affordable /\ linked # {}
        <3>1. PICK got \in SUBSET {a \in Extra[c] : Says[a].asked \in lacking} :
                 \E list \in {SetToSeq(got)} :
                  /\ sources' = [sources EXCEPT ![c] = @ \o list]
                  /\ evidence' = SaveEvidence(evidence,
                        {Evidence(e, c, Len(sources[c]) + k, list[k]) : k \in DOMAIN list})
            BY <1>1, <2>1
        <3>2. got \in SUBSET Extra[c]
            OBVIOUS
        <3> HIDE DEF affordable, c
        <3>3. QED
            BY <2>1, <3>1, <3>2
    <2>2. CASE ~(affordable /\ linked # {})
        BY <1>1, <2>2
    <2>3. QED
        BY <2>1, <2>2
<1> HIDE DEF c
<1>4. Types /\ GraphOK /\ RowsOK /\ EvidenceOK(evidence) /\ ReachedOK
    BY DEF IInv
<1>5. /\ state \in States /\ resolved \in Nat /\ sources \in [Candidate -> Seq(Answer)]
      /\ work \in [left : SUBSET Enterprise, calls : 0..MaxCalls] /\ e \in Enterprise
    BY <1>4 DEF Types
<1>6. work' \in [left : SUBSET Enterprise, calls : 0..MaxCalls] /\ work'.left \subseteq work.left
    <2>1. lacking \in SUBSET Required
        BY <1>1 DEF Lacking
    <2>2. Cardinality(lacking) \in Nat
        BY <2>1, FS_Subset, FS_CardinalityType, VerificationAssumption
    <2>3. Min({Cardinality(lacking), MaxCallsPerEntity}) \in Nat
        BY <2>2, MinLemma, VerificationAssumption
    <2>4. calls \in Nat
        BY <1>5, <2>3, VerificationAssumption
    <2> HIDE DEF calls
    <2>5. QED
        BY <1>2, <1>5, <2>4, VerificationAssumption
<1>7. /\ EvidenceOK(evidence)' /\ evidence \subseteq evidence'
      /\ sources' \in [Candidate -> Seq(Answer)]
      /\ \A d \in Candidate : IsPrefix(Found[d], sources'[d])
      /\ \A d \in DOMAIN links : Reached(d) => Reached(d)'
    <2>1. CASE UNCHANGED <<sources, evidence>>
        <3>1. EvidenceOK(evidence)'
            BY <1>2, <1>4, <1>5, <2>1, EvidenceKept
        <3>2. \A d : Reached(d) => Reached(d)'
            BY <1>2, <2>1, ZenonT(60) DEF Reached, Same, Evidence
        <3>3. QED
            BY <1>4, <1>5, <2>1, <3>1, <3>2 DEF Types
    <2>2. ASSUME linked # {}, NEW got \in SUBSET Extra[c],
                 NEW list \in {SetToSeq(got)}, sources' = [sources EXCEPT ![c] = @ \o list],
                 evidence' = SaveEvidence(evidence,
                     {Evidence(e, c, Len(sources[c]) + k, list[k]) : k \in DOMAIN list})
          PROVE  /\ EvidenceOK(evidence)' /\ evidence \subseteq evidence'
                 /\ sources' \in [Candidate -> Seq(Answer)]
                 /\ \A d \in Candidate : IsPrefix(Found[d], sources'[d])
                 /\ \A d \in DOMAIN links : Reached(d) => Reached(d)'
        <3>1. c \in DOMAIN links /\ links[c].enterprise = e
            BY <1>1, <2>2 DEF c
        <3>2. c \in Candidate
            BY <1>4, <3>1, LinksTyped
        <3>3. list \in Seq(Answer)
            <4>1. IsFiniteSet(Extra[c]) /\ Extra[c] \in SUBSET Answer
                BY <3>2, VerificationAssumption
            <4>2. IsFiniteSet(got) /\ got \in SUBSET Answer
                BY <4>1, FS_Subset
            <4>3. QED
                BY <4>2, ListLemma
        <3>5. /\ EvidenceOK(evidence)' /\ evidence \subseteq evidence'
              /\ \A i \in DOMAIN sources'[c] :
                    \/ i \in DOMAIN sources[c] /\ sources'[c][i] = sources[c][i]
                    \/ \E v \in evidence' : Same(Evidence(e, c, i, sources'[c][i]), v)
              /\ sources'[c] = sources[c] \o list
              /\ \A d \in Candidate \ {c} : sources'[d] = sources[d]
            BY <1>2, <1>4, <1>5, <3>2, <2>2, <3>3, AnswersLemma
        <3>6. sources' \in [Candidate -> Seq(Answer)]
            BY <1>5, <2>2, <3>2, <3>3
        <3>7. ASSUME NEW d \in Candidate PROVE IsPrefix(Found[d], sources'[d])
            <4>1. /\ Found[d] \in Seq(Answer) /\ sources[d] \in Seq(Answer)
                  /\ IsPrefix(Found[d], sources[d])
                BY <1>4, <1>5, VerificationAssumption DEF Types
            <4>2. IsPrefix(Found[d], sources[d] \o list)
                BY <3>3, <4>1, PrefixGrows
            <4>3. QED
                BY <3>5, <4>1, <4>2
        <3>8. ASSUME NEW d \in DOMAIN links, Reached(d) PROVE Reached(d)'
            <4>1. d \in Candidate
                BY <1>4, LinksTyped
            <4>2. CASE d = c
                <5>1. ASSUME NEW i \in DOMAIN sources'[c]
                      PROVE  \E v \in evidence' : Same(Evidence(links[c].enterprise, c, i, sources'[c][i]), v)
                    <6>1. CASE i \in DOMAIN sources[c] /\ sources'[c][i] = sources[c][i]
                        <7>1. PICK v \in evidence : Same(Evidence(links[c].enterprise, c, i, sources[c][i]), v)
                            BY <3>8, <4>2, <6>1 DEF Reached
                        <7>2. QED
                            BY <3>5, <6>1, <7>1
                    <6>2. QED
                        BY <3>1, <3>5, <6>1
                <5>2. QED
                    BY <1>2, <4>2, <5>1 DEF Reached
            <4>3. CASE d # c
                <5>1. sources'[d] = sources[d]
                    BY <3>5, <4>1, <4>3
                <5>2. \A i \in DOMAIN sources[d] :
                          \E v \in evidence' : Same(Evidence(links[d].enterprise, d, i, sources[d][i]), v)
                    BY <3>5, <3>8 DEF Reached
                <5>3. QED
                    BY <1>2, <5>1, <5>2 DEF Reached
            <4>4. QED
                BY <4>2, <4>3
        <3>9. QED
            BY <3>5, <3>6, <3>7, <3>8
    <2>3. QED
        BY <1>3, <2>1, <2>2
<1>8. Types'
    <2>1. Enterprise' = Enterprise
        BY <1>2 DEF Enterprise
    <2>2. States' = States
        BY <1>2, <2>1 DEF States
    <2>3. QED
        BY <1>2, <1>4, <1>6, <1>7, <2>1, <2>2 DEF Types
<1>9. GraphOK' /\ FirstRun'
    BY <1>2, <1>4, <1>6 DEF GraphOK, FirstRun, Resolved, Enterprise
<1>10. RowsOK' /\ ProfilesOK'
    BY <1>2, <1>4, <1>7, RowsKept, ProfilesKept DEF IInv
<1>11. (Owns' <=> Owns) /\ \A d : LinkedNow(d)' <=> LinkedNow(d)
    BY <1>2 DEF Owns, Resolved, LinkedNow
<1>12. SetLinked' /\ ShownOK'
    BY <1>2, <1>11 DEF IInv, SetLinked, ShownOK, Resolved
<1>13. ReachedOK'
    <2>1. state.set \subseteq DOMAIN links
        BY <1>2, <1>4 DEF IInv, SetLinked, RowsOK, Resolved
    <2>2. QED
        BY <1>2, <1>4, <1>7, <1>11, <2>1 DEF ReachedOK
<1>14. QED
    BY <1>7, <1>8, <1>9, <1>10, <1>12, <1>13 DEF IInv

-----------------------------------------------------------------------------
(* Restarts. *)

\* A new process reads the tables, whatever the one that died has added to them: only
\* resolving adds rows, and no one changes a row, a run or the evidence there is.
LEMMA RestartedLemma ==
    ASSUME IInv, NEW rows, Restarted(rows), UNCHANGED sources,
           TableOK', resolved' \in Nat, resolved <= resolved',
           runs' \in Seq(1..resolved'), Len(runs)' \in Nat, Len(runs) <= Len(runs)',
           \A r \in 1..Len(runs) : runs'[r] = runs[r],
           EvidenceOK(evidence)', evidence \subseteq evidence',
           Resolved => rows = linkRows
    PROVE  IInv'
<1>1. /\ faults < MaxFaults /\ state.node # "end" /\ faults' = faults + 1 /\ linkRows' = rows
      /\ work' = IF state.node = "targeted_verification"
                 THEN [left |-> state.unresolved, calls |-> 0] ELSE Idle
      /\ UNCHANGED <<version, state, profiles>>
      /\ DOMAIN links' = {row.candidate : row \in rows}
      /\ \A c \in DOMAIN links' : [candidate |-> c, link |-> links'[c]] \in rows
    BY DEF Restarted
<1>2. Types /\ GraphOK /\ RowsOK /\ SetLinked /\ ReachedOK /\ ShownOK
    BY DEF IInv
<1>3. /\ state \in States /\ resolved \in Nat /\ runs \in Seq(1..resolved) /\ faults \in Nat
      /\ state.run \in 0..Len(runs) /\ Len(runs) \in Nat /\ state.unresolved \in SUBSET Enterprise
    <2>1. state \in States /\ resolved \in Nat /\ runs \in Seq(1..resolved) /\ faults \in 0..MaxFaults
        BY <1>2 DEF Types
    <2>2. faults \in Nat
        BY <2>1, VerificationAssumption
    <2>3. state.run \in 0..Len(runs) /\ Len(runs) \in Nat /\ state.unresolved \in SUBSET Enterprise
        BY <2>1 DEF States
    <2>4. QED
        BY <2>1, <2>2, <2>3
<1>4. Types'
    <2>1. state' \in States'
        BY <1>1, <1>3, StatesGrow
    <2>2. work' \in [left : SUBSET Enterprise', calls : 0..MaxCalls]
        <3>1. state.unresolved \in SUBSET Enterprise'
            BY <1>3, EnterprisesGrow
        <3>2. QED
            BY <1>1, <3>1, VerificationAssumption DEF Idle
    <2>3. faults' \in 0..MaxFaults
        BY <1>1, <1>2, VerificationAssumption DEF Types
    <2>4. QED
        BY <1>1, <1>2, <2>1, <2>2, <2>3 DEF Types
<1>5. GraphOK'
    <2>1. Enterprise \subseteq Enterprise'
        BY <1>3, EnterprisesGrow
    <2>2. /\ work'.left \subseteq state.ids
          /\ state.node # "targeted_verification" => work'.left = {}
        BY <1>1, <1>2 DEF GraphOK, Idle
    <2>3. QED
        BY <1>1, <1>2, <2>1, <2>2 DEF GraphOK, Resolved
<1>6. RowsOK'
    BY <1>1 DEF RowsOK
<1>7. FirstRun'
    BY <1>1, <1>3 DEF FirstRun
<1>8. ProfilesOK'
    BY <1>1, ProfilesKept DEF IInv
<1>9. Owns' <=> Owns
    BY <1>1, <1>3, SMTT(40) DEF Owns, Resolved
<1>10. ASSUME Resolved, NEW c \in state.set
       PROVE  /\ c \in DOMAIN links /\ [candidate |-> c, link |-> links[c]] \in linkRows
              /\ c \in DOMAIN links' /\ [candidate |-> c, link |-> links'[c]] \in linkRows
    BY <1>1, <1>2, <1>10 DEF SetLinked, RowsOK
<1>11. ASSUME Owns, NEW c \in state.set, LinkedNow(c)'
       PROVE  links'[c] = links[c] \/ faults' >= 3
    <2>1. CASE LinkedNow(c)
        <3>1. links'[c].run = state.resolution /\ links[c].run = state.resolution
            BY <1>1, <1>11, <2>1 DEF LinkedNow
        <3>2. [candidate |-> c, link |-> links'[c]] = [candidate |-> c, link |-> links[c]]
            BY <1>2, <1>10, <1>11, <3>1 DEF Owns, RowsOK, TableOK
        <3>3. QED
            BY <3>2
    <2>2. CASE ~LinkedNow(c)
        BY <1>1, <1>2, <1>3, <1>11, <2>2 DEF SetLinked, Owns
    <2>3. QED
        BY <2>1, <2>2
<1>12. SetLinked'
    <2>1. ASSUME Owns, NEW c \in state.set, ~LinkedNow(c)' PROVE faults' >= 2
        <3>1. [candidate |-> c, link |-> links'[c]] \in linkRows /\ links'[c].run # state.resolution
            BY <1>1, <1>10, <2>1 DEF LinkedNow, Owns
        <3>2. [candidate |-> c, link |-> links'[c]].link.run # state.resolution
            BY <3>1
        <3>3. faults >= 1
            BY <1>2, <2>1, <3>1, <3>2 DEF SetLinked, Owns
        <3>4. QED
            BY <1>1, <1>3, <3>3
    <2>2. ASSUME Owns, NEW row \in linkRows, row.link.run # state.resolution PROVE faults' >= 1
        BY <1>1, <1>3
    <2>3. QED
        BY <1>1, <1>2, <1>9, <2>1, <2>2 DEF SetLinked, Resolved
<1>13. ReachedOK'
    <2>1. ASSUME Owns, state.run # 0, NEW c \in state.set, LinkedNow(c)'
          PROVE  Reached(c)' \/ faults' >= 3
        <3>1. CASE links'[c] = links[c]
            <4>1. LinkedNow(c)
                BY <1>1, <2>1, <3>1 DEF LinkedNow
            <4>2. Reached(c) \/ faults >= 3
                BY <1>2, <2>1, <4>1 DEF ReachedOK
            <4>3. Reached(c) => Reached(c)'
                BY <3>1 DEF Reached
            <4>4. QED
                BY <1>1, <1>3, <4>2, <4>3
        <3>2. QED
            BY <1>11, <2>1, <3>1
    <2>2. QED
        BY <1>1, <1>9, <2>1 DEF ReachedOK
<1>14. ShownOK'
    <2>1. ASSUME Owns, state.node = "score_leads", NEW c \in state.set, LinkedNow(c)'
          PROVE  Shown(c)' \/ faults' >= 3
        <3>1. CASE links'[c] = links[c]
            <4>1. LinkedNow(c)
                BY <1>1, <2>1, <3>1 DEF LinkedNow
            <4>2. Shown(c) \/ faults >= 3
                BY <1>2, <2>1, <4>1 DEF ShownOK
            <4>3. Shown(c) => Shown(c)'
                BY <1>1, <3>1 DEF Shown
            <4>4. QED
                BY <1>1, <1>3, <4>2, <4>3
        <3>2. QED
            BY <1>11, <2>1, <3>1
    <2>2. QED
        BY <1>1, <1>9, <2>1 DEF ShownOK
<1>15. QED
    BY <1>4, <1>5, <1>6, <1>7, <1>8, <1>12, <1>13, <1>14 DEF IInv

LEMMA RestartLemma == IInv /\ Restart => IInv'
<1> SUFFICES ASSUME IInv, Restart PROVE IInv'
    OBVIOUS
<1>1. Restarted(linkRows) /\ UNCHANGED <<resolved, runs, sources, evidence>> /\ linkRows' = linkRows
    BY DEF Restart, Restarted
<1>2. Types /\ RowsOK /\ EvidenceOK(evidence)
    BY DEF IInv
<1>3. resolved \in Nat /\ runs \in Seq(1..resolved) /\ Len(runs) \in Nat
    BY <1>2 DEF Types
<1>4. TableOK' /\ EvidenceOK(evidence)'
    BY <1>1, <1>2, <1>3, EvidenceKept DEF RowsOK, TableOK, Enterprise
<1>5. PICK rows : rows = linkRows
    OBVIOUS
<1>6. QED
    BY <1>1, <1>3, <1>4, <1>5, RestartedLemma

LEMMA DieResolvingLemma == IInv /\ DieResolving => IInv'
<1> SUFFICES ASSUME IInv, DieResolving PROVE IInv'
    OBVIOUS
<1>1. PICK saved \in SUBSET Clusters[state.set] :
          Restarted(linkRows \cup Rows(Links(saved, resolved + 1)))
    BY DEF DieResolving
<1>2. PICK new, rows : new = Links(saved, resolved + 1) /\ rows = linkRows \cup Rows(new)
    OBVIOUS
<1>3. /\ state.node = "resolve_entities" /\ resolved' = resolved + 1 /\ UNCHANGED <<runs, sources, evidence>>
      /\ Restarted(rows) /\ linkRows' = rows
    BY <1>1, <1>2 DEF DieResolving, Restarted
<1>4. Types /\ RowsOK /\ EvidenceOK(evidence)
    BY DEF IInv
<1>5. /\ resolved \in Nat /\ runs \in Seq(1..resolved) /\ Len(runs) \in Nat
      /\ state.set \in SUBSET Candidate
    BY <1>4 DEF Types, States
<1>6. TableOK'
    BY <1>2, <1>3, <1>4, <1>5, RowsAdded DEF RowsOK
<1>7. EvidenceOK(evidence)'
    BY <1>3, <1>4, <1>5, EvidenceKept
<1>8. runs' \in Seq(1..resolved') /\ resolved' \in Nat /\ resolved <= resolved'
    BY <1>3, <1>5, RunsGrow
<1>9. ~Resolved
    BY <1>3 DEF Resolved
<1>10. QED
    BY <1>3, <1>5, <1>6, <1>7, <1>8, <1>9, RestartedLemma

LEMMA DieCollectingLemma == IInv /\ DieCollecting => IInv'
<1> SUFFICES ASSUME IInv, DieCollecting PROVE IInv'
    OBVIOUS
<1> DEFINE linked == LinkedCandidates(TakenRuns[Taken])
<1>1. PICK some \in SUBSET linked : evidence' \in {SaveEvidence(evidence, Extracted(some)), Collected(linked)}
    BY DEF DieCollecting, TakenRuns, Taken
<1>2. /\ state.node = "collect_evidence" /\ runs' = TakenRuns /\ UNCHANGED <<resolved, sources>>
      /\ Restarted(linkRows) /\ linkRows' = linkRows
    BY DEF DieCollecting, TakenRuns, Restarted
<1>3. Types /\ GraphOK /\ RowsOK /\ EvidenceOK(evidence)
    BY DEF IInv
<1>4. Resolved /\ resolved \in Nat /\ sources \in [Candidate -> Seq(Answer)]
    BY <1>2, <1>3 DEF Types, Resolved
<1>5. /\ TakenRuns \in Seq(1..resolved) /\ Len(runs) <= Len(TakenRuns)
      /\ \A r \in 1..Len(runs) : TakenRuns[r] = runs[r]
      /\ Len(runs) \in Nat /\ Len(TakenRuns) \in Nat
    BY <1>3, <1>4, TakenLemma
<1>6. linked \in SUBSET DOMAIN links /\ some \in SUBSET DOMAIN links
    BY DEF LinkedCandidates
<1> HIDE DEF linked
<1>7. EvidenceOK(evidence') /\ evidence \subseteq evidence'
    <2>1. /\ DOMAIN links \subseteq Candidate
          /\ \A c \in DOMAIN links : links[c].enterprise \in Enterprise
        BY <1>3, LinksTyped
    <2>2. Unsaved(Extracted(some)) /\ Drawn(Extracted(some))
        BY <1>4, <1>6, <2>1, ExtractedLemma
    <2>3. /\ EvidenceOK(SaveEvidence(evidence, Extracted(some)))
          /\ evidence \subseteq SaveEvidence(evidence, Extracted(some))
        BY <1>3, <2>2, SaveOK
    <2>4. EvidenceOK(Collected(linked)) /\ evidence \subseteq Collected(linked)
        BY <1>3, <1>4, <1>6, <2>1, CollectedLemma
    <2>5. QED
        BY <1>1, <2>3, <2>4
<1>8. EvidenceOK(evidence)'
    BY <1>2, <1>7 DEF EvidenceOK, SavedOnce, Dated, Drawn, Record, Same, Enterprise
<1>9. TableOK'
    BY <1>2, <1>3 DEF RowsOK, TableOK, Enterprise
<1>10. PICK rows : rows = linkRows
    OBVIOUS
<1>11. QED
    BY <1>2, <1>4, <1>5, <1>7, <1>8, <1>9, <1>10, RestartedLemma

-----------------------------------------------------------------------------
(* The theorems. *)

LEMMA StepLemma == IInv /\ [Next]_vars => IInv'
<1> SUFFICES ASSUME IInv, [Next]_vars PROVE IInv'
    OBVIOUS
<1>1. CASE NewTurn
    BY <1>1, NewTurnLemma
<1>2. CASE Step
    <2>1. CASE ResolveEntities
        BY <2>1, ResolveEntitiesLemma
    <2>2. CASE CollectEvidence
        BY <2>2, CollectEvidenceLemma
    <2>3. CASE ResolveFields
        BY <2>3, ResolveFieldsLemma
    <2>4. CASE Superseded \/ EndRound
        BY <2>4, NextRoundLemma
    <2>5. CASE \E e \in work.left : Enrich(e)
        BY <2>5, EnrichLemma
    <2>6. CASE BuildVerifiedProfiles
        BY <2>6, BuildLemma
    <2>7. CASE ScoreLeads
        BY <2>7, ScoreLeadsLemma
    <2>8. QED
        BY <1>2, <2>1, <2>2, <2>3, <2>4, <2>5, <2>6, <2>7 DEF Step
<1>3. CASE Mutate
    BY <1>3, MutateLemma
<1>4. CASE Restart
    BY <1>4, RestartLemma
<1>5. CASE DieResolving
    BY <1>5, DieResolvingLemma
<1>6. CASE DieCollecting
    BY <1>6, DieCollectingLemma
<1>7. CASE UNCHANGED vars
    BY <1>7, QuietLemma
<1>8. QED
    BY <1>1, <1>2, <1>3, <1>4, <1>5, <1>6, <1>7 DEF Next

\* The inductive invariant holds, for any candidates, answers and bounds.
THEOREM Invariance == Spec => []IInv
<1>1. Init => IInv
    BY InitLemma
<1>2. IInv /\ [Next]_vars => IInv'
    BY StepLemma
<1>3. QED
    BY <1>1, <1>2, PTL DEF Spec

\* The variables keep their types: what a node reads of the tables is there, evidence
\* is of records that exist, and no turn spends more than the budget.
THEOREM TypeCorrect == Spec => []TypeOK
<1>1. IInv => TypeOK
    <2> SUFFICES ASSUME IInv PROVE TypeOK
        OBVIOUS
    <2>1. Types /\ GraphOK /\ RowsOK /\ EvidenceOK(evidence)
        BY DEF IInv
    <2>2. /\ state \in States /\ work \in [left : SUBSET Enterprise, calls : 0..MaxCalls]
          /\ runs \in Seq(1..resolved)
        BY <2>1 DEF Types
    <2>3. /\ state.node \in Nodes /\ state.turn \in 0..MaxTurns /\ state.run \in 0..Len(runs)
          /\ state.resolution \in 0..resolved /\ state.round \in 0..MaxRounds
          /\ state.ids \cup state.unresolved \cup state.leads \subseteq Enterprise
        BY <2>2 DEF States
    <2>4. work.left \subseteq Enterprise /\ work.calls \in 0..MaxCalls
        BY <2>2
    <2>5. \A r \in DOMAIN runs : runs[r] \in 1..resolved
        <3>1. PICK S : S = 1..resolved
            OBVIOUS
        <3>2. runs \in Seq(S)
            BY <2>2, <3>1
        <3>3. \A r \in DOMAIN runs : runs[r] \in S
            BY <3>2
        <3>4. QED
            BY <3>1, <3>3
    <2>6. \A v \in evidence : v.enterprise \in Enterprise /\ v.source[2] \in DOMAIN sources[v.source[1]]
        BY <2>1 DEF EvidenceOK, Drawn
    <2>7. QED
        BY <2>1, <2>3, <2>4, <2>5, <2>6 DEF Types, GraphOK, RowsOK, TypeOK
<1>2. QED
    BY Invariance, <1>1, PTL

\* A field of a profile is VERIFIED only if enough records agree on it, each counted
\* once (collect_evidence, resolve_fields), however often a node was retried, a round
\* repeated or a run taken again.
THEOREM VerifiedAgrees == Spec => []VerifiedNeedsAgreement
<1>1. IInv => VerifiedNeedsAgreement
    BY DEF IInv, ProfilesOK
<1>2. QED
    BY Invariance, <1>1, PTL

\* As long as the process has died at most twice, whatever the records of the set's
\* candidates say reaches the profile of their enterprise, and a profile owns up to its
\* contradictions.  Three deaths are too many: the first leaves links of a resolution
\* that nobody uses, the second reads such a link before the evidence is collected, and
\* the third reads the right one back.
THEOREM EvidenceReaches == Spec => [](faults <= 2 => EvidenceReachesProfiles)
<1>1. IInv => (faults <= 2 => EvidenceReachesProfiles)
    <2> SUFFICES ASSUME IInv, faults <= 2, state.node = "score_leads", OfThisTurn,
                        NEW c \in state.set, NEW i \in DOMAIN sources[c],
                        Says[sources[c][i]].field \in Required
                 PROVE  LET said == Says[sources[c][i]]
                            field == profiles[links[c].enterprise][said.field]
                        IN  /\ said.value \in field.values
                            /\ Cardinality(field.values) > 1 => field.status = "CONFLICTING"
        BY DEF EvidenceReachesProfiles
    <2>1. Types /\ GraphOK /\ RowsOK /\ SetLinked /\ ShownOK /\ ConflictsOK
        BY DEF IInv, ProfilesOK
    <2>2. faults \in Nat
        BY <2>1, VerificationAssumption DEF Types
    <2>3. Owns /\ LinkedNow(c)
        BY DEF OfThisTurn, Owns, LinkedNow, Resolved
    <2>4. Shown(c)
        BY <2>1, <2>2, <2>3 DEF ShownOK
    <2>5. [candidate |-> c, link |-> links[c]] \in linkRows
        BY <2>1, <2>3 DEF SetLinked, RowsOK, Owns
    <2>6. links[c].enterprise \in DOMAIN profiles
        BY <2>1, <2>3, <2>5 DEF SetLinked, Owns, LinkedNow, GraphOK
    <2>7. QED
        BY <2>1, <2>4, <2>6 DEF Shown, ConflictsOK
<1>2. QED
    BY Invariance, <1>1, PTL
=============================================================================
