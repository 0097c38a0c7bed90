------------------------------ MODULE BuildProofs ------------------------------
(***************************************************************************)
(* Theorems about what is built, forged and validated: the cache of build  *)
(* outputs (ArtifactCache), the forges of a project (ProjectForges and     *)
(* VisualForge), the walks over a workspace (WorkspaceGraph), and the      *)
(* documents of a project, from the compilers that read them to the        *)
(* commands an author runs on them (ProjectDocuments).                     *)
(***************************************************************************)
EXTENDS ArtifactCache, ProjectForges, VisualForge, WorkspaceGraph, ProjectDocuments,
  FiniteSetTheorems, SequenceTheorems, TLAPS

-----------------------------------------------------------------------------
(* The cache of build outputs *)

\* What FoldLeft does with the next family, in First and in Dependents.
Keyed(c, keys, f) ==
  keys \union {[family |-> f, version |-> 1, from |-> {k \in keys : k.family \in DependsOn[f]}]}

Found(f, sofar, g) ==
  IF g = f \/ DependsOn[g] \intersect ({f} \union sofar) # {} THEN sofar \union {g} ELSE sofar

Keys == INSTANCE FoldLemmas WITH Op <- Keyed
Rebuilt == INSTANCE FoldLemmas WITH Op <- Found

IsBuild(b) == {"left", "doing", "resolved", "key", "sound"} \subseteq DOMAIN b

CacheTypes ==
  /\ edited \in [FamilySet -> 1..2]
  /\ DOMAIN output = FamilySet /\ \A f \in FamilySet : output[f].of # TornEntry
  /\ DOMAIN builds = Flushes
  /\ \A r \in Flushes :
       /\ IsBuild(builds[r])
       /\ builds[r] # NoBuild => builds[r].left \subseteq FamilySet /\ builds[r].left # {}

\* An entry that can be read, of a build nothing disturbed, has the outputs of its key.
EntriesAreTrue == \A e \in entries : e.outputs.of # TornEntry /\ e.sound => e.outputs.of = e.key

\* What the key of r is when nothing has changed since it was hashed.
Described(r) ==
  [family |-> Family(r), version |-> edited[Family(r)],
   from |-> {output[d].of : d \in DependsOn[Family(r)]}]

\* A build nothing has disturbed is alone, and what it runs on, or built, is in its key.
BuildsAreTrue ==
  \A r \in Flushes : builds[r] # NoBuild /\ builds[r].sound =>
    /\ Alone(r)
    /\ builds[r].doing = "running" => builds[r].key = Described(r)
    /\ builds[r].doing = "built" => output[Family(r)].of = builds[r].key

CacheInvariant == CacheTypes /\ EntriesAreTrue /\ BuildsAreTrue /\ ReusedIsCurrent

-----------------------------------------------------------------------------
LEMMA FamiliesAreDeclared ==
  \E n \in Nat \ {0} : DOMAIN Families = 1..n /\ FamilySet = {Families[i] : i \in 1..n}
<1>1. Families \in Seq(FamilySet) /\ Families # <<>>
  BY CacheAssumption
<1>2. Len(Families) \in Nat \ {0} /\ DOMAIN Families = 1..Len(Families)
  BY <1>1
<1> QED BY <1>2 DEF FamilySet

LEMMA OneIsFirst ==
  ASSUME NEW left, left \subseteq FamilySet, left # {}
  PROVE  FirstDeclared(left) \in left
<1> DEFINE places == {i \in DOMAIN Families : Families[i] \in left}
<1>1. places \subseteq Nat /\ places # {}
  BY FamiliesAreDeclared
<1> HIDE DEF places
<1>2. Min(places) \in places
  <2>1. \E x \in places : \A y \in places : x <= y
    BY <1>1, Keys!LeastMember
  <2> QED BY <2>1 DEF Min
<1> QED BY <1>2 DEF FirstDeclared, places

LEMMA FirstKeys ==
  \A f \in FamilySet : FirstOf(f) \in First /\ FirstOf(f).family = f /\ FirstOf(f).version = 1
<1>1. PICK n \in Nat \ {0} : DOMAIN Families = 1..n /\ FamilySet = {Families[i] : i \in 1..n}
  BY FamiliesAreDeclared
<1>2. First = Keys!Folded(0, {}, Families)
  BY Zenon DEF First, FoldLeft, Keys!Folded, Keys!FoldLeft, MapThenFoldSet, Keys!MapThenFoldSet, Max, Keys!Max, Keyed
<1>3. PICK keys : Keys!IsProgress(keys, 0, {}, Families, n) /\ Keys!Folded(0, {}, Families) = keys[n]
  BY <1>1, Keys!FoldIsProgress
<1>s. \A i \in Nat : i + 1 <= n => keys[i + 1] = Keyed(0, keys[i], Families[i + 1])
  BY <1>3, Keys!ProgressSteps
<1> DEFINE Hashed == {i \in Nat : i <= n =>
                       /\ \A k \in keys[i] : k.version = 1
                       /\ \A j \in 1..i : \E k \in keys[i] : k.family = Families[j]}
<1>4. 0 \in Hashed
  BY <1>3 DEF Keys!IsProgress
<1>5. ASSUME NEW i \in Nat, i \in Hashed PROVE i + 1 \in Hashed
  <2> SUFFICES ASSUME i + 1 <= n
               PROVE  /\ \A k \in keys[i + 1] : k.version = 1
                      /\ \A j \in 1..(i + 1) : \E k \in keys[i + 1] : k.family = Families[j]
    OBVIOUS
  <2> DEFINE new == [family |-> Families[i + 1], version |-> 1,
                     from |-> {k \in keys[i] : k.family \in DependsOn[Families[i + 1]]}]
  <2>1. keys[i + 1] = keys[i] \union {new}
    BY <1>s DEF Keyed
  <2>2. new.version = 1 /\ new.family = Families[i + 1]
    OBVIOUS
  <2> HIDE DEF new
  <2>3. /\ \A k \in keys[i] : k.version = 1
        /\ \A j \in 1..i : \E k \in keys[i] : k.family = Families[j]
    BY <1>5
  <2> QED BY <2>1, <2>2, <2>3
<1> HIDE DEF Hashed
<1>6. n \in Hashed
  BY <1>4, <1>5, Keys!Induction
<1>7. \A f \in FamilySet : \E k \in First : k.family = f
  BY <1>1, <1>2, <1>3, <1>6 DEF Hashed
<1>8. \A k \in First : k.version = 1
  BY <1>2, <1>3, <1>6 DEF Hashed
<1> QED BY <1>7, <1>8 DEF FirstOf

LEMMA DependentsHaveIt ==
  ASSUME NEW changed \in FamilySet
  PROVE  changed \in Dependents(changed) /\ Dependents(changed) \subseteq FamilySet
<1>1. PICK n \in Nat \ {0} : DOMAIN Families = 1..n /\ FamilySet = {Families[i] : i \in 1..n}
  BY FamiliesAreDeclared
<1>2. Dependents(changed) = Rebuilt!Folded(changed, {}, Families)
  BY Zenon DEF Dependents, FoldLeft, Rebuilt!Folded, Rebuilt!FoldLeft, MapThenFoldSet, Rebuilt!MapThenFoldSet, Max, Rebuilt!Max, Found
<1>3. PICK sofar : Rebuilt!IsProgress(sofar, changed, {}, Families, n) /\ Rebuilt!Folded(changed, {}, Families) = sofar[n]
  BY <1>1, Rebuilt!FoldIsProgress
<1>s. \A i \in Nat : i + 1 <= n => sofar[i + 1] = Found(changed, sofar[i], Families[i + 1])
  BY <1>3, Rebuilt!ProgressSteps
<1>4. PICK p \in 1..n : Families[p] = changed
  BY <1>1
<1> DEFINE Has == {i \in Nat : i <= n => sofar[i] \subseteq FamilySet /\ (p <= i => changed \in sofar[i])}
<1>5. 0 \in Has
  BY <1>3 DEF Rebuilt!IsProgress
<1>6. ASSUME NEW i \in Nat, i \in Has PROVE i + 1 \in Has
  <2> SUFFICES ASSUME i + 1 <= n
               PROVE  sofar[i + 1] \subseteq FamilySet /\ (p <= i + 1 => changed \in sofar[i + 1])
    OBVIOUS
  <2>1. \/ sofar[i + 1] = sofar[i] \union {Families[i + 1]}
        \/ sofar[i + 1] = sofar[i] /\ Families[i + 1] # changed
    BY <1>s DEF Found
  <2>2. Families[i + 1] \in FamilySet
    BY <1>1
  <2> QED BY <1>4, <1>6, <2>1, <2>2
<1> HIDE DEF Has
<1>7. n \in Has
  BY <1>5, <1>6, Rebuilt!Induction
<1> QED BY <1>2, <1>3, <1>4, <1>7 DEF Has

LEMMA CacheStarts ==
  CacheInit => CacheInvariant
<1> SUFFICES ASSUME CacheInit PROVE CacheInvariant
  OBVIOUS
<1>1. \A f \in FamilySet : output[f].of # TornEntry
  <2>1. CASE output = [f \in FamilySet |-> Bundled(Missing, 0)]
    <3>1. Missing # TornEntry
      BY DEF Missing, TornEntry
    <3> QED BY <2>1, <3>1 DEF Bundled
  <2>2. CASE output = [f \in FamilySet |-> Bundled(FirstOf(f), Embedded(f))]
    <3>1. TornEntry.version = 0
      BY DEF TornEntry
    <3> QED BY <2>2, <3>1, FirstKeys DEF Bundled
  <2> QED BY <2>1, <2>2 DEF CacheInit
<1>2. DOMAIN output = FamilySet /\ edited \in [FamilySet -> 1..2]
  BY DEF CacheInit
<1>3. \A r \in Flushes : builds[r] = NoBuild /\ IsBuild(builds[r])
  BY DEF CacheInit, IsBuild, NoBuild
<1>4. \A e \in entries : e.outputs.of = e.key
  BY DEF CacheInit, Bundled
<1> QED BY <1>1, <1>2, <1>3, <1>4
        DEF CacheInit, CacheInvariant, CacheTypes, EntriesAreTrue, BuildsAreTrue, ReusedIsCurrent

LEMMA BuildsChange ==
  ASSUME NEW b, IsBuild(b), NEW sound
  PROVE  LET c == [b EXCEPT !.sound = sound] IN IsBuild(c) /\ c.left = b.left /\ c.sound = sound
BY DEF IsBuild

LEMMA GoesOn ==
  ASSUME NEW b, IsBuild(b), b.left \subseteq FamilySet, b.left # {}, NEW k
  PROVE  \/ Continued(b, k) = NoBuild
         \/ /\ IsBuild(Continued(b, k)) /\ Continued(b, k) # NoBuild
            /\ Continued(b, k).left \subseteq FamilySet /\ Continued(b, k).left # {}
            /\ Continued(b, k).doing = "nothing" /\ Continued(b, k).sound = b.sound
BY DEF Continued, IsBuild, NoBuild

\* What a build is about is one of the families.
LEMMA AboutAFamily ==
  ASSUME CacheTypes, NEW r \in Flushes, builds[r] # NoBuild
  PROVE  /\ Family(r) \in builds[r].left /\ Family(r) \in FamilySet
         /\ IsBuild(builds[r]) /\ builds[r].left \subseteq FamilySet /\ builds[r].left # {}
BY OneIsFirst DEF CacheTypes, Family

LEMMA RecordingKeepsEntries ==
  ASSUME NEW b, NEW outputs, Recorded(b, outputs), EntriesAreTrue,
         outputs.of # TornEntry /\ b.sound => outputs.of = b.key
  PROVE  EntriesAreTrue'
<1>1. \A e \in entries' : e \in entries \/ e = [key |-> b.key, outputs |-> outputs, sound |-> b.sound]
  BY DEF Recorded
<1> QED BY <1>1 DEF EntriesAreTrue

LEMMA EditKeepsCache ==
  CacheInvariant /\ Edit => CacheInvariant'
<1> SUFFICES ASSUME CacheInvariant, Edit PROVE CacheInvariant'
  OBVIOUS
<1>1. edited' \in [FamilySet -> 1..2]
  BY DEF Edit, CacheInvariant, CacheTypes
<1>2. ASSUME NEW r \in Flushes
      PROVE  /\ IsBuild(builds'[r])
             /\ builds'[r] # NoBuild => builds'[r].left \subseteq FamilySet /\ builds'[r].left # {}
             /\ builds'[r] = NoBuild \/ builds'[r].sound = FALSE
  <2>1. builds'[r] = IF builds[r] = NoBuild THEN NoBuild ELSE [builds[r] EXCEPT !.sound = FALSE]
    BY DEF Edit
  <2>2. IsBuild(builds[r]) /\ (builds[r] # NoBuild => builds[r].left \subseteq FamilySet /\ builds[r].left # {})
    BY DEF CacheInvariant, CacheTypes
  <2> QED BY <2>1, <2>2, BuildsChange
<1>3. CacheTypes'
  BY <1>1, <1>2 DEF Edit, CacheInvariant, CacheTypes
<1>4. BuildsAreTrue'
  BY <1>2 DEF BuildsAreTrue
<1> QED BY <1>3, <1>4 DEF Edit, CacheInvariant, EntriesAreTrue, ReusedIsCurrent

LEMMA StartKeepsCache ==
  CacheInvariant /\ Start => CacheInvariant'
<1> SUFFICES ASSUME CacheInvariant, Start PROVE CacheInvariant'
  OBVIOUS
<1>1. PICK r \in Flushes, wanted \in SUBSET FamilySet, force \in BOOLEAN :
        builds[r] = NoBuild /\ wanted # {} /\ StartBuild(r, wanted, force)
  <2> DEFINE r == CHOOSE r \in Flushes : builds[r] = NoBuild
  <2>1. r \in Flushes /\ builds[r] = NoBuild
    BY DEF Start
  <2>2. FamilySet # {}
    <3>1. PICK n \in Nat \ {0} : FamilySet = {Families[i] : i \in 1..n}
      BY FamiliesAreDeclared
    <3>2. 1 \in 1..n
      OBVIOUS
    <3> QED BY <3>1, <3>2
  <2>3. \/ \E force \in BOOLEAN : StartBuild(r, FamilySet, force)
        \/ \E f \in FamilySet : StartBuild(r, Dependents(f), FALSE)
    BY DEF Start
  <2> HIDE DEF r
  <2> QED BY <2>1, <2>2, <2>3, DependentsHaveIt
<1>2. ASSUME NEW o \in Flushes, o # r
      PROVE  /\ IsBuild(builds'[o])
             /\ builds'[o] # NoBuild => builds'[o].left \subseteq FamilySet /\ builds'[o].left # {}
             /\ builds'[o] = NoBuild \/ builds'[o].sound = FALSE
             /\ builds[o] = NoBuild => builds'[o] = NoBuild
  <2>1. builds'[o] = IF builds[o] = NoBuild THEN NoBuild ELSE [builds[o] EXCEPT !.sound = FALSE]
    BY <1>1, <1>2 DEF StartBuild
  <2>2. IsBuild(builds[o]) /\ (builds[o] # NoBuild => builds[o].left \subseteq FamilySet /\ builds[o].left # {})
    BY DEF CacheInvariant, CacheTypes
  <2> QED BY <2>1, <2>2, BuildsChange
<1>3. /\ IsBuild(builds'[r]) /\ builds'[r].left = wanted /\ builds'[r].doing = "nothing"
      /\ builds'[r].sound = Alone(r)
  BY <1>1 DEF StartBuild, IsBuild, NoBuild
<1>4. CacheTypes'
  <2>1. DOMAIN builds' = Flushes
    BY <1>1 DEF StartBuild
  <2> QED BY <1>1, <1>2, <1>3, <2>1 DEF Start, CacheInvariant, CacheTypes
<1>5. BuildsAreTrue'
  <2> SUFFICES ASSUME NEW o \in Flushes, builds'[o] # NoBuild, builds'[o].sound
               PROVE  Alone(o)' /\ builds'[o].doing = "nothing"
    BY DEF BuildsAreTrue
  <2>1. o = r
    BY <1>2
  <2>2. Alone(r)
    BY <1>3, <2>1
  <2> QED BY <1>2, <1>3, <2>1, <2>2 DEF Alone
<1> QED BY <1>4, <1>5 DEF Start, CacheInvariant, EntriesAreTrue, ReusedIsCurrent

\* When r is at work, another build is disturbed, and stays so as long as r alone steps.
LEMMA OthersAreDisturbed ==
  ASSUME CacheInvariant, NEW r \in Flushes, builds[r] # NoBuild,
         NEW b, builds' = [builds EXCEPT ![r] = b],
         NEW o \in Flushes \ {r}
  PROVE  builds'[o] = builds[o] /\ ~(builds[o] # NoBuild /\ builds[o].sound)
BY DEF CacheInvariant, CacheTypes, BuildsAreTrue, Alone

\* It is enough to look at the build that steps.
LEMMA OneBuildSteps ==
  ASSUME CacheInvariant, NEW r \in Flushes, builds[r] # NoBuild,
         NEW b, builds' = [builds EXCEPT ![r] = b],
         IsBuild(b), b # NoBuild => b.left \subseteq FamilySet /\ b.left # {} /\ (b.sound => builds[r].sound),
         b # NoBuild /\ b.sound /\ b.doing = "running" => b.key = Described(r)',
         b # NoBuild /\ b.sound /\ b.doing = "built" => output'[Family(r)'].of = b.key,
         edited' = edited, DOMAIN output' = FamilySet, \A f \in FamilySet : output'[f].of # TornEntry
  PROVE  CacheTypes' /\ BuildsAreTrue'
<1>1. builds'[r] = b /\ DOMAIN builds' = Flushes
  BY DEF CacheInvariant, CacheTypes
<1>2. \A o \in Flushes \ {r} : builds'[o] = builds[o] /\ ~(builds[o] # NoBuild /\ builds[o].sound)
  BY OthersAreDisturbed
<1>3. CacheTypes'
  BY <1>1, <1>2 DEF CacheInvariant, CacheTypes
<1>4. b # NoBuild /\ b.sound => Alone(r)'
  BY <1>2 DEF CacheInvariant, BuildsAreTrue, Alone
<1>5. BuildsAreTrue'
  BY <1>1, <1>2, <1>4 DEF BuildsAreTrue
<1> QED BY <1>3, <1>5

LEMMA EnsureKeepsCache ==
  CacheInvariant /\ Ensure => CacheInvariant'
<1> SUFFICES ASSUME CacheInvariant, Ensure PROVE CacheInvariant'
  OBVIOUS
<1>1. PICK r \in Flushes :
        /\ builds[r] # NoBuild /\ builds[r].doing = "nothing"
        /\ LET hits == {e \in entries : ~builds[r].force /\ Hits(r, e)} IN
           \/ builds' = [builds EXCEPT ![r] = NoBuild] /\ UNCHANGED <<output, reused>>
           \/ /\ reused' = {<<e, output[Family(r)]>> : e \in hits}
              /\ builds' = [builds EXCEPT ![r] = Continued(builds[r], Key(r))] /\ UNCHANGED output
           \/ /\ reused' = {} /\ output' = [output EXCEPT ![Family(r)] = Partial]
              /\ builds' = [builds EXCEPT ![r] =
                   [builds[r] EXCEPT !.doing = "running", !.key = Key(r), !.sound = builds[r].sound /\ ~Astray(r)]]
  BY DEF Ensure, CacheInvariant, CacheTypes
<1>2. /\ Family(r) \in FamilySet /\ IsBuild(builds[r])
      /\ builds[r].left \subseteq FamilySet /\ builds[r].left # {}
  BY <1>1, AboutAFamily DEF CacheInvariant
<1>3. edited' = edited /\ entries' = entries
  BY DEF Ensure
<1>4. EntriesAreTrue'
  BY <1>3 DEF CacheInvariant, EntriesAreTrue
<1>5. DOMAIN output = FamilySet /\ \A f \in FamilySet : output[f].of # TornEntry
  BY DEF CacheInvariant, CacheTypes
<1>6. CASE builds' = [builds EXCEPT ![r] = NoBuild] /\ UNCHANGED <<output, reused>>
  <2>1. IsBuild(NoBuild)
    BY DEF IsBuild, NoBuild
  <2>2. CacheTypes' /\ BuildsAreTrue'
    BY <1>1, <1>3, <1>5, <1>6, <2>1, OneBuildSteps
  <2> QED BY <1>4, <1>6, <2>2 DEF CacheInvariant, ReusedIsCurrent
<1>7. CASE /\ reused' = {<<e, output[Family(r)]>> : e \in {e \in entries : ~builds[r].force /\ Hits(r, e)}}
           /\ builds' = [builds EXCEPT ![r] = Continued(builds[r], Key(r))] /\ UNCHANGED output
  <2> DEFINE b == Continued(builds[r], Key(r))
  <2>1. b = NoBuild \/ /\ IsBuild(b) /\ b # NoBuild /\ b.left \subseteq FamilySet /\ b.left # {}
                       /\ b.doing = "nothing" /\ b.sound = builds[r].sound
    BY <1>2, GoesOn
  <2> HIDE DEF b
  <2>2. IsBuild(b)
    BY <2>1 DEF IsBuild, NoBuild
  <2>3. builds' = [builds EXCEPT ![r] = b]
    BY <1>7 DEF b
  <2>4. CacheTypes' /\ BuildsAreTrue'
    BY <1>1, <1>3, <1>5, <1>7, <2>1, <2>2, <2>3, OneBuildSteps
  <2>5. ReusedIsCurrent'
    <3> SUFFICES ASSUME NEW e \in entries, Hits(r, e), e.sound
                 PROVE  output[Family(r)].of = e.key
      BY <1>7 DEF ReusedIsCurrent
    <3>1. e.outputs = output[Family(r)] /\ e.outputs.of # TornEntry
      BY <1>2, <1>5 DEF Hits
    <3> QED BY <3>1 DEF CacheInvariant, EntriesAreTrue
  <2> QED BY <1>4, <2>4, <2>5 DEF CacheInvariant
<1>8. CASE /\ reused' = {} /\ output' = [output EXCEPT ![Family(r)] = Partial]
           /\ builds' = [builds EXCEPT ![r] =
                [builds[r] EXCEPT !.doing = "running", !.key = Key(r), !.sound = builds[r].sound /\ ~Astray(r)]]
  <2> DEFINE b == [builds[r] EXCEPT !.doing = "running", !.key = Key(r), !.sound = builds[r].sound /\ ~Astray(r)]
  <2>1. /\ IsBuild(b) /\ b.left = builds[r].left /\ b.doing = "running" /\ b.key = Key(r)
        /\ b.sound = (builds[r].sound /\ ~Astray(r))
    <3> DEFINE well == builds[r].sound /\ ~Astray(r)
               c == [builds[r] EXCEPT !.doing = "running", !.key = Key(r), !.sound = well]
    <3> HIDE DEF well
    <3>1. /\ IsBuild(c) /\ c.left = builds[r].left /\ c.doing = "running" /\ c.key = Key(r)
          /\ c.sound = well
      BY <1>2 DEF IsBuild
    <3> QED BY <3>1, Zenon DEF well
  <2>2. b # NoBuild
    BY <2>1 DEF NoBuild
  <2> HIDE DEF b
  <2>3. builds' = [builds EXCEPT ![r] = b]
    BY <1>8 DEF b
  <2>4. builds'[r] = b /\ Family(r)' = Family(r)
    BY <2>1, <2>3 DEF CacheInvariant, CacheTypes, Family
  <2>5. DOMAIN output' = FamilySet /\ \A f \in FamilySet : output'[f].of # TornEntry
    <3>1. Partial.of # TornEntry
      BY DEF Partial, Bundled, TornEntry
    <3> QED BY <1>2, <1>5, <1>8, <3>1
  <2>6. \A d \in DependsOn[Family(r)] : output'[d] = output[d]
    BY <1>2, <1>5, <1>8, CacheAssumption
  <2>7. b.sound => b.key = Described(r)'
    <3> SUFFICES ASSUME ~Astray(r) PROVE Key(r) = Described(r)'
      BY <2>1
    <3>1. {output'[d].of : d \in DependsOn[Family(r)]} = DependencyKeys(r)
      BY <2>6 DEF Astray
    <3> QED BY <1>3, <2>4, <3>1 DEF Key, Described
  <2>8. CacheTypes' /\ BuildsAreTrue'
    BY <1>1, <1>2, <1>3, <2>1, <2>3, <2>5, <2>7, OneBuildSteps
  <2> QED BY <1>4, <1>8, <2>8 DEF CacheInvariant, ReusedIsCurrent
<1> QED BY <1>1, <1>6, <1>7, <1>8

LEMMA ToolEndsKeepsCache ==
  CacheInvariant /\ ToolEnds => CacheInvariant'
<1> SUFFICES ASSUME CacheInvariant, ToolEnds PROVE CacheInvariant'
  OBVIOUS
<1>1. PICK r \in Flushes :
        /\ builds[r].doing = "running"
        /\ output' = [output EXCEPT ![Family(r)] = Bundled(Described(r), Embedded(Family(r)))]
        /\ builds' = [builds EXCEPT ![r] = [builds[r] EXCEPT !.doing = "built"]]
  BY DEF ToolEnds, Described, CacheInvariant, CacheTypes
<1>2. builds[r] # NoBuild
  BY <1>1 DEF NoBuild
<1>3. /\ Family(r) \in FamilySet /\ IsBuild(builds[r])
      /\ builds[r].left \subseteq FamilySet /\ builds[r].left # {}
  BY <1>2, AboutAFamily DEF CacheInvariant
<1> DEFINE b == [builds[r] EXCEPT !.doing = "built"]
<1>4. /\ IsBuild(b) /\ b.left = builds[r].left /\ b.doing = "built" /\ b.key = builds[r].key
      /\ b.sound = builds[r].sound
  BY <1>3 DEF IsBuild
<1> HIDE DEF b
<1>5. builds' = [builds EXCEPT ![r] = b]
  BY <1>1 DEF b
<1>6. builds'[r] = b /\ Family(r)' = Family(r)
  BY <1>4, <1>5 DEF CacheInvariant, CacheTypes, Family
<1>7. Described(r) # TornEntry
  <2>1. Described(r).version = edited[Family(r)] /\ TornEntry.version = 0
    BY DEF Described, TornEntry
  <2>2. edited[Family(r)] \in 1..2
    BY <1>3 DEF CacheInvariant, CacheTypes
  <2> QED BY <2>1, <2>2
<1>8. /\ DOMAIN output' = FamilySet /\ \A f \in FamilySet : output'[f].of # TornEntry
      /\ output'[Family(r)].of = Described(r)
  BY <1>1, <1>3, <1>7 DEF Bundled, CacheInvariant, CacheTypes
<1>9. b.sound => output'[Family(r)'].of = b.key
  BY <1>1, <1>2, <1>4, <1>6, <1>8 DEF CacheInvariant, BuildsAreTrue
<1>10. edited' = edited /\ entries' = entries /\ reused' = {}
  BY DEF ToolEnds
<1>11. CacheTypes' /\ BuildsAreTrue'
  BY <1>2, <1>3, <1>4, <1>5, <1>8, <1>9, <1>10, OneBuildSteps
<1> QED BY <1>10, <1>11 DEF CacheInvariant, EntriesAreTrue, ReusedIsCurrent

LEMMA ToolFailsKeepsCache ==
  CacheInvariant /\ ToolFails => CacheInvariant'
<1> SUFFICES ASSUME CacheInvariant, ToolFails PROVE CacheInvariant'
  OBVIOUS
<1>1. PICK r \in Flushes : builds[r].doing = "running" /\ builds' = [builds EXCEPT ![r] = NoBuild]
  BY DEF ToolFails
<1>2. builds[r] # NoBuild /\ IsBuild(NoBuild)
  BY <1>1 DEF NoBuild, IsBuild
<1>3. edited' = edited /\ entries' = entries /\ output' = output /\ reused' = {}
  BY DEF ToolFails
<1>4. DOMAIN output' = FamilySet /\ \A f \in FamilySet : output'[f].of # TornEntry
  BY <1>3 DEF CacheInvariant, CacheTypes
<1>5. CacheTypes' /\ BuildsAreTrue'
  BY <1>1, <1>2, <1>3, <1>4, OneBuildSteps
<1> QED BY <1>3, <1>5 DEF CacheInvariant, EntriesAreTrue, ReusedIsCurrent

LEMMA RecordKeepsCache ==
  CacheInvariant /\ Record => CacheInvariant'
<1> SUFFICES ASSUME CacheInvariant, Record PROVE CacheInvariant'
  OBVIOUS
<1>1. PICK r \in Flushes :
        /\ builds[r].doing = "built" /\ Recorded(builds[r], output[Family(r)])
        /\ builds' = [builds EXCEPT ![r] = Continued(builds[r], builds[r].key)]
  BY DEF Record, CacheInvariant, CacheTypes
<1>2. builds[r] # NoBuild
  BY <1>1 DEF NoBuild
<1>3. /\ Family(r) \in FamilySet /\ IsBuild(builds[r])
      /\ builds[r].left \subseteq FamilySet /\ builds[r].left # {}
  BY <1>2, AboutAFamily DEF CacheInvariant
<1> DEFINE b == Continued(builds[r], builds[r].key)
<1>4. b = NoBuild \/ /\ IsBuild(b) /\ b # NoBuild /\ b.left \subseteq FamilySet /\ b.left # {}
                     /\ b.doing = "nothing" /\ b.sound = builds[r].sound
  BY <1>3, GoesOn
<1> HIDE DEF b
<1>5. IsBuild(b)
  BY <1>4 DEF IsBuild, NoBuild
<1>6. builds' = [builds EXCEPT ![r] = b]
  BY <1>1 DEF b
<1>7. edited' = edited /\ output' = output /\ reused' = {}
  BY DEF Record
<1>8. DOMAIN output' = FamilySet /\ \A f \in FamilySet : output'[f].of # TornEntry
  BY <1>7 DEF CacheInvariant, CacheTypes
<1>9. CacheTypes' /\ BuildsAreTrue'
  BY <1>2, <1>4, <1>5, <1>6, <1>7, <1>8, OneBuildSteps
<1>10. builds[r].sound => output[Family(r)].of = builds[r].key
  BY <1>1, <1>2 DEF CacheInvariant, BuildsAreTrue
<1>11. EntriesAreTrue'
  BY <1>1, <1>10, RecordingKeepsEntries DEF CacheInvariant
<1> QED BY <1>7, <1>9, <1>11 DEF CacheInvariant, ReusedIsCurrent

LEMMA StopKeepsCache ==
  CacheInvariant /\ Stop => CacheInvariant'
<1> SUFFICES ASSUME CacheInvariant, Stop PROVE CacheInvariant'
  OBVIOUS
<1>1. \A r \in Flushes : builds'[r] = NoBuild /\ IsBuild(NoBuild)
  BY DEF Stop, NoBuild, IsBuild
<1>2. CacheTypes' /\ BuildsAreTrue'
  BY <1>1 DEF Stop, CacheInvariant, CacheTypes, BuildsAreTrue
<1>3. CASE entries' = entries
  BY <1>2, <1>3 DEF Stop, CacheInvariant, EntriesAreTrue, ReusedIsCurrent
<1>4. ASSUME NEW r \in Flushes, builds[r].doing = "built",
             NEW outputs \in {Bundled(TornEntry, 0), output[Family(r)]}, Recorded(builds[r], outputs)
      PROVE  EntriesAreTrue'
  <2>1. builds[r] # NoBuild
    BY <1>4 DEF NoBuild
  <2>2. builds[r].sound => output[Family(r)].of = builds[r].key
    BY <1>4, <2>1 DEF CacheInvariant, BuildsAreTrue
  <2> QED BY <1>4, <2>2, RecordingKeepsEntries DEF CacheInvariant, Bundled
<1>5. EntriesAreTrue'
  BY <1>3, <1>4 DEF Stop, CacheInvariant, EntriesAreTrue
<1> QED BY <1>2, <1>5 DEF Stop, CacheInvariant, ReusedIsCurrent

LEMMA StepKeepsCache ==
  CacheInvariant /\ [CacheNext]_cache => CacheInvariant'
<1> SUFFICES ASSUME CacheInvariant, [CacheNext]_cache PROVE CacheInvariant'
  OBVIOUS
<1>1. CASE Clear
  <2>1. CacheTypes' /\ EntriesAreTrue' /\ ReusedIsCurrent'
    BY <1>1 DEF Clear, CacheInvariant, CacheTypes, EntriesAreTrue, ReusedIsCurrent
  <2>2. builds' = builds /\ output' = output /\ edited' = edited
    BY <1>1 DEF Clear
  <2>3. BuildsAreTrue'
    BY <2>2 DEF CacheInvariant, BuildsAreTrue, Alone, Described, Family
  <2> QED BY <2>1, <2>3 DEF CacheInvariant
<1>3. CASE Recook
  <2>1. CacheTypes' /\ EntriesAreTrue' /\ ReusedIsCurrent'
    BY <1>3 DEF Recook, CacheInvariant, CacheTypes, EntriesAreTrue, ReusedIsCurrent
  <2>2. builds' = builds /\ output' = output /\ edited' = edited
    BY <1>3 DEF Recook
  <2>3. BuildsAreTrue'
    BY <2>2 DEF CacheInvariant, BuildsAreTrue, Alone, Described, Family
  <2> QED BY <2>1, <2>3 DEF CacheInvariant
<1>2. CASE UNCHANGED cache
  <2>1. CacheTypes' /\ EntriesAreTrue' /\ ReusedIsCurrent'
    BY <1>2 DEF cache, CacheInvariant, CacheTypes, EntriesAreTrue, ReusedIsCurrent
  <2>2. builds' = builds /\ output' = output /\ edited' = edited
    BY <1>2 DEF cache
  <2>3. BuildsAreTrue'
    BY <2>2 DEF CacheInvariant, BuildsAreTrue, Alone, Described, Family
  <2> QED BY <2>1, <2>3 DEF CacheInvariant
<1> QED BY <1>1, <1>2, <1>3, EditKeepsCache, StartKeepsCache, EnsureKeepsCache, ToolEndsKeepsCache,
           ToolFailsKeepsCache, RecordKeepsCache, StopKeepsCache DEF CacheNext

\* For every set of families, every order they are declared in and all they depend on, what
\* a hit reuses was built of the inputs its key names, whatever artefacts it embeds, unless
\* the entry was recorded by a build that something disturbed (artifact-cache.ts, ensureFamily).
THEOREM ReuseIsCurrent == CacheSpec => []ReusedIsCurrent
<1>1. CacheInvariant => ReusedIsCurrent
  BY DEF CacheInvariant
<1> QED BY <1>1, CacheStarts, StepKeepsCache, PTL DEF CacheSpec

-----------------------------------------------------------------------------
(* The content, audio and asset forges *)

ForgeTypes ==
  /\ forge \in {"content", "audio", "assets"}
  /\ source \in Sources /\ revisions \in Nat
  /\ body \in [Places -> 0..3] /\ note \in [Places -> 0..3]
  /\ forging \in [doing : {"nothing", "body", "note"}, key : Sources]
  /\ index \in Places \X (0..2)
  /\ halted \in BOOLEAN /\ spoiled \in BOOLEAN

\* The place a run is writing.
Writes(p) == forging.doing # "nothing" /\ p = Place(forging.key)

\* A note that can be read is in the place of its key, and only a stop leaves half a note.
NotesInPlace ==
  /\ \A p \in Places : note[p] \in Sources => p = Place(note[p])
  /\ \A p \in Places : note[p] = Half => halted

\* Where no run writes, it is about the body beside it, or beside a pack half written.
NotesFit ==
  \A p \in Places : note[p] \in Sources /\ ~Writes(p) =>
    body[p] = note[p] \/ (forge = "content" /\ body[p] = Half)

\* A run that is about to write its note has made what the note will say, and a model has
\* not been edited since its run began.
RunsAreTrue ==
  /\ forging.doing = "body" => body[Place(forging.key)] = Half
  /\ forging.doing = "note" => body[Place(forging.key)] = forging.key
  /\ forge = "assets" /\ forging.doing # "nothing" => source = forging.key

\* What the index shows is in its place, being written anew, or not whole since a stop, or
\* a pack.
IndexIsTrue ==
  index[2] # Nothing =>
    /\ index[1] = Place(index[2])
    /\ \/ Writes(index[1]) \/ body[index[1]] = index[2]
       \/ halted /\ (forge = "content" \/ body[index[1]] \in {Nothing, Half})

NotesAreTrue == NotesInPlace /\ NotesFit /\ RunsAreTrue /\ IndexIsTrue

ReusesAreTrue == \A pair \in reuses : pair[2] = pair[1]

ForgesInvariant == ForgeTypes /\ (~spoiled => NotesAreTrue /\ ReusesAreTrue)

LEMMA PlacesAreThere ==
  ForgeTypes => \A key \in Sources : Place(key) \in Places
BY DEF ForgeTypes, Sources, Places, Place

LEMMA StepKeepsForgeTypes ==
  ASSUME ForgeTypes, [ForgesNext]_forges
  PROVE  ForgeTypes'
<1> USE PlacesAreThere DEF ForgeTypes, Sources, Places, Nothing, Half, Resting
<1>1. CASE EditSource
  BY <1>1, RevisionAssumption DEF EditSource
<1>2. CASE Forge
  BY <1>2 DEF Forge
<1>3. CASE WriteBody
  BY <1>3 DEF WriteBody, Made
<1>4. CASE WriteNote
  BY <1>4 DEF WriteNote
<1>5. CASE StopForge
  BY <1>5 DEF StopForge
<1>6. CASE ClearForge
  BY <1>6 DEF ClearForge
<1>7. CASE UNCHANGED forges
  BY <1>7 DEF forges
<1> QED BY <1>1, <1>2, <1>3, <1>4, <1>5, <1>6, <1>7 DEF ForgesNext

LEMMA StepKeepsForges ==
  ForgesInvariant /\ [ForgesNext]_forges => ForgesInvariant'
<1> SUFFICES ASSUME ForgesInvariant, [ForgesNext]_forges PROVE ForgesInvariant'
  OBVIOUS
<1>0. ForgeTypes /\ ForgeTypes'
  BY StepKeepsForgeTypes DEF ForgesInvariant
<1>p. \A key \in Sources : Place(key) \in Places
  BY <1>0, PlacesAreThere
<1> SUFFICES ASSUME ~spoiled' PROVE NotesAreTrue' /\ ReusesAreTrue'
  BY <1>0 DEF ForgesInvariant
<1>s. ~spoiled /\ forge' = forge
  <2>1. CASE EditSource
    BY <2>1, Zenon DEF EditSource
  <2>2. CASE StopForge
    <3>1. PICK left : spoiled' = (spoiled \/ Misleads(left))
      BY <2>2 DEF StopForge
    <3> QED BY <2>2, <3>1, Zenon DEF StopForge
  <2>3. CASE UNCHANGED <<forge, spoiled>>
    BY <2>3, Zenon
  <2> QED BY <2>1, <2>2, <2>3 DEF ForgesNext, Forge, WriteBody, WriteNote, ClearForge, forges
<1>i. NotesInPlace /\ NotesFit /\ RunsAreTrue /\ IndexIsTrue /\ ReusesAreTrue
  BY <1>s DEF ForgesInvariant, NotesAreTrue
<1>f. \A key : Place(key)' = Place(key)
  BY <1>s DEF Place
<1> USE DEF Nothing, Half
<1>1. CASE EditSource
  <2>1. /\ UNCHANGED <<forge, body, note, forging, index, halted>> /\ reuses' = {}
        /\ ~(forge = "assets" /\ forging.doing # "nothing")
    BY <1>1 DEF EditSource
  <2>2. NotesInPlace' /\ NotesFit' /\ IndexIsTrue'
    BY <1>i, <2>1 DEF NotesInPlace, NotesFit, IndexIsTrue, Writes, Place
  <2>3. RunsAreTrue'
    BY <1>i, <2>1 DEF RunsAreTrue, Place
  <2> QED BY <2>1, <2>2, <2>3 DEF NotesAreTrue, ReusesAreTrue
<1>2. CASE Forge
  <2>1. forging.doing = "nothing" /\ UNCHANGED <<forge, source, revisions, halted, note>>
    BY <1>2 DEF Forge
  <2>n. NotesInPlace'
    BY <1>f, <1>i, <2>1 DEF NotesInPlace
  <2>p. source \in Sources /\ Place(source) \in Places
    BY <1>0, <1>p DEF ForgeTypes
  <2>2. CASE /\ Fits(source)
             /\ index' = <<Place(source), source>>
             /\ reuses' = {<<source, body[Place(source)]>>}
             /\ UNCHANGED <<body, note, forging>>
    <3>1. body[Place(source)] = source
      BY <1>i, <2>1, <2>2, <2>p DEF Fits, Sources, NotesFit, Writes
    <3>2. NotesFit' /\ RunsAreTrue'
      BY <1>i, <2>1, <2>2 DEF NotesFit, RunsAreTrue, Writes, Place
    <3>3. IndexIsTrue'
      BY <1>f, <2>2, <3>1 DEF IndexIsTrue
    <3> QED BY <2>2, <2>n, <3>1, <3>2, <3>3 DEF NotesAreTrue, ReusesAreTrue
  <2>3. CASE /\ forging' = [doing |-> "body", key |-> source]
             /\ body' = [body EXCEPT ![Place(source)] = Half]
             /\ reuses' = {} /\ UNCHANGED <<note, index>>
    <3>1. /\ \A p : Writes(p)' <=> p = Place(source)
          /\ body'[Place(source)] = Half /\ \A p \in Places \ {Place(source)} : body'[p] = body[p]
      BY <1>0, <1>f, <2>3, <2>p DEF Writes, ForgeTypes
    <3>2. NotesFit'
      BY <1>i, <2>1, <2>3, <3>1 DEF NotesFit, Writes
    <3>3. RunsAreTrue'
      BY <1>f, <2>1, <2>3, <3>1 DEF RunsAreTrue
    <3>4. IndexIsTrue'
      <4>1. index[1] \in Places
        BY <1>0 DEF ForgeTypes
      <4> QED BY <1>f, <1>i, <1>s, <2>1, <2>3, <3>1, <4>1 DEF IndexIsTrue, Writes
    <3> QED BY <2>3, <2>n, <3>2, <3>3, <3>4 DEF NotesAreTrue, ReusesAreTrue
  <2>4. CASE index' \in {<<0, Nothing>>, index} /\ reuses' = {} /\ UNCHANGED <<body, note, forging>>
    <3>1. NotesFit' /\ RunsAreTrue' /\ IndexIsTrue'
      BY <1>i, <2>1, <2>4 DEF NotesFit, RunsAreTrue, IndexIsTrue, Writes, Place
    <3> QED BY <2>4, <2>n, <3>1 DEF NotesAreTrue, ReusesAreTrue
  <2> QED BY <1>2, <2>2, <2>3, <2>4 DEF Forge
<1> DEFINE place == Place(forging.key)
<1>w. /\ place \in Places
      /\ forging.doing # "nothing" => \A p : Writes(p) <=> p = place
  BY <1>0, <1>p DEF ForgeTypes, Writes
<1>3. CASE WriteBody
  <2>1. /\ forging.doing = "body" /\ forging'.doing = "note" /\ forging'.key = forging.key
        /\ body' = [body EXCEPT ![place] = Made] /\ reuses' = {}
        /\ UNCHANGED <<forge, source, note, index, halted>>
    BY <1>0, <1>3 DEF WriteBody, ForgeTypes
  <2>2. Made = forging.key
    BY <1>i, <2>1 DEF Made, RunsAreTrue
  <2>3. /\ \A p : Writes(p)' <=> Writes(p)
        /\ body'[place] = forging.key /\ \A p \in Places \ {place} : body'[p] = body[p]
    BY <1>0, <1>f, <1>w, <2>1, <2>2 DEF Writes, ForgeTypes
  <2>4. NotesInPlace' /\ NotesFit'
    BY <1>f, <1>i, <1>w, <2>1, <2>3 DEF NotesInPlace, NotesFit
  <2>5. RunsAreTrue'
    BY <1>f, <1>i, <2>1, <2>3 DEF RunsAreTrue
  <2>6. IndexIsTrue'
    <3>1. index[1] \in Places
      BY <1>0 DEF ForgeTypes
    <3> QED BY <1>f, <1>i, <1>w, <2>1, <2>3, <3>1 DEF IndexIsTrue
  <2> QED BY <2>1, <2>4, <2>5, <2>6 DEF NotesAreTrue, ReusesAreTrue
<1>r. forging' = Resting => \A p : ~Writes(p)'
  BY DEF Writes, Resting
<1>4. CASE WriteNote
  <2>1. /\ forging.doing = "note" /\ forging' = Resting /\ reuses' = {}
        /\ note' = [note EXCEPT ![place] = forging.key]
        /\ index' = <<place, forging.key>>
        /\ UNCHANGED <<forge, source, body, halted>>
    BY <1>4 DEF WriteNote
  <2>2. body[place] = forging.key /\ forging.key \in Sources
    BY <1>0, <1>i, <2>1 DEF RunsAreTrue, ForgeTypes
  <2>3. note'[place] = forging.key /\ \A p \in Places \ {place} : note'[p] = note[p]
    BY <1>0, <1>w, <2>1 DEF ForgeTypes
  <2>4. NotesInPlace'
    BY <1>f, <1>i, <1>w, <2>1, <2>2, <2>3 DEF NotesInPlace, Sources
  <2>5. NotesFit'
    BY <1>f, <1>i, <1>r, <1>w, <2>1, <2>2, <2>3 DEF NotesFit
  <2>6. RunsAreTrue' /\ IndexIsTrue'
    BY <1>f, <2>1, <2>2 DEF RunsAreTrue, IndexIsTrue, Resting
  <2> QED BY <2>1, <2>4, <2>5, <2>6 DEF NotesAreTrue, ReusesAreTrue
<1>5. CASE StopForge
  <2>1. PICK left \in {note[place], Half, forging.key} :
          /\ note' = [note EXCEPT ![place] = left]
          /\ left = Half \/ left = note[place] \/ forge = "audio"
          /\ ~Misleads(left)
    BY <1>5 DEF StopForge
  <2>2. /\ forging.doing # "nothing" /\ halted' /\ reuses' = {} /\ forging' = Resting
        /\ UNCHANGED <<forge, source, body, index>>
    BY <1>5 DEF StopForge
  <2>3. note'[place] = left /\ \A p \in Places \ {place} : note'[p] = note[p]
    BY <1>0, <1>w, <2>1 DEF ForgeTypes
  <2>4. left \in Sources => place = Place(left)
    BY <1>i, <1>w, <2>1 DEF Sources, NotesInPlace
  <2>k. forge # "content" => \A a : Place(a) = a
    BY DEF Place
  <2>d. forging.doing \in {"body", "note"}
    BY <1>0, <2>2 DEF ForgeTypes
  <2>5. left \in Sources => body[place] = left \/ (forge = "content" /\ body[place] = Half)
    BY <1>i, <2>1, <2>4, <2>d, <2>k DEF Misleads, RunsAreTrue
  <2>6. NotesInPlace'
    BY <1>f, <1>i, <2>2, <2>3, <2>4 DEF NotesInPlace
  <2>7. NotesFit'
    BY <1>i, <1>w, <2>2, <2>3, <2>5 DEF NotesFit
  <2>8. RunsAreTrue'
    BY <2>2 DEF RunsAreTrue, Resting
  <2>9. IndexIsTrue'
    <3> SUFFICES ASSUME index[2] # Nothing, forge # "content"
                 PROVE  body[index[1]] \in {index[2], Nothing, Half}
      BY <1>f, <1>i, <2>2 DEF IndexIsTrue
    <3>1. CASE index[1] = place
      <4>1. index[2] = forging.key
        BY <1>i, <2>k, <3>1 DEF IndexIsTrue
      <4> QED BY <1>i, <2>d, <3>1, <4>1 DEF RunsAreTrue
    <3>2. CASE index[1] # place
      BY <1>i, <1>w, <2>2, <3>2 DEF IndexIsTrue
    <3> QED BY <3>1, <3>2
  <2> QED BY <2>2, <2>6, <2>7, <2>8, <2>9 DEF NotesAreTrue, ReusesAreTrue
<1>6. CASE ClearForge
  <2>1. PICK p \in Places :
          /\ note[p] = Half
          /\ note' = [note EXCEPT ![p] = Nothing] /\ body' = [body EXCEPT ![p] = Nothing]
    BY <1>6 DEF ClearForge
  <2>2. /\ forging.doing = "nothing" /\ reuses' = {} /\ halted
        /\ UNCHANGED <<forge, source, forging, index, halted>>
    BY <1>6, <1>i, <2>1 DEF ClearForge, NotesInPlace
  <2>3. /\ note'[p] = Nothing /\ body'[p] = Nothing
        /\ \A q \in Places \ {p} : note'[q] = note[q] /\ body'[q] = body[q]
    BY <1>0, <2>1 DEF ForgeTypes
  <2>4. \A q : ~Writes(q) /\ ~Writes(q)'
    BY <2>2 DEF Writes
  <2>5. NotesInPlace' /\ NotesFit'
    BY <1>f, <1>i, <2>2, <2>3, <2>4 DEF NotesInPlace, NotesFit, Sources
  <2>6. RunsAreTrue'
    BY <2>2 DEF RunsAreTrue
  <2>7. IndexIsTrue'
    <3>1. index[1] \in Places
      BY <1>0 DEF ForgeTypes
    <3> QED BY <1>f, <1>i, <2>2, <2>3, <2>4, <3>1 DEF IndexIsTrue
  <2> QED BY <2>2, <2>5, <2>6, <2>7 DEF NotesAreTrue, ReusesAreTrue
<1>7. CASE UNCHANGED forges
  BY <1>7, <1>i DEF forges, NotesAreTrue, NotesInPlace, NotesFit, RunsAreTrue, IndexIsTrue, ReusesAreTrue, Writes, Place
<1> QED BY <1>1, <1>2, <1>3, <1>4, <1>5, <1>6, <1>7 DEF ForgesNext

LEMMA ForgesStart ==
  ForgesInit => ForgesInvariant
<1> SUFFICES ASSUME ForgesInit PROVE ForgesInvariant
  OBVIOUS
<1> USE DEF ForgesInit, Sources, Places, Nothing, Half, Resting
<1>1. ForgeTypes
  <2>1. spoiled \in BOOLEAN
    BY Zenon
  <2>2. halted \in BOOLEAN
    BY Zenon
  <2> QED BY <2>1, <2>2 DEF ForgeTypes
<1>2. NotesAreTrue /\ ReusesAreTrue
  BY DEF NotesAreTrue, NotesInPlace, NotesFit, RunsAreTrue, IndexIsTrue, ReusesAreTrue, Writes
<1> QED BY <1>1, <1>2 DEF ForgesInvariant

\* For every sequence of edits and runs, and wherever runs were stopped, what a forge reuses
\* is what it would compile now, and what the index shows is of its key, or not whole or a
\* newer pack after a stop, but for the two exceptions of ForgedIsCurrent: a note that a
\* stop left beside what it is not about, and a model edited while it was cooked
\* (content-forge.ts, audio-forge.ts, asset-forge.ts).
THEOREM ForgesStayCurrent ==
  ForgesSpec => []ForgedIsCurrent
<1>1. ForgesInvariant => ForgedIsCurrent
  BY DEF ForgesInvariant, NotesAreTrue, IndexIsTrue, ReusesAreTrue, Writes, ForgedIsCurrent
<1> QED BY <1>1, ForgesStart, StepKeepsForges, PTL DEF ForgesSpec

-----------------------------------------------------------------------------
(* The visual forge *)

JobStates ==
  {"NONE", "TORN", "PLANNED", "WAITING_FOR_TEXTURES", "TEXTURES_IMPORTED", "COMPILING",
   "VALIDATING", "NEEDS_REVISION", "APPROVED"}

Jobs == [state : JobStates, key : 0..2, asks : {"nothing", "missing", "imported"}, judged : 0..2]
Commands == [doing : {"nothing", "reading", "compiling", "indexing"},
             force : BOOLEAN, only : BOOLEAN, record : 0..2]

VisualTypes ==
  /\ character \in 0..2
  /\ job \in Jobs
  /\ manifest \in [VisualKeys -> {"none", "there", "torn"}]
  /\ visualIndex \in 0..3
  /\ command \in Commands

\* A compile is about the spec there is, and only one that passed is ever approved.
ApprovedIsJudged ==
  /\ command # NoCommand => character # 0
  /\ job.state = "APPROVED" => job.judged # 0 /\ quality[job.judged] = "passed"

VisualInvariant == VisualTypes /\ ApprovedIsJudged

LEMMA NoJobsAreTyped ==
  NoJob \in Jobs /\ TornJob \in Jobs /\ NoCommand \in Commands
BY DEF NoJob, TornJob, NoCommand, NoEntry, Jobs, JobStates, Commands

LEMMA JobsChange ==
  ASSUME NEW j \in Jobs
  PROVE  /\ \A s \in JobStates : [j EXCEPT !.state = s] \in Jobs
         /\ \A a \in {"nothing", "missing", "imported"}, s \in JobStates :
              /\ [j EXCEPT !.asks = a, !.state = s] \in Jobs
              /\ [j EXCEPT !.state = s, !.asks = a] \in Jobs
              /\ \A k \in 0..2 : [j EXCEPT !.key = k, !.asks = a, !.state = s] \in Jobs
         /\ \A k \in 0..2, s \in JobStates : [j EXCEPT !.judged = k, !.state = s] \in Jobs
BY DEF Jobs

LEMMA CommandsChange ==
  ASSUME NEW c \in Commands, NEW d \in {"nothing", "reading", "compiling", "indexing"}
  PROVE  /\ [c EXCEPT !.doing = d] \in Commands
         /\ \A o \in BOOLEAN : [c EXCEPT !.doing = d, !.only = o] \in Commands
         /\ \A k \in 0..2 : [c EXCEPT !.doing = d, !.record = k] \in Commands
BY DEF Commands

LEMMA StatesAreNamed ==
  {"PLANNED", "WAITING_FOR_TEXTURES", "TEXTURES_IMPORTED", "COMPILING", "VALIDATING",
   "NEEDS_REVISION", "APPROVED"} \subseteq JobStates
BY DEF JobStates

LEMMA VisualsStart ==
  VisualInit => VisualInvariant
<1> SUFFICES ASSUME VisualInit PROVE VisualInvariant
  OBVIOUS
<1>1. visualIndex \in 0..3
  BY DEF VisualInit, NoEntry
<1>2. VisualTypes
  BY <1>1, NoJobsAreTyped DEF VisualInit, VisualTypes
<1>3. job.state = "NONE"
  BY DEF VisualInit, NoJob
<1> QED BY <1>2, <1>3 DEF VisualInit, VisualInvariant, ApprovedIsJudged

LEMMA FoundJobs ==
  ASSUME VisualTypes, NEW k
  PROVE  JobOf(k) \in Jobs /\ (JobOf(k).state = "APPROVED" => JobOf(k) = job)
<1>1. CASE job.state # "NONE"
  BY <1>1 DEF JobOf, VisualTypes
<1>2. CASE job.state = "NONE"
  <2>1. PICK asks \in {"missing", "nothing"} : JobOf(k) = [NoJob EXCEPT !.state = "PLANNED", !.asks = asks]
    BY <1>2 DEF JobOf
  <2>2. JobOf(k).state = "PLANNED"
    BY <2>1 DEF NoJob
  <2>3. JobOf(k) \in Jobs
    <3>1. NoJob \in Jobs /\ "PLANNED" \in JobStates
      BY NoJobsAreTyped, StatesAreNamed
    <3> QED BY <2>1, <3>1 DEF Jobs
  <2> QED BY <2>2, <2>3
<1> QED BY <1>1, <1>2

LEMMA StepKeepsVisuals ==
  VisualInvariant /\ [VisualNext]_visual => VisualInvariant'
<1> SUFFICES ASSUME VisualInvariant, [VisualNext]_visual PROVE VisualInvariant'
  OBVIOUS
<1>0. VisualTypes /\ ApprovedIsJudged
  BY DEF VisualInvariant
<1>t. /\ \A j \in Jobs : j.state \in JobStates /\ j.asks \in {"nothing", "missing", "imported"}
      /\ character \in 0..2 /\ VisualKeys = 1..2
  BY <1>0 DEF Jobs, VisualTypes, VisualKeys
<1> USE <1>0, <1>t DEF VisualInvariant
<1>1. CASE PlanVisual
  <2>1. VisualTypes'
    <3>1. NoJob \in Jobs /\ "PLANNED" \in JobStates
      BY NoJobsAreTyped, StatesAreNamed
    <3>2. job' \in Jobs
      BY <1>1, <3>1 DEF PlanVisual, Jobs
    <3> QED BY <1>1, <3>2 DEF PlanVisual, VisualTypes
  <2>2. job'.state = "PLANNED"
    BY <1>1 DEF PlanVisual, NoJob
  <2> QED BY <1>1, <2>1, <2>2 DEF PlanVisual, ApprovedIsJudged
<1>2. CASE EditCharacter
  BY <1>2 DEF EditCharacter, VisualTypes, ApprovedIsJudged
<1>3. CASE ImportTextures
  <2>1. PICK asks \in {"nothing", "missing", "imported"} :
          /\ textures' = (textures \/ asks = "imported")
          /\ job' = [job EXCEPT !.asks = asks,
               !.state = IF asks = "missing" THEN "WAITING_FOR_TEXTURES" ELSE "TEXTURES_IMPORTED"]
    BY <1>3 DEF ImportTextures, VisualTypes
  <2>2. job' \in Jobs /\ job'.state # "APPROVED"
    BY <2>1, StatesAreNamed DEF VisualTypes, Jobs
  <2> QED BY <1>3, <2>2 DEF ImportTextures, VisualTypes, ApprovedIsJudged
<1>4. CASE BeginCompile
  <2> DEFINE held == JobOf(character)
  <2>1. PICK force \in BOOLEAN, only \in BOOLEAN :
          \/ /\ job' = [held EXCEPT !.state = "WAITING_FOR_TEXTURES"]
             /\ command' = [NoCommand EXCEPT !.doing = "indexing", !.only = only]
          \/ /\ job' = [held EXCEPT !.key = character,
                  !.asks = IF @ = "missing" /\ character \in surfaces THEN "imported" ELSE @,
                  !.state = IF Reused(force) /\ @ = "APPROVED" THEN "APPROVED" ELSE "COMPILING"]
             /\ command' = [NoCommand EXCEPT
                  !.doing = IF Reused(force) THEN "reading" ELSE "compiling", !.only = only]
    BY <1>4 DEF BeginCompile
  <2>2. held \in Jobs /\ (held.state = "APPROVED" => held = job)
    BY FoundJobs
  <2> HIDE DEF held
  <2>3. job' \in Jobs /\ (job'.state = "APPROVED" => held.state = "APPROVED" /\ job'.judged = held.judged)
    <3>1. CASE job' = [held EXCEPT !.state = "WAITING_FOR_TEXTURES"]
      BY <2>2, <3>1, StatesAreNamed DEF Jobs
    <3>2. CASE job' = [held EXCEPT !.key = character,
                  !.asks = IF @ = "missing" /\ character \in surfaces THEN "imported" ELSE @,
                  !.state = IF Reused(force) /\ @ = "APPROVED" THEN "APPROVED" ELSE "COMPILING"]
      BY <2>2, <3>2, StatesAreNamed DEF Jobs
    <3> QED BY <2>1, <3>1, <3>2
  <2>4. command' \in Commands
    BY <2>1, NoJobsAreTyped, CommandsChange
  <2>5. VisualTypes'
    BY <1>4, <2>3, <2>4 DEF BeginCompile, VisualTypes
  <2> QED BY <1>4, <2>2, <2>3, <2>5 DEF BeginCompile, ApprovedIsJudged
<1>5. CASE EndCompile
  <2>1. character # 0 /\ command # NoCommand
    BY <1>5 DEF EndCompile, ApprovedIsJudged, NoCommand
  <2>2. job' \in Jobs /\ (job'.state = "APPROVED" => job'.judged = character /\ quality[character] = "passed")
    BY <1>5, StatesAreNamed DEF EndCompile, Judged, VisualTypes, Jobs
  <2>3. manifest' \in [VisualKeys -> {"none", "there", "torn"}]
    BY <1>5, <2>1 DEF EndCompile, VisualTypes
  <2>4. command' \in Commands
    BY <1>5, CommandsChange DEF EndCompile, VisualTypes
  <2> QED BY <1>5, <2>1, <2>2, <2>3, <2>4 DEF EndCompile, VisualTypes, ApprovedIsJudged
<1>6. CASE CompileFails
  <2>1. job' \in Jobs /\ (job'.state = "APPROVED" => job' = job)
    <3>1. "NEEDS_REVISION" \in JobStates /\ character \in 0..2 /\ job \in Jobs
      BY StatesAreNamed DEF VisualTypes
    <3>2. job' \in {job, [job EXCEPT !.state = "NEEDS_REVISION", !.judged = character]}
      BY <1>6 DEF CompileFails
    <3> QED BY <3>1, <3>2 DEF Jobs
  <2>2. command' \in Commands
    <3>1. command' \in {NoCommand, [command EXCEPT !.doing = "indexing"]}
      BY <1>6 DEF CompileFails
    <3> QED BY <3>1, NoJobsAreTyped, CommandsChange DEF VisualTypes
  <2>3. command # NoCommand
    BY <1>6 DEF CompileFails, NoCommand
  <2> QED BY <1>6, <2>1, <2>2, <2>3 DEF CompileFails, VisualTypes, ApprovedIsJudged
<1>7. CASE WriteVisualIndex
  <2>1. visualIndex' \in 0..3
    BY <1>7 DEF WriteVisualIndex, VisualTypes, Commands
  <2> QED BY <1>7, <2>1, NoJobsAreTyped DEF WriteVisualIndex, VisualTypes, ApprovedIsJudged
<1>8. CASE StopCompile
  <2>1. job' \in Jobs /\ (job'.state = "APPROVED" => job' = job)
    BY <1>8, NoJobsAreTyped DEF StopCompile, VisualTypes, TornJob, NoJob
  <2>2. manifest' \in [VisualKeys -> {"none", "there", "torn"}]
    BY <1>8 DEF StopCompile, VisualTypes
  <2>3. visualIndex' \in 0..3
    BY <1>8 DEF StopCompile, VisualTypes, TornIndex
  <2> QED BY <1>8, <2>1, <2>2, <2>3, NoJobsAreTyped DEF StopCompile, VisualTypes, ApprovedIsJudged
<1>9. CASE ValidateVisual
  <2>0. visualIndex \in 1..2
    BY <1>9 DEF ValidateVisual, Indexed
  <2>1. job' \in Jobs /\ job'.state # "APPROVED"
    <3>1. PICK s \in {"VALIDATING", "NEEDS_REVISION"} : job' = [job EXCEPT !.judged = visualIndex, !.state = s]
      BY <1>9 DEF ValidateVisual
    <3>2. s \in JobStates /\ visualIndex \in 0..2 /\ job \in Jobs
      BY <2>0, StatesAreNamed DEF VisualTypes
    <3> QED BY <3>1, <3>2 DEF Jobs
  <2> QED BY <1>9, <2>1 DEF ValidateVisual, VisualTypes, ApprovedIsJudged
<1>10. CASE FinalizeVisual
  <2>0. visualIndex \in 1..2
    BY <1>10 DEF FinalizeVisual, Indexed
  <2>1. job' \in Jobs /\ job'.judged = visualIndex /\ visualIndex # 0 /\ quality[visualIndex] = "passed"
    <3>1. "APPROVED" \in JobStates /\ visualIndex \in 0..2 /\ job \in Jobs
      BY <2>0, StatesAreNamed DEF VisualTypes
    <3>2. job' = [job EXCEPT !.state = "APPROVED", !.judged = visualIndex] /\ quality[visualIndex] = "passed"
      BY <1>10 DEF FinalizeVisual
    <3>3. job' \in Jobs /\ job'.judged = visualIndex
      BY <3>1, <3>2 DEF Jobs
    <3> QED BY <2>0, <3>2, <3>3
  <2> QED BY <1>10, <2>1 DEF FinalizeVisual, VisualTypes, ApprovedIsJudged
<1>11. CASE ClearJob
  <2>1. job'.state = "NONE"
    BY <1>11 DEF ClearJob, NoJob
  <2> QED BY <1>11, <2>1, NoJobsAreTyped DEF ClearJob, VisualTypes, ApprovedIsJudged
<1>12. CASE UNCHANGED visual
  BY <1>12 DEF visual, VisualTypes, ApprovedIsJudged
<1> QED BY <1>1, <1>2, <1>3, <1>4, <1>5, <1>6, <1>7, <1>8, <1>9, <1>10, <1>11, <1>12 DEF VisualNext

\* Whatever commands run and wherever they are stopped, what is approved has passed in the
\* report its approval was given for (visual-forge.ts, runValidateOrFinalize).
THEOREM WhatIsApprovedHasPassed ==
  VisualSpec => []ApprovedHasPassed
<1>1. VisualInvariant => ApprovedHasPassed
  BY DEF VisualInvariant, ApprovedIsJudged, ApprovedHasPassed
<1> QED BY <1>1, VisualsStart, StepKeepsVisuals, PTL DEF VisualSpec

-----------------------------------------------------------------------------
(* The walks over a workspace *)

AllNames(w) ==
  Names(w) \union w.targets \union UNION {PackageOf(w, n).uses : n \in Names(w)}

Frames(w) == [name : AllNames(w), left : SUBSET AllNames(w)]

Leads(n) == Needs(Inspected, n)

Walking == stage \in {"packages", "targets"}

WalkTypes ==
  /\ stage \in {"idle", "packages", "targets", "done"}
  /\ stack \in Seq(Frames(Inspected))
  /\ visited \subseteq AllNames(Inspected)
  /\ visiting = {stack[i].name : i \in DOMAIN stack} /\ visiting \intersect visited = {}
  /\ \A i, j \in DOMAIN stack : stack[i].name = stack[j].name => i = j
  /\ ~Walking => stack = <<>> /\ visited = {}

\* A call is of somebody the call it is under needs.
CallsAreNested ==
  \A i \in DOMAIN stack :
    /\ stack[i].left \subseteq Leads(stack[i].name)
    /\ i + 1 \in DOMAIN stack => stack[i + 1].name \in Leads(stack[i].name)

NoneIsFirst(around) == \A n \in around : Leads(n) \intersect around # {}

\* Once it has reported a cycle, there is one.  Until then, what it has visited needs
\* nothing else, what a call has tried is visited or on the stack, and of those it has
\* visited somebody can always come first.
WalkIsTrue ==
  IF CycleCode \in found
  THEN \E around \in (SUBSET AllNames(Inspected)) \ {{}} : NoneIsFirst(around)
  ELSE /\ \A n \in visited : Leads(n) \subseteq visited
       /\ \A i \in DOMAIN stack : \A n \in Leads(stack[i].name) \ stack[i].left :
            n \in visited \/ (i + 1 \in DOMAIN stack /\ n = stack[i + 1].name)
       /\ \A around \in (SUBSET visited) \ {{}} : ~NoneIsFirst(around)

Walks == WalkTypes /\ (Walking => CallsAreNested /\ WalkIsTrue)

LEMMA SomebodyLeads ==
  \A n : Leads(n) \subseteq AllNames(Inspected)
BY DEF Leads, Needs, AllNames

LEMMA SameWorkspace ==
  ASSUME UNCHANGED <<checked, stage>>
  PROVE  /\ Inspected' = Inspected /\ \A n : Leads(n)' = Leads(n)
         /\ CycleCode' = CycleCode /\ Walking' = Walking
         /\ AllNames(Inspected)' = AllNames(Inspected)
<1>1. Inspected' = Inspected
  BY DEF Inspected
<1>2. \A n : Leads(n)' = Leads(n)
  BY <1>1 DEF Leads, Needs
<1>3. CycleCode' = CycleCode
  BY DEF CycleCode
<1>4. Walking' = Walking
  BY DEF Walking
<1> QED BY <1>1, <1>2, <1>3, <1>4

\* The calls with the stack as it was, but that the top one has tried a name.
HasTried(calls, name) ==
  /\ calls \in Seq(Frames(Inspected)) /\ Len(calls) = Len(stack)
  /\ \A i \in DOMAIN stack :
       /\ calls[i].name = stack[i].name /\ calls[i].left \subseteq stack[i].left
       /\ \A m \in stack[i].left \ calls[i].left : i = Len(stack) /\ m = name

LEMMA StackIsOfNames ==
  ASSUME WalkTypes
  PROVE  /\ Len(stack) \in Nat /\ DOMAIN stack = 1..Len(stack)
         /\ visiting = {stack[i].name : i \in 1..Len(stack)}
         /\ \A i \in 1..Len(stack) : stack[i].name \in AllNames(Inspected)
         /\ \A i, j \in 1..Len(stack) : stack[i].name = stack[j].name => i = j
<1>1. stack \in Seq(Frames(Inspected))
  BY DEF WalkTypes
<1>2. Len(stack) \in Nat /\ DOMAIN stack = 1..Len(stack)
  BY <1>1
<1>3. \A i \in 1..Len(stack) : stack[i] \in Frames(Inspected)
  BY <1>1
<1>4. \A i \in 1..Len(stack) : stack[i].name \in AllNames(Inspected)
  BY <1>3 DEF Frames
<1> QED BY <1>2, <1>4 DEF WalkTypes

LEMMA CallsStayNested ==
  ASSUME WalkTypes, CallsAreNested, NEW name, NEW calls, HasTried(calls, name)
  PROVE  /\ DOMAIN stack = 1..Len(stack) /\ DOMAIN calls = 1..Len(stack) /\ Len(stack) \in Nat
         /\ \A i \in DOMAIN calls :
              /\ calls[i].left \subseteq Leads(calls[i].name)
              /\ i + 1 \in DOMAIN calls => calls[i + 1].name \in Leads(calls[i].name)
<1>1. DOMAIN stack = 1..Len(stack) /\ DOMAIN calls = 1..Len(stack) /\ Len(stack) \in Nat
  BY DEF WalkTypes, HasTried
<1> QED BY <1>1 DEF HasTried, CallsAreNested

LEMMA TryingRenamesNobody ==
  ASSUME WalkTypes, NEW name, NEW calls, HasTried(calls, name)
  PROVE  /\ visiting = {calls[i].name : i \in DOMAIN calls}
         /\ \A i, k \in DOMAIN calls : calls[i].name = calls[k].name => i = k
<1>1. PICK n \in Nat : n = Len(stack) /\ DOMAIN calls = 1..n
  BY StackIsOfNames DEF HasTried
<1>2. /\ DOMAIN stack = 1..n /\ visiting = {stack[i].name : i \in 1..n}
      /\ \A i, k \in 1..n : stack[i].name = stack[k].name => i = k
  BY <1>1, StackIsOfNames
<1>3. \A i \in 1..n : calls[i].name = stack[i].name
  BY <1>2 DEF HasTried
<1> QED BY <1>1, <1>2, <1>3

LEMMA ClosingACycle ==
  ASSUME Walks, Walking, UNCHANGED <<checked, stage>>, NEW name \in visiting,
         NEW calls, HasTried(calls, name), Visit(name, calls),
         stack # <<>> => name \in Leads(stack[Len(stack)].name)
  PROVE  Walks'
<1>1. PICK n \in Nat :
      /\ n = Len(stack) /\ DOMAIN stack = 1..n /\ DOMAIN calls = 1..n
      /\ \A i \in DOMAIN calls :
           /\ calls[i].left \subseteq Leads(calls[i].name)
           /\ i + 1 \in DOMAIN calls => calls[i + 1].name \in Leads(calls[i].name)
  BY CallsStayNested DEF Walks
<1>2. stack' = calls /\ visiting' = visiting /\ visited' = visited /\ found' = found \union {CycleCode}
  BY DEF Visit
<1>3. PICK j \in 1..n : stack[j].name = name
  BY <1>1 DEF Walks, WalkTypes
<1> DEFINE around == {stack[i].name : i \in j..n}
<1>4. around # {} /\ around \subseteq AllNames(Inspected)
  <2>1. \A i \in 1..n : stack[i].name \in AllNames(Inspected)
    BY <1>1, StackIsOfNames DEF Walks
  <2> QED BY <1>3, <2>1
<1>5. ASSUME NEW i \in j..n
      PROVE  \E m \in around : m \in Leads(stack[i].name)
  <2>1. CASE i = n
    <3>1. name \in around /\ stack # <<>>
      BY <1>1, <1>3
    <3> QED BY <1>1, <2>1, <3>1
  <2>2. CASE i # n
    <3>1. i + 1 \in j..n /\ i + 1 \in DOMAIN stack /\ i \in DOMAIN stack
      BY <1>1, <2>2
    <3>2. stack[i + 1].name \in Leads(stack[i].name)
      BY <3>1 DEF Walks, CallsAreNested
    <3> QED BY <3>1, <3>2
  <2> QED BY <2>1, <2>2
<1>6. NoneIsFirst(around)
  BY <1>5 DEF NoneIsFirst
<1> HIDE DEF around
<1>7. WalkIsTrue'
  BY <1>2, <1>4, <1>6, SameWorkspace DEF WalkIsTrue, NoneIsFirst
<1>8. WalkTypes'
  <2>1. /\ visiting = {calls[i].name : i \in DOMAIN calls}
        /\ \A i, k \in DOMAIN calls : calls[i].name = calls[k].name => i = k
    BY TryingRenamesNobody DEF Walks
  <2>3. Frames(Inspected)' = Frames(Inspected)
    BY SameWorkspace DEF Frames
  <2> QED BY <1>2, <2>1, <2>3, SameWorkspace DEF Walks, WalkTypes, HasTried
<1>9. CallsAreNested'
  BY <1>1, <1>2, SameWorkspace DEF CallsAreNested
<1> QED BY <1>7, <1>8, <1>9 DEF Walks

LEMMA SeenBefore ==
  ASSUME Walks, Walking, UNCHANGED <<checked, stage>>, NEW name \in visited,
         NEW calls, HasTried(calls, name), Visit(name, calls)
  PROVE  Walks'
<1>1. PICK n \in Nat :
      /\ n = Len(stack) /\ DOMAIN stack = 1..n /\ DOMAIN calls = 1..n
      /\ \A i \in DOMAIN calls :
           /\ calls[i].left \subseteq Leads(calls[i].name)
           /\ i + 1 \in DOMAIN calls => calls[i + 1].name \in Leads(calls[i].name)
  BY CallsStayNested DEF Walks
<1>2. stack' = calls /\ visiting' = visiting /\ visited' = visited /\ found' = found
  BY DEF Visit, Walks, WalkTypes
<1>3. CycleCode \notin found =>
        \A i \in DOMAIN calls : \A m \in Leads(calls[i].name) \ calls[i].left :
          m \in visited \/ (i + 1 \in DOMAIN calls /\ m = calls[i + 1].name)
  BY <1>1 DEF Walks, WalkIsTrue, HasTried
<1>4. WalkIsTrue'
  BY <1>2, <1>3, SameWorkspace DEF Walks, WalkIsTrue, NoneIsFirst
<1>5. WalkTypes'
  <2>1. /\ visiting = {calls[i].name : i \in DOMAIN calls}
        /\ \A i, k \in DOMAIN calls : calls[i].name = calls[k].name => i = k
    BY TryingRenamesNobody DEF Walks
  <2>3. Frames(Inspected)' = Frames(Inspected)
    BY SameWorkspace DEF Frames
  <2> QED BY <1>2, <2>1, <2>3, SameWorkspace DEF Walks, WalkTypes, HasTried
<1>6. CallsAreNested'
  BY <1>1, <1>2, SameWorkspace DEF CallsAreNested
<1> QED BY <1>4, <1>5, <1>6 DEF Walks

LEMMA GoingDeeper ==
  ASSUME Walks, Walking, UNCHANGED <<checked, stage>>,
         NEW name \in AllNames(Inspected) \ (visiting \union visited),
         NEW calls, HasTried(calls, name), Visit(name, calls),
         stack # <<>> => name \in Leads(stack[Len(stack)].name)
  PROVE  Walks'
<1> DEFINE call == [name |-> name, left |-> Leads(name)]
<1>1. PICK n \in Nat :
      /\ n = Len(stack) /\ DOMAIN stack = 1..n /\ DOMAIN calls = 1..n
      /\ \A i \in DOMAIN calls :
           /\ calls[i].left \subseteq Leads(calls[i].name)
           /\ i + 1 \in DOMAIN calls => calls[i + 1].name \in Leads(calls[i].name)
  BY CallsStayNested DEF Walks
<1>2. /\ stack' = Append(calls, call)
      /\ visiting' = visiting \union {name} /\ visited' = visited /\ found' = found
  BY DEF Visit, Leads
<1>3. call \in Frames(Inspected) /\ call.name = name /\ call.left = Leads(name)
  BY SomebodyLeads DEF Frames
<1> HIDE DEF call
<1>4. /\ stack' \in Seq(Frames(Inspected)) /\ DOMAIN stack' = 1..(n + 1) /\ Len(stack') = n + 1
      /\ stack'[n + 1] = call /\ \A i \in 1..n : stack'[i] = calls[i]
  BY <1>1, <1>2, <1>3 DEF HasTried
<1>5. \A i \in 1..n : calls[i].name = stack[i].name
  BY <1>1 DEF HasTried
<1>6. WalkTypes'
  <2>1. visiting' = {stack'[i].name : i \in DOMAIN stack'}
    <3>1. visiting = {stack[i].name : i \in 1..n}
      BY <1>1 DEF Walks, WalkTypes
    <3>2. \A i \in 1..n : stack'[i].name = stack[i].name
      BY <1>4, <1>5
    <3>3. stack'[n + 1].name = name
      BY <1>3, <1>4
    <3>4. \A i \in 1..(n + 1) : i \in 1..n \/ i = n + 1
      BY <1>1
    <3>5. 1..n \subseteq 1..(n + 1) /\ n + 1 \in 1..(n + 1)
      BY <1>1
    <3> QED BY <1>2, <1>4, <3>1, <3>2, <3>3, <3>4, <3>5
  <2>2. \A i \in 1..n : stack'[i].name \in visiting
    BY <1>1, <1>4, <1>5 DEF Walks, WalkTypes
  <2>3. \A i, k \in DOMAIN stack' : stack'[i].name = stack'[k].name => i = k
    <3> SUFFICES ASSUME NEW i \in 1..(n + 1), NEW k \in 1..(n + 1), stack'[i].name = stack'[k].name
                 PROVE  i = k
      BY <1>4
    <3>1. i \in 1..n \/ i = n + 1
      BY <1>1
    <3>2. k \in 1..n \/ k = n + 1
      BY <1>1
    <3>3. \A a, b \in 1..n : stack'[a].name = stack'[b].name => a = b
      BY <1>1, <1>4, <1>5, StackIsOfNames DEF Walks
    <3>4. stack'[n + 1].name \notin visiting
      BY <1>3, <1>4
    <3> QED BY <2>2, <3>1, <3>2, <3>3, <3>4
  <2>4. Frames(Inspected)' = Frames(Inspected)
    BY SameWorkspace DEF Frames
  <2> QED BY <1>2, <1>4, <2>1, <2>3, <2>4, SameWorkspace DEF Walks, WalkTypes
<1>7. CallsAreNested'
  <2> SUFFICES ASSUME NEW i \in 1..(n + 1)
               PROVE  /\ stack'[i].left \subseteq Leads(stack'[i].name)
                      /\ i + 1 \in 1..(n + 1) => stack'[i + 1].name \in Leads(stack'[i].name)
    BY <1>4, SameWorkspace DEF CallsAreNested
  <2>1. CASE i \in 1..(n - 1)
    <3>1. i \in 1..n /\ i + 1 \in 1..n
      BY <1>1, <2>1
    <3> QED BY <1>1, <1>4, <3>1
  <2>2. CASE i = n /\ n > 0
    <3>1. name \in Leads(stack'[n].name)
      BY <1>1, <1>4, <1>5, <2>2
    <3> QED BY <1>1, <1>3, <1>4, <2>2, <3>1
  <2>3. CASE i = n + 1
    <3>1. ~(i + 1 \in 1..(n + 1))
      BY <1>1, <2>3
    <3> QED BY <1>3, <1>4, <2>3, <3>1
  <2> QED BY <1>1, <2>1, <2>2, <2>3
<1>8. WalkIsTrue'
  <2>1. CASE CycleCode \in found
    BY <1>2, <2>1, SameWorkspace DEF Walks, WalkIsTrue, NoneIsFirst
  <2>2. CASE CycleCode \notin found
    <3> SUFFICES ASSUME NEW i \in 1..(n + 1), NEW m \in Leads(stack'[i].name) \ stack'[i].left
                 PROVE  m \in visited \/ (i + 1 \in 1..(n + 1) /\ m = stack'[i + 1].name)
      BY <1>2, <1>4, <2>2, SameWorkspace DEF Walks, WalkIsTrue, NoneIsFirst
    <3>1. i \in 1..n
      BY <1>1, <1>3, <1>4
    <3>2. stack'[i].name = stack[i].name /\ stack'[i].left = calls[i].left
      BY <1>4, <1>5, <3>1
    <3>3. CASE m \in stack[i].left
      <4>1. i = n /\ m = name
        BY <1>1, <3>1, <3>2, <3>3 DEF HasTried
      <4> QED BY <1>1, <1>3, <1>4, <4>1
    <3>4. CASE m \notin stack[i].left
      <4>1. m \in visited \/ (i + 1 \in 1..n /\ m = stack[i + 1].name)
        BY <1>1, <2>2, <3>1, <3>2, <3>4 DEF Walks, WalkIsTrue
      <4>2. i + 1 \in 1..n => i + 1 \in 1..(n + 1) /\ stack'[i + 1].name = stack[i + 1].name
        BY <1>1, <1>4, <1>5
      <4> QED BY <4>1, <4>2
    <3> QED BY <3>3, <3>4
  <2> QED BY <2>1, <2>2
<1> QED BY <1>6, <1>7, <1>8 DEF Walks

\* A call of visit, by a root or by the call on top of the stack.
LEMMA VisitKeepsWalk ==
  ASSUME Walks, Walking, UNCHANGED <<checked, stage>>, NEW name \in AllNames(Inspected),
         NEW calls, HasTried(calls, name), Visit(name, calls),
         stack # <<>> => name \in Leads(stack[Len(stack)].name)
  PROVE  Walks'
BY ClosingACycle, SeenBefore, GoingDeeper

LEMMA ReturnKeepsWalk ==
  ASSUME Walks, Walking, ReturnVisit
  PROVE  Walks'
<1>1. PICK n \in Nat \ {0} : n = Len(stack) /\ DOMAIN stack = 1..n /\ stack \in Seq(Frames(Inspected))
  <2>1. stack \in Seq(Frames(Inspected)) /\ stack # <<>>
    BY DEF Walks, WalkTypes, ReturnVisit
  <2>2. Len(stack) \in Nat \ {0} /\ DOMAIN stack = 1..Len(stack)
    BY <2>1
  <2> QED BY <2>1, <2>2
<1>n. PICK name : name = stack[n].name
  OBVIOUS
<1>2. /\ UNCHANGED <<checked, stage>> /\ found' = found /\ stack[n].left = {}
      /\ visiting' = visiting \ {name} /\ visited' = visited \union {name}
  BY <1>1, <1>n DEF ReturnVisit, Last
<1>3. /\ stack' \in Seq(Frames(Inspected)) /\ DOMAIN stack' = 1..(n - 1)
      /\ \A i \in 1..(n - 1) : stack'[i] = stack[i]
  BY <1>1 DEF ReturnVisit, Front
<1>4. name \in AllNames(Inspected) /\ name \notin visited
  BY <1>1, <1>n, StackIsOfNames DEF Walks, WalkTypes
<1>5. WalkTypes'
  <2>1. \A i \in 1..n : i \in 1..(n - 1) \/ i = n
    BY <1>1
  <2>2. visiting' = {stack'[i].name : i \in DOMAIN stack'}
    <3>1. visiting = {stack[i].name : i \in 1..n}
      BY <1>1 DEF Walks, WalkTypes
    <3>2. \A i \in 1..(n - 1) : i \in 1..n /\ stack[i].name # name
      BY <1>1, <1>n DEF Walks, WalkTypes
    <3> QED BY <1>n, <1>2, <1>3, <2>1, <3>1, <3>2
  <2>3. \A i, k \in DOMAIN stack' : stack'[i].name = stack'[k].name => i = k
    BY <1>1, <1>3 DEF Walks, WalkTypes
  <2>4. Frames(Inspected)' = Frames(Inspected)
    BY <1>2, SameWorkspace DEF Frames
  <2>5. visiting' \intersect visited' = {}
    BY <1>2 DEF Walks, WalkTypes
  <2> QED BY <1>2, <1>3, <1>4, <2>2, <2>3, <2>4, <2>5, SameWorkspace DEF Walks, WalkTypes
<1>6. CallsAreNested'
  <2>1. \A i \in 1..(n - 1) : i \in 1..n /\ (i + 1 \in 1..(n - 1) => i + 1 \in 1..n)
    BY <1>1
  <2>2. \A i \in 1..(n - 1) :
          /\ stack'[i].left \subseteq Leads(stack'[i].name)
          /\ i + 1 \in 1..(n - 1) => stack'[i + 1].name \in Leads(stack'[i].name)
    BY <1>1, <1>3, <2>1 DEF Walks, CallsAreNested
  <2> QED BY <1>2, <1>3, <2>2, SameWorkspace DEF CallsAreNested
<1>7. WalkIsTrue'
  <2>1. CASE CycleCode \in found
    BY <1>2, <2>1, SameWorkspace DEF Walks, WalkIsTrue, NoneIsFirst
  <2>2. CASE CycleCode \notin found
    <3>1. Leads(name) \subseteq visited
      BY <1>1, <1>n, <1>2, <2>2 DEF Walks, WalkIsTrue
    <3>2. \A m \in visited' : Leads(m) \subseteq visited'
      BY <1>2, <2>2, <3>1 DEF Walks, WalkIsTrue
    <3>3. ASSUME NEW i \in 1..(n - 1), NEW m \in Leads(stack'[i].name) \ stack'[i].left
          PROVE  m \in visited' \/ (i + 1 \in 1..(n - 1) /\ m = stack'[i + 1].name)
      <4>1. m \in visited \/ (i + 1 \in 1..n /\ m = stack[i + 1].name)
        BY <1>1, <1>3, <2>2, <3>3 DEF Walks, WalkIsTrue
      <4>2. i + 1 = n \/ i + 1 \in 1..(n - 1)
        BY <1>1
      <4> QED BY <1>1, <1>n, <1>2, <1>3, <4>1, <4>2
    <3>4. ASSUME NEW around \in (SUBSET visited') \ {{}}
          PROVE  ~NoneIsFirst(around)
      <4>1. CASE around \intersect visited = {}
        <5>1. around = {name}
          BY <1>2, <4>1
        <5> QED BY <1>4, <3>1, <5>1 DEF NoneIsFirst
      <4>2. CASE around \intersect visited # {}
        <5>1. PICK m \in around \intersect visited : Leads(m) \intersect (around \intersect visited) = {}
          BY <2>2, <4>2 DEF Walks, WalkIsTrue, NoneIsFirst
        <5>2. Leads(m) \subseteq visited
          BY <2>2, <5>1 DEF Walks, WalkIsTrue
        <5> QED BY <5>1, <5>2 DEF NoneIsFirst
      <4> QED BY <4>1, <4>2
    <3> QED BY <1>2, <1>3, <2>2, <3>2, <3>3, <3>4, SameWorkspace DEF WalkIsTrue, NoneIsFirst
  <2> QED BY <2>1, <2>2
<1> QED BY <1>5, <1>6, <1>7 DEF Walks

-----------------------------------------------------------------------------
UsesOf == [n \in Names(Inspected) |-> PackageOf(Inspected, n).uses]

LinksOf ==
  [t \in Inspected.targets |->
     {Resolved(Inspected, l[2]) : l \in {m \in Inspected.links : m[1] = t}}]

PackagesAreTold ==
  /\ "WORKSPACE_DEPENDENCY_CYCLE" \in found <=> Circular(UsesOf, Names(Inspected))
  /\ found = {} => \A n \in Names(Inspected) : Imports(Inspected, n) \subseteq UsesOf[n]

TargetsAreTold == "CMAKE_DEPENDENCY_CYCLE" \in found <=> Circular(LinksOf, Inspected.targets)

\* What the walks that have ended have told.
Told ==
  /\ stage = "packages" => "CMAKE_DEPENDENCY_CYCLE" \notin found
  /\ stage = "targets" => PackagesAreTold
  /\ stage = "done" /\ found # {"CLI_INTERNAL_ERROR"} => PackagesAreTold /\ TargetsAreTold

LEMMA WorkspaceStarts ==
  WorkspaceInit => Walks /\ Told
BY DEF WorkspaceInit, Walks, WalkTypes, Walking, Told

LEMMA BoundaryIsNoCycle ==
  \A rule \in BoundaryRules :
    rule.code \notin {"WORKSPACE_DEPENDENCY_CYCLE", "CMAKE_DEPENDENCY_CYCLE"}
<1> DEFINE NoCycle(rule) == rule.code \notin {"WORKSPACE_DEPENDENCY_CYCLE", "CMAKE_DEPENDENCY_CYCLE"}
<1>1. /\ NoCycle([thing |-> "three", homes |-> {"renderer-three"}, code |-> "THREE_IMPORT_OUTSIDE_ADAPTER"])
      /\ NoCycle([thing |-> "electron", homes |-> {"hosts/electron"}, code |-> "ELECTRON_IMPORT_OUTSIDE_HOST"])
      /\ NoCycle([thing |-> "steamworks", homes |-> {"hosts/electron"}, code |-> "STEAMWORKS_IMPORT_OUTSIDE_ADAPTER"])
      /\ NoCycle([thing |-> "capacitor", homes |-> {"hosts/capacitor"}, code |-> "CAPACITOR_IMPORT_OUTSIDE_HOST"])
      /\ NoCycle([thing |-> "deep import", homes |-> {}, code |-> "DEEP_IMPORT_FORBIDDEN"])
      /\ NoCycle([thing |-> "control", homes |-> {"cli", "tools"}, code |-> "CONTROL_PROTOCOL_OUTSIDE_TOOLING"])
      /\ NoCycle([thing |-> "lua host", homes |-> {}, code |-> "LUA_HOST_ACCESS_FORBIDDEN"])
  OBVIOUS
<1> HIDE DEF NoCycle
<1>2. ASSUME NEW rule \in BoundaryRules PROVE NoCycle(rule)
  BY <1>1, Zenon DEF BoundaryRules
<1> QED BY <1>2 DEF NoCycle

LEMMA ReadingKeepsWalk ==
  ASSUME Walks, Told, ReadFiles
  PROVE  Walks' /\ Told'
<1>1. UNCHANGED <<checked, stack, visiting, visited>> /\ Inspected' = Inspected
  BY DEF ReadFiles, Inspected
<1>2. stack = <<>> /\ visited = {} /\ visiting = {}
  BY DEF ReadFiles, Walks, WalkTypes, Walking
<1>3. stack' = <<>> /\ visited' = {} /\ visiting' = {}
  BY <1>1, <1>2
<1>4. CASE stage' = "done" /\ found' = {"CLI_INTERNAL_ERROR"}
  BY <1>3, <1>4 DEF Walks, WalkTypes, Walking, Told
<1>5. CASE /\ stage' = "packages"
           /\ found' = FileFaults(Inspected) \union KernelFaults(Inspected)
                        \union BoundaryFaults(Inspected) \union DeclaredFaults(Inspected)
  <2> DEFINE Cycles == {"WORKSPACE_DEPENDENCY_CYCLE", "CMAKE_DEPENDENCY_CYCLE"}
  <2>1. FileFaults(Inspected) \intersect Cycles = {}
    BY DEF FileFaults, When
  <2>2. KernelFaults(Inspected) \intersect Cycles = {}
    BY DEF KernelFaults, When
  <2>3. BoundaryFaults(Inspected) \intersect Cycles = {}
    <3>1. \A rule \in BoundaryRules : rule.code \notin Cycles
      BY BoundaryIsNoCycle
    <3>2. \A f \in BoundaryFaults(Inspected) :
            f = "GENERIC_MODULE_FORBIDDEN" \/ \E rule \in BoundaryRules : f = rule.code
      BY DEF BoundaryFaults, When
    <3> QED BY <3>1, <3>2
  <2>4. DeclaredFaults(Inspected) \intersect Cycles = {}
    BY DEF DeclaredFaults, When
  <2>5. found' \intersect Cycles = {}
    BY <1>5, <2>1, <2>2, <2>3, <2>4
  <2>6. Told'
    BY <1>5, <2>5 DEF Told
  <2>7. CycleCode' \notin found'
    BY <1>5, <2>5 DEF CycleCode
  <2>8. WalkTypes'
    BY <1>3, <1>5 DEF WalkTypes, Walking
  <2>9. CallsAreNested' /\ WalkIsTrue'
    BY <1>3, <2>7 DEF CallsAreNested, WalkIsTrue
  <2> QED BY <2>6, <2>8, <2>9 DEF Walks
<1> QED BY <1>4, <1>5 DEF ReadFiles

LEMMA TryingIsTried ==
  ASSUME WalkTypes, stack # <<>>, NEW name
  PROVE  HasTried(Append(Front(stack), [Last(stack) EXCEPT !.left = @ \ {name}]), name)
<1> DEFINE top == [stack[Len(stack)] EXCEPT !.left = @ \ {name}]
           calls == Append(Front(stack), top)
<1>1. stack \in Seq(Frames(Inspected))
  BY DEF WalkTypes
<1>2. PICK n \in Nat \ {0} : n = Len(stack) /\ DOMAIN stack = 1..n
  <2>1. Len(stack) \in Nat \ {0} /\ DOMAIN stack = 1..Len(stack)
    BY <1>1
  <2> QED BY <2>1
<1>3. stack[n] \in Frames(Inspected)
  BY <1>1, <1>2
<1>4. /\ top \in Frames(Inspected) /\ top.name = stack[n].name
      /\ top.left = stack[n].left \ {name}
  BY <1>2, <1>3 DEF Frames
<1> HIDE DEF top
<1>5. /\ Front(stack) \in Seq(Frames(Inspected)) /\ Len(Front(stack)) = n - 1
      /\ \A i \in 1..(n - 1) : Front(stack)[i] = stack[i]
  BY <1>1, <1>2 DEF Front
<1>6. /\ calls \in Seq(Frames(Inspected)) /\ Len(calls) = n /\ calls[n] = top
      /\ \A i \in 1..(n - 1) : calls[i] = stack[i]
  BY <1>2, <1>4, <1>5
<1> HIDE DEF calls
<1>7. \A i \in 1..n : i = n \/ i \in 1..(n - 1)
  BY <1>2
<1>8. HasTried(calls, name)
  BY <1>2, <1>4, <1>6, <1>7 DEF HasTried
<1> QED BY <1>8 DEF calls, top, Last

LEMMA VisitIsTold ==
  ASSUME Told, Walking, UNCHANGED <<checked, stage>>, NEW name, NEW calls, Visit(name, calls)
  PROVE  Told'
<1>1. found' = found \/ found' = found \union {CycleCode}
  BY DEF Visit
<1>2. Inspected' = Inspected
  BY DEF Inspected
<1>3. CASE stage = "packages"
  BY <1>1, <1>3 DEF Told, CycleCode
<1>4. CASE stage = "targets"
  <2>1. UsesOf' = UsesOf
    BY <1>2 DEF UsesOf
  <2>2. \A n : Imports(Inspected, n)' = Imports(Inspected, n)
    BY <1>2
  <2>3. found' # {} \/ found' = found
    BY <1>1
  <2>4. "WORKSPACE_DEPENDENCY_CYCLE" \in found' <=> "WORKSPACE_DEPENDENCY_CYCLE" \in found
    BY <1>1, <1>4 DEF CycleCode
  <2>5. PackagesAreTold
    BY <1>4 DEF Told
  <2>6. PackagesAreTold'
    BY <1>1, <1>2, <2>1, <2>2, <2>3, <2>4, <2>5 DEF PackagesAreTold
  <2> QED BY <1>4, <2>6 DEF Told
<1> QED BY <1>3, <1>4 DEF Walking

LEMMA RootKeepsWalk ==
  ASSUME Walks, Told, VisitRoot
  PROVE  Walks' /\ Told'
<1>1. Walking /\ stack = <<>> /\ UNCHANGED <<checked, stage>>
  BY DEF VisitRoot, Walking
<1>2. PICK name \in Roots(Inspected) : Visit(name, <<>>)
  BY DEF VisitRoot
<1>3. name \in AllNames(Inspected)
  BY DEF Roots, AllNames
<1>4. HasTried(<<>>, name)
  BY <1>1 DEF HasTried
<1> QED BY <1>1, <1>2, <1>3, <1>4, VisitKeepsWalk, VisitIsTold

LEMMA NextKeepsWalk ==
  ASSUME Walks, Told, VisitNext
  PROVE  Walks' /\ Told'
<1>1. stack # <<>> /\ UNCHANGED <<checked, stage>> /\ WalkTypes
  BY DEF VisitNext, Walks
<1>2. Walking
  BY <1>1 DEF WalkTypes
<1>3. PICK name \in Last(stack).left :
        Visit(name, Append(Front(stack), [Last(stack) EXCEPT !.left = @ \ {name}]))
  BY DEF VisitNext
<1>4. HasTried(Append(Front(stack), [Last(stack) EXCEPT !.left = @ \ {name}]), name)
  BY <1>1, TryingIsTried
<1> DEFINE calls == Append(Front(stack), [Last(stack) EXCEPT !.left = @ \ {name}])
<1> HIDE DEF calls
<1>5. HasTried(calls, name) /\ Visit(name, calls)
  BY <1>3, <1>4 DEF calls
<1>6. name \in Leads(stack[Len(stack)].name)
  <2>1. Len(stack) \in DOMAIN stack
    <3>1. stack \in Seq(Frames(Inspected))
      BY <1>1 DEF WalkTypes
    <3> QED BY <1>1, <3>1
  <2> QED BY <1>2, <1>3, <2>1 DEF Walks, CallsAreNested, Last
<1>7. name \in AllNames(Inspected)
  BY <1>6, SomebodyLeads
<1> QED BY <1>1, <1>2, <1>5, <1>6, <1>7, VisitKeepsWalk, VisitIsTold

\* At the end of the packages.
LEMMA PackagesEnd ==
  ASSUME Walks, stage = "packages", Roots(Inspected) \subseteq visited
  PROVE  "WORKSPACE_DEPENDENCY_CYCLE" \in found <=> Circular(UsesOf, Names(Inspected))
<1>1. Walking /\ CycleCode = "WORKSPACE_DEPENDENCY_CYCLE" /\ Roots(Inspected) = Names(Inspected)
  BY DEF Walking, CycleCode, Roots
<1>2. \A n \in Names(Inspected) : UsesOf[n] = Leads(n)
  BY DEF UsesOf, Leads, Needs
<1>3. \A n : Leads(n) # {} => n \in Names(Inspected)
  BY DEF Leads, Needs
<1>4. CASE CycleCode \in found
  <2>1. PICK around \in (SUBSET AllNames(Inspected)) \ {{}} : NoneIsFirst(around)
    BY <1>1, <1>4 DEF Walks, WalkIsTrue
  <2>2. around \subseteq Names(Inspected)
    BY <1>3, <2>1 DEF NoneIsFirst
  <2> QED BY <1>1, <1>2, <1>4, <2>1, <2>2 DEF NoneIsFirst, Circular
<1>5. CASE CycleCode \notin found
  <2> SUFFICES ASSUME NEW around \in (SUBSET Names(Inspected)) \ {{}},
                      \A n \in around : UsesOf[n] \intersect around # {}
               PROVE  FALSE
    BY <1>1, <1>5 DEF Circular
  <2>1. NoneIsFirst(around)
    BY <1>2 DEF NoneIsFirst
  <2> QED BY <1>1, <1>5, <2>1 DEF Walks, WalkIsTrue
<1> QED BY <1>4, <1>5

\* At the end of the targets.
LEMMA TargetsEnd ==
  ASSUME Walks, stage = "targets", Roots(Inspected) \subseteq visited
  PROVE  TargetsAreTold
<1>1. Walking /\ CycleCode = "CMAKE_DEPENDENCY_CYCLE" /\ Roots(Inspected) = Inspected.targets
  BY DEF Walking, CycleCode, Roots
<1>2. \A n \in Inspected.targets : LinksOf[n] \intersect Inspected.targets = Leads(n)
  BY DEF LinksOf, Leads, Needs
<1>3. \A n : Leads(n) \subseteq Inspected.targets
  BY DEF Leads, Needs
<1>4. CASE CycleCode \in found
  <2>1. PICK all \in (SUBSET AllNames(Inspected)) \ {{}} : NoneIsFirst(all)
    BY <1>1, <1>4 DEF Walks, WalkIsTrue
  <2> DEFINE around == all \intersect Inspected.targets
  <2>2. around # {}
    BY <1>3, <2>1 DEF NoneIsFirst
  <2>3. \A n \in around : LinksOf[n] \intersect around # {}
    BY <1>2, <1>3, <2>1 DEF NoneIsFirst
  <2> HIDE DEF around
  <2>4. around \subseteq Inspected.targets
    BY DEF around
  <2> QED BY <1>1, <1>4, <2>2, <2>3, <2>4 DEF Circular, TargetsAreTold
<1>5. CASE CycleCode \notin found
  <2> SUFFICES ASSUME NEW around \in (SUBSET Inspected.targets) \ {{}},
                      \A n \in around : LinksOf[n] \intersect around # {}
               PROVE  FALSE
    BY <1>1, <1>5 DEF Circular, TargetsAreTold
  <2>1. NoneIsFirst(around)
    BY <1>2 DEF NoneIsFirst
  <2> QED BY <1>1, <1>5, <2>1 DEF Walks, WalkIsTrue
<1> QED BY <1>4, <1>5

LEMMA EndKeepsWalk ==
  ASSUME Walks, Told, EndWalk
  PROVE  Walks' /\ Told'
<1>1. /\ Walking /\ stack = <<>> /\ Roots(Inspected) \subseteq visited
      /\ UNCHANGED <<checked, stack, visiting>> /\ visited' = {} /\ visiting = {}
  BY DEF EndWalk, Walking, Walks, WalkTypes
<1>2. Inspected' = Inspected /\ UsesOf' = UsesOf /\ LinksOf' = LinksOf
  BY <1>1 DEF Inspected, UsesOf, LinksOf
<1>3. CASE stage = "packages"
  <2>1. stage' = "targets" /\ found' = found \union ImportFaults(Inspected)
    BY <1>3 DEF EndWalk
  <2>2. ImportFaults(Inspected) \intersect {"WORKSPACE_DEPENDENCY_CYCLE", "CMAKE_DEPENDENCY_CYCLE"} = {}
    BY DEF ImportFaults, When
  <2>3. ImportFaults(Inspected) = {} =>
          \A n \in Names(Inspected) : Imports(Inspected, n) \subseteq UsesOf[n]
    BY DEF ImportFaults, When, UsesOf
  <2>4. "WORKSPACE_DEPENDENCY_CYCLE" \in found <=> Circular(UsesOf, Names(Inspected))
    BY <1>1, <1>3, PackagesEnd
  <2>5. PackagesAreTold'
    BY <1>2, <2>1, <2>2, <2>3, <2>4 DEF PackagesAreTold
  <2>6. "CMAKE_DEPENDENCY_CYCLE" \notin found'
    BY <1>3, <2>1, <2>2 DEF Told
  <2>7. WalkTypes'
    BY <1>1, <2>1 DEF WalkTypes, Walking
  <2>8. CallsAreNested' /\ WalkIsTrue'
    BY <1>1, <2>1, <2>6 DEF CallsAreNested, WalkIsTrue, CycleCode
  <2> QED BY <2>1, <2>5, <2>7, <2>8 DEF Told, Walks
<1>4. CASE stage = "targets"
  <2>1. stage' = "done" /\ found' = found
    BY <1>4 DEF EndWalk
  <2>2. TargetsAreTold /\ PackagesAreTold
    BY <1>1, <1>4, TargetsEnd DEF Told
  <2>3. TargetsAreTold' /\ PackagesAreTold'
    BY <1>2, <2>1, <2>2 DEF TargetsAreTold, PackagesAreTold
  <2>4. WalkTypes' /\ ~Walking'
    BY <1>1, <2>1 DEF WalkTypes, Walking
  <2> QED BY <2>1, <2>3, <2>4 DEF Told, Walks
<1> QED BY <1>1, <1>3, <1>4 DEF Walking

LEMMA StepKeepsWalk ==
  ASSUME Walks, Told, [WorkspaceNext]_workspace
  PROVE  Walks' /\ Told'
<1>1. CASE ReturnVisit
  <2>1. Walking /\ UNCHANGED <<checked, stage, found>>
    BY <1>1 DEF ReturnVisit, Walks, WalkTypes
  <2>2. Inspected' = Inspected
    BY <2>1 DEF Inspected
  <2>3. Told'
    BY <2>1, <2>2 DEF Told, PackagesAreTold, TargetsAreTold, UsesOf, LinksOf
  <2> QED BY <1>1, <2>1, <2>3, ReturnKeepsWalk
<1>2. CASE UNCHANGED workspace
  <2>1. UNCHANGED <<checked, stage, stack, visiting, visited, found>>
    BY <1>2 DEF workspace
  <2>2. Inspected' = Inspected
    BY <2>1 DEF Inspected
  <2>3. Told'
    BY <2>1, <2>2 DEF Told, PackagesAreTold, TargetsAreTold, UsesOf, LinksOf
  <2>4. Frames(Inspected)' = Frames(Inspected)
    BY <2>1, SameWorkspace DEF Frames
  <2>5. WalkTypes' /\ (CallsAreNested => CallsAreNested') /\ (WalkIsTrue => WalkIsTrue')
    BY <2>1, <2>4, SameWorkspace DEF Walks, WalkTypes, CallsAreNested, WalkIsTrue, NoneIsFirst
  <2> QED BY <2>1, <2>3, <2>5, SameWorkspace DEF Walks
<1> QED BY <1>1, <1>2, ReadingKeepsWalk, RootKeepsWalk, NextKeepsWalk, EndKeepsWalk DEF WorkspaceNext

\* Whatever packages, targets, sources and links a workspace has, and whatever order the
\* walks take, a cycle is reported exactly when there is one, and a workspace that is
\* reported clean can be built (validate.ts, visitPackage and visitTarget).
THEOREM WhatIsCleanBuilds == WorkspaceSpec => []CleanWorkspacesBuild
<1>1. Told => CleanWorkspacesBuild
  <2> SUFFICES ASSUME stage = "done", found # {"CLI_INTERNAL_ERROR"}, PackagesAreTold, TargetsAreTold
               PROVE  CleanWorkspacesBuild
    BY DEF Told, CleanWorkspacesBuild
  <2> DEFINE needs == [n \in Names(Inspected) |-> UsesOf[n] \union Imports(Inspected, n)]
  <2>1. ASSUME found = {} PROVE ~Circular(needs, Names(Inspected))
    <3>1. \A n \in Names(Inspected) : needs[n] = UsesOf[n]
      BY <2>1 DEF PackagesAreTold
    <3> HIDE DEF needs
    <3>2. ~Circular(UsesOf, Names(Inspected))
      BY <2>1 DEF PackagesAreTold
    <3> QED BY <3>1, <3>2 DEF Circular
  <2> QED BY <2>1, Zenon DEF CleanWorkspacesBuild, PackagesAreTold, TargetsAreTold, UsesOf, LinksOf
<1> QED BY <1>1, WorkspaceStarts, StepKeepsWalk, PTL DEF WorkspaceSpec

-----------------------------------------------------------------------------
Kept(c, so, next) == Keeping(so, next)
Tally == INSTANCE FoldLemmas WITH Op <- Kept

-----------------------------------------------------------------------------
(* Ways up, and generations down *)

Rising(up, so, next) == IF so \in DOMAIN up THEN up[so] ELSE None
Climbs == INSTANCE FoldLemmas WITH Op <- Rising

Growing(up, so, next) == so \union {x \in DOMAIN up : up[x] \in so}
Grows == INSTANCE FoldLemmas WITH Op <- Growing

Climbing(f, up, x, n) ==
  f[0] = x /\ \A i \in Nat : i + 1 <= n => f[i + 1] = Rising(up, f[i], i + 1)

LEMMA AboveSteps ==
  ASSUME NEW up, NEW x, NEW n \in Nat, Cardinality(DOMAIN up) = n
  PROVE  \E f : Climbing(f, up, x, n) /\ Above(up, x) = f[n]
<1> DEFINE seq == [i \in 1..n |-> i]
           IsWay(g) == g = [k \in 0..n |-> IF k = 0 THEN x
                                            ELSE IF g[k - 1] \in DOMAIN up THEN up[g[k - 1]] ELSE None]
<1>1. Above(up, x) = (CHOOSE g : IsWay(g))[n]
  BY Zenon DEF Above
<1>2. PICK f : Climbs!IsProgress(f, up, x, seq, n)
  BY Climbs!FoldIsProgress
<1>3. IsWay(f)
  BY <1>2 DEF Climbs!IsProgress, Rising
<1>4. PICK g : g = (CHOOSE h : IsWay(h))
  OBVIOUS
<1>5. IsWay(g)
  <2> HIDE DEF IsWay
  <2> QED BY <1>3, <1>4
<1>6. Climbing(g, up, x, n)
  <2>1. \A k \in 0..n : g[k] = IF k = 0 THEN x
                               ELSE IF g[k - 1] \in DOMAIN up THEN up[g[k - 1]] ELSE None
    BY <1>5
  <2> HIDE DEF IsWay
  <2>2. ASSUME NEW i \in Nat, i + 1 <= n
        PROVE  g[i + 1] = Rising(up, g[i], i + 1)
    <3>1. i + 1 \in 0..n /\ i + 1 # 0 /\ (i + 1) - 1 = i
      BY <2>2
    <3> QED BY <2>1, <3>1 DEF Rising
  <2>3. g[0] = x
    BY <2>1
  <2> QED BY <2>2, <2>3 DEF Climbing
<1> HIDE DEF IsWay
<1> QED BY <1>1, <1>4, <1>6

Spreading(f, up, root, n) ==
  f[0] = {root} /\ \A i \in Nat : i + 1 <= n => f[i + 1] = Growing(up, f[i], i + 1)

LEMMA GrownSteps ==
  ASSUME NEW up, NEW root, NEW n \in Nat, Cardinality(DOMAIN up) = n
  PROVE  \E f : Spreading(f, up, root, n) /\ Grown(up, root) = f[n]
<1> DEFINE seq == [i \in 1..n |-> i]
           IsWay(g) == g = [k \in 0..n |-> IF k = 0 THEN {root}
                                            ELSE g[k - 1] \union {x \in DOMAIN up : up[x] \in g[k - 1]}]
<1>1. Grown(up, root) = (CHOOSE g : IsWay(g))[n]
  BY Zenon DEF Grown
<1>2. PICK f : Grows!IsProgress(f, up, {root}, seq, n)
  BY Grows!FoldIsProgress
<1>3. IsWay(f)
  BY <1>2 DEF Grows!IsProgress, Growing
<1>4. PICK g : g = (CHOOSE h : IsWay(h))
  OBVIOUS
<1>5. IsWay(g)
  <2> HIDE DEF IsWay
  <2> QED BY <1>3, <1>4
<1>6. Spreading(g, up, root, n)
  <2>1. \A k \in 0..n : g[k] = IF k = 0 THEN {root}
                               ELSE g[k - 1] \union {x \in DOMAIN up : up[x] \in g[k - 1]}
    BY <1>5
  <2> HIDE DEF IsWay
  <2>2. ASSUME NEW i \in Nat, i + 1 <= n
        PROVE  g[i + 1] = Growing(up, g[i], i + 1)
    <3>1. i + 1 \in 0..n /\ i + 1 # 0 /\ (i + 1) - 1 = i
      BY <2>2
    <3> QED BY <2>1, <3>1 DEF Growing
  <2>3. 0 \in 0..n
    OBVIOUS
  <2>4. g[0] = {root}
    BY <2>1, <2>3, Zenon
  <2> QED BY <2>2, <2>4 DEF Spreading
<1> HIDE DEF IsWay
<1> QED BY <1>1, <1>4, <1>6

LEMMA TreesAreGrown ==
  ASSUME NEW up, NEW D, DOMAIN up = D, IsFiniteSet(D), None \notin D,
         \A x \in D : up[x] \in D \union {None}, ~HasCycle(up),
         NEW root \in D \union {None},
         \A x \in D : up[x] = None => root \in {None, x}
  PROVE  Grown(up, root) = D \union {root}
<1>1. PICK n \in Nat : Cardinality(DOMAIN up) = n
  BY FS_CardinalityType
<1>0. PICK g : Spreading(g, up, root, n) /\ Grown(up, root) = g[n]
  BY <1>1, GrownSteps
<1>2. /\ g[0] = {root}
      /\ \A i \in Nat : i + 1 <= n => g[i + 1] = Growing(up, g[i], i + 1)
      /\ Grown(up, root) = g[n]
  BY <1>0 DEF Spreading
<1>3. \A i \in Nat : i <= n => g[i] \subseteq D \union {root}
  <2> DEFINE S == {i \in Nat : i <= n => g[i] \subseteq D \union {root}}
  <2>1. 0 \in S
    BY <1>2
  <2>2. ASSUME NEW i \in Nat, i \in S
        PROVE  i + 1 \in S
    BY <1>2, <2>2 DEF Growing
  <2> HIDE DEF S
  <2>3. Nat \subseteq S
    BY <2>1, <2>2, Grows!Induction
  <2> QED BY <2>3 DEF S
<1>4. \A k \in Nat : k <= n => g[k] \subseteq g[n]
  <2> DEFINE S == {i \in Nat : i <= n => g[n - i] \subseteq g[n]}
  <2>1. 0 \in S
    OBVIOUS
  <2>2. ASSUME NEW i \in Nat, i \in S
        PROVE  i + 1 \in S
    <3>1. SUFFICES ASSUME i + 1 <= n
                   PROVE  g[n - (i + 1)] \subseteq g[n]
      OBVIOUS
    <3>2. n - (i + 1) \in Nat /\ (n - (i + 1)) + 1 = n - i
      BY <3>1
    <3>3. g[n - i] = Growing(up, g[n - (i + 1)], n - i)
      BY <1>2, <3>2
    <3> QED BY <2>2, <3>1, <3>3 DEF Growing
  <2> HIDE DEF S
  <2>3. Nat \subseteq S
    BY <2>1, <2>2, Grows!Induction
  <2>4. \A k \in Nat : k <= n => n - k \in Nat /\ n - k <= n /\ n - (n - k) = k
    OBVIOUS
  <2> QED BY <2>3, <2>4 DEF S
<1>5. root \in g[n]
  BY <1>2, <1>4
<1>6. ASSUME NEW x \in D
      PROVE  x \in g[n]
  <2>0. PICK f : Climbing(f, up, x, n) /\ Above(up, x) = f[n]
    BY <1>1, AboveSteps
  <2>1. /\ f[0] = x
        /\ \A i \in Nat : i + 1 <= n => f[i + 1] = Rising(up, f[i], i + 1)
        /\ Above(up, x) = f[n]
    BY <2>0 DEF Climbing
  <2> DEFINE Ends == {i \in Nat : i <= n /\ f[i] \notin D}
  <2>2. f[n] \notin D
    <3>1. Above(up, x) = None \/ Above(up, x) \notin D
      BY <1>6 DEF HasCycle
    <3> QED BY <2>1, <3>1
  <2>3. PICK m \in Ends : \A y \in Ends : m <= y
    <3>1. Ends \subseteq Nat /\ n \in Ends
      BY <2>2
    <3> HIDE DEF Ends
    <3> QED BY <3>1, Grows!LeastMember
  <2>4. m # 0 /\ m - 1 \in Nat /\ m <= n /\ (m - 1) + 1 = m
    BY <1>6, <2>1
  <2>5. \A i \in Nat : i < m => f[i] \in D
    BY <2>3, <2>4
  <2>6. f[m] = up[f[m - 1]] /\ f[m] = None
    <3>1. f[m - 1] \in D
      BY <2>4, <2>5
    <3>2. f[m] = up[f[m - 1]]
      BY <2>1, <2>4, <3>1 DEF Rising
    <3> QED BY <2>3, <3>1, <3>2
  <2>7. PICK k \in Nat : k <= m /\ f[k] = root
    <3>1. CASE root = None
      BY <2>6, <3>1
    <3>2. CASE root # None
      <4>1. f[m - 1] \in D /\ m - 1 <= m /\ m - 1 < m
        BY <2>4, <2>5
      <4>2. root = f[m - 1]
        BY <2>6, <3>2, <4>1
      <4> QED BY <2>4, <4>1, <4>2
    <3> QED BY <3>1, <3>2
  <2> DEFINE S == {j \in Nat : j <= k => f[k - j] \in g[j]}
  <2>8. 0 \in S
    BY <1>2, <2>7
  <2>9. ASSUME NEW j \in Nat, j \in S
        PROVE  j + 1 \in S
    <3>1. SUFFICES ASSUME j + 1 <= k
                   PROVE  f[k - (j + 1)] \in g[j + 1]
      OBVIOUS
    <3>2. k - (j + 1) \in Nat /\ (k - (j + 1)) + 1 = k - j /\ k - (j + 1) < m /\ j + 1 <= n /\ k - j <= n
      BY <2>4, <2>7, <3>1
    <3>3. f[k - (j + 1)] \in D
      BY <2>5, <3>2
    <3>4. f[k - j] = up[f[k - (j + 1)]]
      BY <2>1, <3>2, <3>3 DEF Rising
    <3>5. f[k - j] \in g[j]
      BY <2>9, <3>1
    <3>6. g[j + 1] = Growing(up, g[j], j + 1)
      BY <1>2, <3>2
    <3> QED BY <3>3, <3>4, <3>5, <3>6 DEF Growing
  <2> HIDE DEF S
  <2>10. Nat \subseteq S
    BY <2>8, <2>9, Grows!Induction
  <2>11. f[k - k] \in g[k]
    BY <2>10 DEF S
  <2>12. k <= n
    BY <2>4, <2>7
  <2> QED BY <1>4, <2>1, <2>11, <2>12
<1> QED BY <1>2, <1>3, <1>5, <1>6

-----------------------------------------------------------------------------
(* The graph that compiles *)

LEMMA ListsAreLists ==
  ASSUME NEW s, IsList(s)
  PROVE  \E n \in Nat : n = Len(s) /\ DOMAIN s = 1..n
<1>1. PICK S : S = Members(s)
  OBVIOUS
<1>2. s \in Seq(S)
  BY <1>1 DEF IsList
<1> QED BY <1>2

LEMMA ImagesAreFinite ==
  ASSUME NEW S, IsFiniteSet(S), NEW f, DOMAIN f = S, NEW T, T = {f[x] : x \in S}
  PROVE  IsFiniteSet(T)
<1>1. PICK g : g = [x \in S |-> f[x]]
  OBVIOUS
<1>2. g \in Surjection(S, T)
  BY <1>1, Zenon DEF Surjection
<1> QED BY <1>2, FS_Surjection

LEMMA MembersAreFinite ==
  ASSUME NEW s, IsList(s)
  PROVE  IsFiniteSet(Members(s)) /\ IsFiniteSet(Ids(s)) /\ IsFiniteSet(Documents(s))
         /\ IsFiniteSet({d.id : d \in Documents(s)})
<1>1. PICK n \in Nat : n = Len(s) /\ DOMAIN s = 1..n
  BY ListsAreLists
<1>2. IsFiniteSet(1..n)
  BY FS_Interval
<1>3. IsFiniteSet(Members(s))
  <2>1. PICK T : T = Members(s)
    OBVIOUS
  <2>2. T = {s[x] : x \in 1..n}
    BY <1>1, <2>1 DEF Members
  <2> QED BY <1>1, <1>2, <2>1, <2>2, ImagesAreFinite
<1>4. IsFiniteSet(Ids(s))
  <2>1. PICK T : T = Ids(s)
    OBVIOUS
  <2>2. PICK f : f = [i \in 1..n |-> s[i].id]
    OBVIOUS
  <2>3. T = {f[x] : x \in 1..n}
    BY <1>1, <2>1, <2>2 DEF Members, Ids
  <2> QED BY <1>1, <1>2, <2>1, <2>2, <2>3, ImagesAreFinite
<1>5. IsFiniteSet(Documents(s))
  <2>1. PICK T : T = Documents(s)
    OBVIOUS
  <2>2. PICK f : f = [i \in 1..n |-> s[i].document]
    OBVIOUS
  <2>3. T = {f[x] : x \in 1..n}
    BY <1>1, <2>1, <2>2 DEF Members, Documents
  <2> QED BY <1>1, <1>2, <2>1, <2>2, <2>3, ImagesAreFinite
<1>6. IsFiniteSet({d.id : d \in Documents(s)})
  <2>1. PICK T : T = {d.id : d \in Documents(s)}
    OBVIOUS
  <2>2. PICK f : f = [i \in 1..n |-> s[i].document.id]
    OBVIOUS
  <2>3. T = {f[x] : x \in 1..n}
    BY <1>1, <2>1, <2>2 DEF Members, Documents
  <2>4. IsFiniteSet(T)
    BY <1>1, <1>2, <2>2, <2>3, ImagesAreFinite
  <2> QED BY <2>1, <2>4
<1> QED BY <1>3, <1>4, <1>5, <1>6

\* A document the compiler finds no fault with is a tree, from its root to every node.
LEMMA NodesAreTrees ==
  ASSUME NEW document, IsList(document.nodes), None \notin Ids(document.nodes),
         NodeFaults(document) = {}
  PROVE  Grown(ParentOf(document), document.root) = Ids(document.nodes)
<1>1. PICK D : D = Ids(document.nodes)
  OBVIOUS
<1>2. PICK up : up = ParentOf(document)
  OBVIOUS
<1>3. PICK nodes : nodes = Members(document.nodes)
  OBVIOUS
<1>4. IsFiniteSet(D)
  BY <1>1, MembersAreFinite
<1>5. D = {node.id : node \in nodes}
  BY <1>1, <1>3 DEF Ids
<1>6. /\ document.root \in D
      /\ \A node \in nodes : /\ node.id # document.root => node.parent # None
                             /\ node.parent = None \/ node.parent \in D
                             /\ node.id = document.root => node.parent = None
      /\ ~HasCycle(up)
  BY <1>1, <1>2, <1>3 DEF NodeFaults, Check
<1>7. DOMAIN up = D /\ \A x \in D : up[x] = NodeWith(document, x).parent
  BY <1>1, <1>2 DEF ParentOf
<1>8. \A x \in D : NodeWith(document, x) \in nodes /\ NodeWith(document, x).id = x
  BY <1>3, <1>5, Zenon DEF NodeWith
<1>9. \A x \in D : up[x] \in D \union {None} /\ (up[x] = None => document.root \in {None, x})
  BY <1>6, <1>7, <1>8
<1>10. Grown(up, document.root) = D \union {document.root}
  BY <1>1, <1>4, <1>6, <1>7, <1>9, TreesAreGrown
<1> QED BY <1>1, <1>2, <1>6, <1>10

\* Prefabs the compiler finds no fault with have bases up to one without.
LEMMA BasesAreTrees ==
  ASSUME NEW prefabs, IsFiniteSet({p.id : p \in prefabs}), \A p \in prefabs : p.id # None,
         BaseFaults(prefabs) = {}
  PROVE  Grown(BaseOf(prefabs), None) = DOMAIN BaseOf(prefabs) \union {None}
<1>1. PICK D : D = {p.id : p \in prefabs}
  OBVIOUS
<1>2. PICK up : up = BaseOf(prefabs)
  OBVIOUS
<1>3. DOMAIN up = D /\ \A x \in D : up[x] = (CHOOSE p \in prefabs : p.id = x).base
  BY <1>1, <1>2 DEF BaseOf
<1>4. (\A p \in prefabs : p.base \in D \union {None}) /\ ~HasCycle(up)
  BY <1>2, <1>3 DEF BaseFaults, Check
<1>5. \A x \in D : (CHOOSE p \in prefabs : p.id = x) \in prefabs
  BY <1>1, Zenon
<1>6. \A x \in D : up[x] \in D \union {None}
  BY <1>3, <1>4, <1>5
<1>7. None \notin D
  BY <1>1
<1>8. Grown(up, None) = D \union {None}
  BY <1>1, <1>3, <1>4, <1>6, <1>7, TreesAreGrown
<1> QED BY <1>2, <1>3, <1>8

\* Lists of sources whose documents are in the shape their readers rely on.
Lists(scenes, prefabs) ==
  /\ IsList(scenes) /\ IsList(prefabs)
  /\ \A file \in Members(scenes) \union Members(prefabs) :
       IsList(file.document.nodes) /\ None \notin Ids(file.document.nodes)
  /\ \A file \in Members(prefabs) : file.document.id # None

\* What GraphsAreTrees says of the scenes and prefabs of a pack.
GraphIsSound(scenes, prefabs) ==
  /\ \A document \in Documents(scenes) \union Documents(prefabs) :
       Grown(ParentOf(document), document.root) = Ids(document.nodes)
  /\ Grown(BaseOf(Documents(prefabs)), None) = DOMAIN BaseOf(Documents(prefabs)) \union {None}
  /\ \A document \in Documents(scenes) : \A node \in Members(document.nodes) :
       node.prefab \in DOMAIN BaseOf(Documents(prefabs)) \union {None}

LEMMA CompiledGraphsAreSound ==
  ASSUME NEW scenes, NEW prefabs, Lists(scenes, prefabs), SceneGraphFaults(scenes, prefabs) = {}
  PROVE  GraphIsSound(scenes, prefabs)
<1>1. PICK resources : /\ \A p \in Documents(prefabs) : PrefabFaults(p, resources) = {}
                       /\ BaseFaults(Documents(prefabs)) = {}
                       /\ \A s \in Documents(scenes) : NodeFaults(s) = {}
                            /\ InstanceFaults(s, Documents(prefabs)) = {}
  <2>1. PICK resources : resources = UNION {Members(document.resources)
                                            : document \in Documents(scenes \o prefabs)}
    OBVIOUS
  <2>2. (UNION {PrefabFaults(p, resources) : p \in Documents(prefabs)})
          \union BaseFaults(Documents(prefabs))
          \union UNION {NodeFaults(s) \union ComponentFaults(s, resources)
                          \union InstanceFaults(s, Documents(prefabs)) : s \in Documents(scenes)} = {}
    BY <2>1, Zenon DEF SceneGraphFaults
  <2>3. \A p \in Documents(prefabs) : PrefabFaults(p, resources) = {}
    BY <2>2
  <2>4. \A s \in Documents(scenes) : NodeFaults(s) = {} /\ InstanceFaults(s, Documents(prefabs)) = {}
    BY <2>2
  <2> QED BY <2>2, <2>3, <2>4
<1>2. \A document \in Documents(scenes) \union Documents(prefabs) : NodeFaults(document) = {}
  BY <1>1 DEF PrefabFaults
<1>3. \A document \in Documents(scenes) \union Documents(prefabs) :
        IsList(document.nodes) /\ None \notin Ids(document.nodes)
  BY DEF Lists, Documents
<1>4. \A document \in Documents(scenes) \union Documents(prefabs) :
        Grown(ParentOf(document), document.root) = Ids(document.nodes)
  BY <1>2, <1>3, NodesAreTrees
<1>5. Grown(BaseOf(Documents(prefabs)), None) = DOMAIN BaseOf(Documents(prefabs)) \union {None}
  <2>1. IsFiniteSet({p.id : p \in Documents(prefabs)})
    BY MembersAreFinite DEF Lists
  <2>2. \A p \in Documents(prefabs) : p.id # None
    BY DEF Lists, Documents
  <2> QED BY <1>1, <2>1, <2>2, BasesAreTrees
<1>6. ASSUME NEW document \in Documents(scenes), NEW node \in Members(document.nodes)
      PROVE  node.prefab \in DOMAIN BaseOf(Documents(prefabs)) \union {None}
  <2>1. InstanceFaults(document, Documents(prefabs)) = {}
    BY <1>1
  <2>2. node.prefab = None \/ node.prefab \in {p.id : p \in Documents(prefabs)}
    BY <2>1 DEF InstanceFaults
  <2> QED BY <2>2 DEF BaseOf
<1> QED BY <1>4, <1>5, <1>6 DEF GraphIsSound

LEMMA NoGraphIsSound == GraphIsSound(<<>>, <<>>)
<1>1. Documents(<<>>) = {} /\ Members(<<>>) = {}
  BY DEF Documents, Members
<1>2. PICK up : up = BaseOf({})
  OBVIOUS
<1>3. PICK D : D = DOMAIN up
  OBVIOUS
<1>4. D = {}
  BY <1>2, <1>3 DEF BaseOf
<1>5. IsFiniteSet(D)
  BY <1>4, FS_EmptySet
<1>6. ~HasCycle(up)
  BY <1>3, <1>4 DEF HasCycle
<1>7. Grown(up, None) = D \union {None}
  BY <1>3, <1>4, <1>5, <1>6, TreesAreGrown
<1> QED BY <1>1, <1>2, <1>3, <1>7 DEF GraphIsSound

-----------------------------------------------------------------------------
(* What is parsed *)

LEMMA ParsedIsFolded ==
  ASSUME NEW s
  PROVE  Parsed(s) = Tally!Folded(0, <<>>, s)
BY Zenon DEF Parsed, FoldLeft, MapThenFoldSet, Max, Kept,
   Tally!Folded, Tally!FoldLeft, Tally!MapThenFoldSet, Tally!Max

LEMMA ParsedIsAList ==
  ASSUME NEW s, IsList(s)
  PROVE  IsList(Parsed(s)) /\ Members(Parsed(s)) \subseteq Members(s)
<1>1. PICK S : S = Members(s)
  OBVIOUS
<1>2. s \in Seq(S) /\ <<>> \in Seq(S)
  BY <1>1 DEF IsList
<1>3. \A so \in Seq(S), next \in S : Kept(0, so, next) \in Seq(S)
  BY DEF Kept, Keeping
<1>4. PICK r : r = Parsed(s)
  OBVIOUS
<1>5. r \in Seq(S)
  BY <1>2, <1>3, <1>4, ParsedIsFolded, Tally!FoldStaysIn
<1>6. Members(r) \subseteq S
  BY <1>5 DEF Members
<1>7. r \in Seq(Members(r))
  <2>1. \A i \in 1..Len(r) : r[i] \in Members(r)
    BY <1>5 DEF Members
  <2> QED BY <1>5, <2>1, SeqMonotonic
<1> QED BY <1>1, <1>4, <1>6, <1>7 DEF IsList

LEMMA ParsedOfReadable ==
  ASSUME NEW s, IsList(s), \A file \in Members(s) : file.place # "missing" /\ file.parses
  PROVE  Parsed(s) = s
<1>1. PICK S : S = Members(s)
  OBVIOUS
<1>2. s \in Seq(S)
  BY <1>1 DEF IsList
<1>3. PICK n \in Nat : n = Len(s) /\ DOMAIN s = 1..n
  BY <1>2
<1>4. PICK f : Tally!IsProgress(f, 0, <<>>, s, n) /\ Tally!Folded(0, <<>>, s) = f[n]
  BY <1>3, Tally!FoldIsProgress
<1>5. f[0] = <<>> /\ \A i \in Nat : i + 1 <= n => f[i + 1] = Kept(0, f[i], s[i + 1])
  BY <1>4, Tally!ProgressSteps
<1> DEFINE I == {i \in Nat : i <= n => /\ f[i] \in Seq(S) /\ Len(f[i]) = i
                                       /\ \A j \in 1..i : f[i][j] = s[j]}
<1>6. 0 \in I
  <2>1. <<>> \in Seq(S) /\ Len(<<>>) = 0 /\ 1..0 = {}
    OBVIOUS
  <2>2. f[0] \in Seq(S) /\ Len(f[0]) = 0
    BY <1>5, <2>1
  <2> QED BY <2>1, <2>2
<1>7. ASSUME NEW i \in Nat, i \in I
      PROVE  i + 1 \in I
  <2>1. SUFFICES ASSUME i + 1 <= n
                 PROVE  /\ f[i + 1] \in Seq(S) /\ Len(f[i + 1]) = i + 1
                        /\ \A j \in 1..(i + 1) : f[i + 1][j] = s[j]
    OBVIOUS
  <2>2. s[i + 1] \in S
    BY <1>2, <1>3, <2>1
  <2>3. f[i + 1] = Append(f[i], s[i + 1])
    BY <1>1, <1>5, <2>1, <2>2 DEF Kept, Keeping
  <2>4. f[i] \in Seq(S) /\ Len(f[i]) = i /\ \A j \in 1..i : f[i][j] = s[j]
    BY <1>7, <2>1
  <2> HIDE DEF I
  <2> QED BY <2>2, <2>3, <2>4
<1> HIDE DEF I
<1>8. Nat \subseteq I
  BY <1>6, <1>7, Tally!Induction
<1>9. f[n] \in Seq(S) /\ Len(f[n]) = n /\ \A j \in 1..n : f[n][j] = s[j]
  BY <1>8 DEF I
<1>10. f[n] = s
  BY <1>2, <1>3, <1>9, SeqEqual
<1> QED BY <1>4, <1>10, ParsedIsFolded

-----------------------------------------------------------------------------
(* What is packed *)

LEMMA PacksAreSound ==
  ASSUME NEW p, WellRead(p)
  PROVE  GraphIsSound(PackOf(p).scenes, PackOf(p).prefabs)
<1>1. PICK scenes, prefabs : scenes = Parsed(p.scenes) /\ prefabs = Parsed(p.prefabs)
  OBVIOUS
<1>2. CASE GraphFaults(p) # {}
  <2>1. PackOf(p).scenes = <<>> /\ PackOf(p).prefabs = <<>>
    BY <1>2 DEF PackOf
  <2> QED BY <2>1, NoGraphIsSound
<1>3. CASE GraphFaults(p) = {}
  <2>1. PackOf(p).scenes = scenes /\ PackOf(p).prefabs = prefabs
    BY <1>1, <1>3 DEF PackOf
  <2>2. /\ IsList(scenes) /\ IsList(prefabs)
        /\ Members(scenes) \subseteq Members(p.scenes) /\ Members(prefabs) \subseteq Members(p.prefabs)
    BY <1>1, ParsedIsAList DEF WellRead
  <2>3. Lists(scenes, prefabs)
    BY <2>2 DEF Lists, WellRead
  <2>4. CASE scenes \o prefabs = <<>>
    <3>1. scenes = <<>> /\ prefabs = <<>>
      <4>1. scenes \in Seq(Members(scenes)) /\ prefabs \in Seq(Members(prefabs))
        BY <2>2 DEF IsList
      <4> QED BY <2>4, <4>1
    <3> QED BY <2>1, <3>1, NoGraphIsSound
  <2>5. CASE scenes \o prefabs # <<>>
    <3>1. SceneGraphFaults(scenes, prefabs) = {}
      BY <1>1, <1>3, <2>5 DEF GraphFaults
    <3> QED BY <2>1, <2>3, <3>1, CompiledGraphsAreSound
  <2> QED BY <2>4, <2>5
<1> QED BY <1>2, <1>3

-----------------------------------------------------------------------------
(* Readers that stop ring the first fault *)

LEMMA EarliestOfNone ==
  ASSUME NEW stages, \A i \in DOMAIN stages : stages[i] = {}
  PROVE  Earliest(stages) = {}
BY DEF Earliest

LEMMA EarliestIsEmpty ==
  ASSUME NEW stages, NEW n \in Nat, DOMAIN stages = 1..n, Earliest(stages) = {}
  PROVE  \A i \in 1..n : stages[i] = {}
<1>1. PICK failed : failed = {i \in DOMAIN stages : stages[i] # {}}
  OBVIOUS
<1>2. SUFFICES ASSUME failed # {}
               PROVE  FALSE
  BY <1>1
<1>3. failed \subseteq Nat
  BY <1>1
<1>4. \E i \in failed : \A j \in failed : i <= j
  BY <1>2, <1>3, Tally!LeastMember
<1>5. PICK first : first = CHOOSE i \in failed : \A j \in failed : i <= j
  OBVIOUS
<1>6. first \in failed
  BY <1>4, <1>5
<1>7. Earliest(stages) = stages[first]
  BY <1>1, <1>2, <1>5 DEF Earliest
<1> QED BY <1>1, <1>6, <1>7

-----------------------------------------------------------------------------
(* What a renderer makes of a view model *)

Selects == INSTANCE FoldLemmas WITH Op <- Selecting

LEMMA RingsAreLists ==
  ASSUME NEW projector, IsList(projector.order)
  PROVE  Len(Ring(projector)) \in Nat
<1>1. PICK S, T : S = Members(projector.order) /\ T = Seq(S)
  OBVIOUS
<1>2. projector.order \in Seq(S) /\ <<>> \in T
  BY <1>1 DEF IsList
<1>3. \A so \in T, next \in S : Selecting(projector.inputs, so, next) \in T
  <2>1. \A so \in Seq(S), next \in S : Selecting(projector.inputs, so, next) \in Seq(S)
    BY DEF Selecting
  <2> QED BY <1>1, <2>1, Zenon
<1>4. Selects!Folded(projector.inputs, <<>>, projector.order) \in T
  BY <1>2, <1>3, Selects!FoldStaysIn
<1>5. Ring(projector) = Selects!Folded(projector.inputs, <<>>, projector.order)
  BY Zenon DEF Ring, FoldLeft, MapThenFoldSet, Max,
     Selects!Folded, Selects!FoldLeft, Selects!MapThenFoldSet, Selects!Max
<1> QED BY <1>1, <1>4, <1>5

\* Whatever a projector declares, a headless renderer whose buttons are tall enough shows
\* it as it is meant.
LEMMA RenderingIsFaithful ==
  ASSUME NEW projector, IsList(projector.order), NEW touch, ~(touch > HeadlessButton)
  PROVE  RenderedFaults(ViewModel(projector), HeadlessSnapshot(ViewModel(projector)), touch) = {}
<1>1. PICK actions : actions = Ring(projector)
  OBVIOUS
<1>2. PICK n \in Nat : n = Len(actions)
  BY <1>1, RingsAreLists
<1>3. PICK ring : ring = [i \in 1..n |-> InputKey(actions[i])]
  OBVIOUS
<1>4. PICK focus : focus = IF n = 0 THEN NoKey ELSE InputKey(actions[1])
  OBVIOUS
<1>5. PICK nodes : nodes = {Node("status", StatusKey, NoKey, NoKey)}
          \union {Node("status", StateKey(id), NoKey, NoKey) : id \in projector.states}
          \union {Node("button", InputKey(actions[i]), InputKey(actions[(i % n) + 1]),
                       InputKey(actions[((i + n - 2) % n) + 1])) : i \in 1..n}
  OBVIOUS
<1>6. PICK model : model = ViewModel(projector)
  OBVIOUS
<1>7. model = [focus |-> focus, nodes |-> nodes]
  BY <1>1, <1>2, <1>4, <1>5, <1>6, Zenon DEF ViewModel
<1>8. PICK buttons : buttons = {node.id : node \in {m \in nodes : m.role = "button"}}
  OBVIOUS
<1>9. \A node \in nodes : /\ node.role \in {"status", "button"}
                          /\ node.role = "button" <=> node.id[1] = "input"
  BY <1>5 DEF Node, StatusKey, StateKey, InputKey
<1>10. \A i \in 1..n : ring[i] \in buttons
  <2>1. ASSUME NEW i \in 1..n
        PROVE  ring[i] \in buttons
    <3>1. PICK node : node = Node("button", InputKey(actions[i]), InputKey(actions[(i % n) + 1]),
                                  InputKey(actions[((i + n - 2) % n) + 1]))
      OBVIOUS
    <3>2. node \in nodes /\ node.role = "button" /\ node.id = ring[i]
      BY <1>3, <1>5, <3>1 DEF Node
    <3> QED BY <1>8, <3>2
  <2> QED BY <2>1
<1>11. \A node \in nodes : node.role = "button" => {node.next, node.previous} \subseteq buttons
  <2>1. ASSUME NEW node \in nodes, node.role = "button"
        PROVE  {node.next, node.previous} \subseteq buttons
    <3>1. PICK i \in 1..n : node = Node("button", InputKey(actions[i]), InputKey(actions[(i % n) + 1]),
                                        InputKey(actions[((i + n - 2) % n) + 1]))
      BY <1>5, <2>1 DEF Node
    <3>2. (i % n) + 1 \in 1..n /\ ((i + n - 2) % n) + 1 \in 1..n
      <4>1. n > 0 /\ i \in Int /\ i + n - 2 \in Int
        OBVIOUS
      <4>2. i % n \in 0..(n - 1) /\ (i + n - 2) % n \in 0..(n - 1)
        BY <4>1
      <4> QED BY <4>1, <4>2
    <3>3. node.next = ring[(i % n) + 1] /\ node.previous = ring[((i + n - 2) % n) + 1]
      BY <1>3, <3>1, <3>2 DEF Node
    <3> QED BY <1>10, <3>2, <3>3
  <2> QED BY <2>1
<1>12. PICK snapshot : snapshot = HeadlessSnapshot(model)
  OBVIOUS
<1>13. snapshot = {[id |-> node.id, role |-> node.role, focused |-> focus = node.id,
                    height |-> IF node.role = "button" THEN HeadlessButton ELSE 0] : node \in nodes}
  BY <1>7, <1>12 DEF HeadlessSnapshot
<1>14. \A r \in snapshot : \E node \in nodes :
         /\ r.id = node.id /\ r.role = node.role /\ r.focused = (focus = r.id)
         /\ node.role = "button" => r.height = HeadlessButton
  <2>1. ASSUME NEW r \in snapshot
        PROVE  \E node \in nodes :
                 /\ r.id = node.id /\ r.role = node.role /\ r.focused = (focus = r.id)
                 /\ node.role = "button" => r.height = HeadlessButton
    <3>1. PICK node \in nodes :
            r = [id |-> node.id, role |-> node.role, focused |-> focus = node.id,
                 height |-> IF node.role = "button" THEN HeadlessButton ELSE 0]
      BY <1>13, Zenon
    <3>2. r.id = node.id /\ r.role = node.role
      BY <3>1, Zenon
    <3>3. r.focused = (focus = node.id)
      BY <3>1, Zenon
    <3>4. node.role = "button" => r.height = HeadlessButton
      BY <3>1, Zenon
    <3> QED BY <3>2, <3>3, <3>4, Zenon
  <2> QED BY <2>1
<1>15. \A node \in nodes : \E r \in snapshot : r.id = node.id
  <2>1. ASSUME NEW node \in nodes
        PROVE  \E r \in snapshot : r.id = node.id
    <3>1. PICK r : r = [id |-> node.id, role |-> node.role, focused |-> focus = node.id,
                        height |-> IF node.role = "button" THEN HeadlessButton ELSE 0]
      BY Zenon
    <3>2. r \in snapshot
      BY <1>13, <3>1, Zenon
    <3>3. r.id = node.id
      BY <3>1, Zenon
    <3> QED BY <3>2, <3>3
  <2> QED BY <2>1
<1>16. ASSUME NEW r \in snapshot, NEW node \in nodes, r.id = node.id
       PROVE  r.role = node.role /\ (node.role = "button" => ~(r.height < touch))
  <2>1. PICK m \in nodes : r.id = m.id /\ r.role = m.role /\ (m.role = "button" => r.height = HeadlessButton)
    BY <1>14
  <2>2. m.role = node.role
    BY <1>9, <1>16, <2>1
  <2> QED BY <2>1, <2>2
<1>17. RenderedFaults(model, snapshot, touch) = {}
  <2>1. model.nodes = nodes /\ model.focus = focus
    BY <1>7
  <2>2. buttons = {node.id : node \in {m \in model.nodes : m.role = "button"}}
    BY <1>8, <2>1
  <2>3. ~\E r \in snapshot : r.id \notin {m.id : m \in nodes}
    BY <1>14
  <2>4. ~\E m \in nodes : {r \in snapshot : r.id = m.id} = {}
    BY <1>15
  <2>5. ~\E m \in nodes : \E r \in {s \in snapshot : s.id = m.id} : r.role # m.role
    BY <1>16
  <2>6. ~\E m \in nodes : m.role = "button" /\ ~({m.next, m.previous} \subseteq buttons)
    BY <1>11
  <2>7. ~\E m \in nodes : m.role = "button" /\ \E r \in {s \in snapshot : s.id = m.id} : r.height < touch
    BY <1>16
  <2>8. ~\E r \in snapshot : r.focused # (focus = r.id)
    BY <1>14
  <2> QED BY <2>1, <2>2, <2>3, <2>4, <2>5, <2>6, <2>7, <2>8 DEF RenderedFaults, Check
<1> QED BY <1>6, <1>12, <1>17

-----------------------------------------------------------------------------
(* What validates *)

LEMMA EarliestOfTwo ==
  ASSUME NEW a, NEW b, Earliest(<<a, b>>) = {}
  PROVE  a = {} /\ b = {}
<1>1. PICK stages : stages = <<a, b>>
  OBVIOUS
<1>2. DOMAIN stages = 1..2
  BY <1>1
<1>3. \A i \in 1..2 : stages[i] = {}
  BY <1>1, <1>2, EarliestIsEmpty
<1> QED BY <1>1, <1>3

LEMMA EarliestOfFour ==
  ASSUME NEW a, NEW b, NEW c, NEW d, Earliest(<<a, b, c, d>>) = {}
  PROVE  a = {} /\ b = {} /\ c = {} /\ d = {}
<1>1. PICK stages : stages = <<a, b, c, d>>
  OBVIOUS
<1>2. DOMAIN stages = 1..4
  BY <1>1
<1>3. \A i \in 1..4 : stages[i] = {}
  BY <1>1, <1>2, EarliestIsEmpty
<1> QED BY <1>1, <1>3

LEMMA EarliestOfSeven ==
  ASSUME NEW a, NEW b, NEW c, NEW d, NEW e, NEW f, NEW g, Earliest(<<a, b, c, d, e, f, g>>) = {}
  PROVE  a = {} /\ b = {} /\ c = {} /\ d = {} /\ e = {} /\ f = {} /\ g = {}
<1>1. PICK stages : stages = <<a, b, c, d, e, f, g>>
  OBVIOUS
<1>2. DOMAIN stages = 1..7
  BY <1>1
<1>3. \A i \in 1..7 : stages[i] = {}
  BY <1>1, <1>2, EarliestIsEmpty
<1> QED BY <1>1, <1>3

LEMMA FirstsOfDistinct ==
  ASSUME NEW s, IsList(s), Distinct(s)
  PROVE  Firsts(s) = Members(s)
<1>1. PICK n \in Nat : n = Len(s) /\ DOMAIN s = 1..n
  BY ListsAreLists
<1>2. \A i, j \in 1..n : s[i].id = s[j].id => i = j
  BY <1>1 DEF Distinct
<1>3. \A j \in 1..n : \A k \in 1..(j - 1) : k \in 1..n /\ k # j
  OBVIOUS
<1>4. \A j \in 1..n : \A k \in 1..(j - 1) : s[k].id # s[j].id
  BY <1>2, <1>3
<1>5. {j \in DOMAIN s : \A k \in 1..(j - 1) : s[k].id # s[j].id} = DOMAIN s
  BY <1>1, <1>4
<1> QED BY <1>5 DEF Firsts, Members

LEMMA SequencesAreLists ==
  ASSUME NEW S, NEW s \in Seq(S)
  PROVE  IsList(s)
<1>1. \A i \in 1..Len(s) : s[i] \in Members(s)
  BY DEF Members
<1> QED BY <1>1, SeqMonotonic DEF IsList

LEMMA ListsConcatenate ==
  ASSUME NEW s, NEW t, IsList(s), IsList(t)
  PROVE  IsList(s \o t) /\ Members(s) \subseteq Members(s \o t) /\ Members(t) \subseteq Members(s \o t)
<1>1. PICK S : S = Members(s) \union Members(t)
  OBVIOUS
<1>2. s \in Seq(Members(s)) /\ t \in Seq(Members(t))
  BY DEF IsList
<1>3. (\A i \in 1..Len(s) : s[i] \in S) /\ (\A i \in 1..Len(t) : t[i] \in S)
  BY <1>1, <1>2
<1>4. s \in Seq(S) /\ t \in Seq(S)
  BY <1>2, <1>3, SeqMonotonic
<1>5. PICK u : u = s \o t
  OBVIOUS
<1>6. u \in Seq(S)
  BY <1>4, <1>5
<1>7. \A i \in DOMAIN s : i \in DOMAIN u /\ u[i] = s[i]
  BY <1>4, <1>5
<1>8. \A i \in DOMAIN t : Len(s) + i \in DOMAIN u /\ u[Len(s) + i] = t[i]
  BY <1>4, <1>5
<1>9. Members(s) \subseteq Members(u)
  BY <1>7 DEF Members
<1>10. Members(t) \subseteq Members(u)
  BY <1>8 DEF Members
<1> QED BY <1>5, <1>6, <1>9, <1>10, SequencesAreLists

LEMMA ValidHasNoFault ==
  ASSUME NEW p, ValidateFaults(p) = {}
  PROVE  /\ p.manifest \notin {"missing", "unparsable"}
         /\ UiPolicyFaults(p) = {} /\ DeclarationFaults(p) = {} /\ ContentFaults(p) = {}
         /\ CompositionFaults(p) = {} /\ ScenarioFaults(p) = {}
<1>1. PICK a, b, c, d :
        /\ a = Check(p.manifest = "missing", "GAME_MANIFEST_UNREADABLE")
        /\ b = Check(p.manifest = "unparsable", "GAME_JSONC_INVALID")
        /\ c = Check(p.manifest = "unshaped", "GAME_SCHEMA_INVALID")
        /\ d = ContractFaults(p) \union UiPolicyFaults(p) \union DeclarationFaults(p) \union ContentFaults(p)
                 \union SpatialFaults(p) \union CompositionFaults(p) \union EventFaults(p) \union MediaFaults(p)
                 \union ScenarioFaults(p)
  OBVIOUS
<1>2. Earliest(<<a, b, c, d>>) = {}
  BY <1>1, Zenon DEF ValidateFaults
<1>3. a = {} /\ b = {} /\ d = {}
  BY <1>2, EarliestOfFour
<1>4. p.manifest # "missing" /\ p.manifest # "unparsable"
  BY <1>1, <1>3 DEF Check
<1> QED BY <1>1, <1>3, <1>4

LEMMA ValidContentIsRead ==
  ASSUME NEW p, IsList(p.content), ContentFaults(p) = {}
  PROVE  \A d \in Members(p.content) : d.place # "missing" /\ d.parses
<1>1. Distinct(p.content) /\ \A d \in Firsts(p.content) : DescriptorFaults(p, d) = {}
  BY DEF ContentFaults, Check
<1>2. Firsts(p.content) = Members(p.content)
  BY <1>1, FirstsOfDistinct
<1>3. ASSUME NEW d \in Members(p.content)
      PROVE  d.place # "missing" /\ d.parses
  <2>1. PICK e1, e2, e3, e4, e5, e6 :
          /\ e1 = Check(d.place \in {"outside", "linked"}, "CONTENT_PATH_OUTSIDE_PROJECT")
          /\ e2 = Check(d.place = "missing", "CONTENT_UNREADABLE")
          /\ e3 = Check(d.target \notin RegisteredSchemas, "CONTENT_SCHEMA_UNKNOWN")
          /\ e4 = Check(~d.parses, "CONTENT_SCHEMA_INVALID")
          /\ e5 = MigrationFaults(d.document, d.target)
          /\ e6 = Check(~d.document.shaped, "CONTENT_SCHEMA_INVALID")
    OBVIOUS
  <2>2. PICK e7 :
          e7 = Check(d.document.id # d.id, "CONTENT_DESCRIPTOR_MISMATCH")
                 \union Check(\/ ~Distinct(d.document.cards)
                              \/ \E i, j \in DOMAIN d.document.cards :
                                   i # j /\ d.document.cards[i].action = d.document.cards[j].action
                              \/ \E card \in Members(d.document.cards) : card.action \notin Ids(p.inputs),
                              "CONTENT_CARD_CONTRACT_INVALID")
                 \union Check(~Distinct(d.document.members), MemberCode(d.target))
    BY Zenon
  <2>3. Earliest(<<e1, e2, e3, e4, e5, e6, e7>>) = {}
    <3>1. DescriptorFaults(p, d) = {}
      BY <1>1, <1>2, <1>3
    <3> QED BY <2>1, <2>2, <3>1, Zenon DEF DescriptorFaults
  <2>4. e2 = {} /\ e4 = {}
    BY <2>3, EarliestOfSeven
  <2> QED BY <2>1, <2>4 DEF Check
<1> QED BY <1>3

LEMMA ValidGraphCompiles ==
  ASSUME NEW p, IsList(p.scenes), IsList(p.prefabs), CompositionFaults(p) = {}
  PROVE  GraphFaults(p) = {} /\ Parsed(p.scenes \o p.prefabs) = p.scenes \o p.prefabs
<1>1. PICK sources : sources = p.scenes \o p.prefabs
  OBVIOUS
<1>2. PICK a, b : /\ a = Check(~Distinct(sources), "SCENE_ID_UNSTABLE")
                           \union Check(\E file \in Firsts(sources) : ~InShape(file), "SCENE_SCHEMA_INVALID")
                  /\ b = SceneGraphFaults(p.scenes, p.prefabs)
  OBVIOUS
<1>3. Earliest(<<a, b>>) = {}
  BY <1>1, <1>2, Zenon DEF CompositionFaults
<1>4. a = {} /\ b = {}
  BY <1>3, EarliestOfTwo
<1>5. Distinct(sources) /\ \A file \in Firsts(sources) : InShape(file)
  BY <1>2, <1>4 DEF Check
<1>6. IsList(sources) /\ Members(p.scenes) \subseteq Members(sources) /\ Members(p.prefabs) \subseteq Members(sources)
  BY <1>1, ListsConcatenate
<1>7. \A file \in Members(sources) : file.place # "missing" /\ file.parses
  BY <1>5, <1>6, FirstsOfDistinct DEF InShape
<1>8. Parsed(sources) = sources /\ Parsed(p.scenes) = p.scenes /\ Parsed(p.prefabs) = p.prefabs
  BY <1>6, <1>7, ParsedOfReadable
<1> QED BY <1>1, <1>2, <1>4, <1>8 DEF GraphFaults

LEMMA ValidScenarioIsRead ==
  ASSUME NEW p, IsList(p.scenarios), p.scenarios # <<>>, ScenarioFaults(p) = {}, NEW s, s = p.scenarios[1]
  PROVE  s.place \notin {"outside", "linked", "missing"} /\ s.parses /\ s.document.shaped /\ s.acts \subseteq Ids(p.inputs)
<1>1. PICK n \in Nat : n = Len(p.scenarios) /\ DOMAIN p.scenarios = 1..n
  BY ListsAreLists
<1>2. n # 0
  <2>1. p.scenarios \in Seq(Members(p.scenarios))
    BY DEF IsList
  <2> QED BY <1>1, <2>1
<1>3. s \in Members(p.scenarios)
  BY <1>1, <1>2 DEF Members
<1>4. PICK a, b, c, d :
        /\ a = Check(s.place \in {"outside", "linked"}, "SCENARIO_PATH_OUTSIDE_PROJECT")
        /\ b = Check(s.place = "missing", "SCENARIO_UNREADABLE")
        /\ c = Check(~s.parses \/ ~s.document.shaped, "SCENARIO_SCHEMA_INVALID")
        /\ d = Check(~(s.acts \subseteq Ids(p.inputs)), "SCENARIO_ACTION_UNKNOWN")
                 \union Check(~(s.keys \subseteq {state.key : state \in Members(p.states)}),
                              "SCENARIO_STATE_KEY_UNKNOWN")
  OBVIOUS
<1>5. Earliest(<<a, b, c, d>>) = {}
  <2>1. ScenarioFaultsOf(p, s) = {}
    BY <1>3 DEF ScenarioFaults
  <2> QED BY <1>4, <2>1, Zenon DEF ScenarioFaultsOf
<1>6. a = {} /\ b = {} /\ c = {} /\ d = {}
  BY <1>5, EarliestOfFour
<1> QED BY <1>4, <1>6 DEF Check

-----------------------------------------------------------------------------
(* What validates builds, and plays *)

\* Every label a projector asks for is in every locale.
LEMMA ValidScreensAreShown ==
  ASSUME NEW p, UiPolicyFaults(p) = {}, DeclarationFaults(p) = {},
         \E j \in Members(p.projectors) : j.screen = "game",
         \A j \in Members(p.projectors) : LabelFaults(p.ui, None, j) = {}
  PROVE  ScreenFaults(p, None) = {}
<1>1. /\ \A j \in Members(p.projectors) : j.states \subseteq Ids(p.states) /\ j.inputs \subseteq Ids(p.inputs)
  BY DEF DeclarationFaults, Check
<1>2. PICK screens : screens = {j \in Members(p.projectors) : j.screen = "game"}
  OBVIOUS
<1>3. screens # {} /\ screens \subseteq Members(p.projectors)
  BY <1>2
<1>4. PICK names : names = {table.locale : table \in Members(p.ui.locales)}
  OBVIOUS
<1>5. /\ p.ui.default \in names \union {"base"}
      /\ \A table \in Members(p.ui.locales) : AllLabels(p) \subseteq table.keys
  BY <1>4 DEF UiPolicyFaults, Check
<1>6. ASSUME NEW j \in Members(p.projectors)
      PROVE  ProjectorFaults(p, j) = {} /\ LocaleFaults(p.ui, None, j) = {}
  <2>1. ProjectorFaults(p, j) = {}
    BY <1>1 DEF ProjectorFaults, Check
  <2>2. LabelKeys(j) \subseteq AllLabels(p)
    BY <1>1 DEF LabelKeys, AllLabels
  <2>3. \A table \in Members(p.ui.locales) : LabelKeys(j) \subseteq table.keys
    BY <1>5, <2>2
  <2>4. PICK declared : declared = {table \in Members(p.ui.locales) : table.locale = p.ui.default}
    OBVIOUS
  <2>5. p.ui.default # "base" => declared # {}
    BY <1>4, <1>5, <2>4
  <2>6. Check(declared = {}, "UI_LOCALE_UNDECLARED")
          \union Check(\E table \in declared : ~(LabelKeys(j) \subseteq table.keys), "UI_LOCALE_KEY_MISSING") = {}
        \/ p.ui.default = "base"
    BY <2>3, <2>4, <2>5 DEF Check
  <2>7. LocaleFaults(p.ui, None, j) = {}
    BY <2>4, <2>6 DEF LocaleFaults
  <2> QED BY <2>1, <2>7
<1>7. UNION {ProjectorFaults(p, j) : j \in Members(p.projectors)} = {}
  BY <1>6
<1>8. UNION {LocaleFaults(p.ui, None, j) : j \in Members(p.projectors)} = {}
  BY <1>6
<1>9. UNION {LabelFaults(p.ui, None, j) : j \in screens} = {}
  BY <1>3
<1>10. Check(screens = {}, "UI_PROJECTOR_GAME_MISSING") = {}
  BY <1>3 DEF Check
<1> QED BY <1>2, <1>7, <1>8, <1>9, <1>10 DEF ScreenFaults

LEMMA ValidProjectsBuild ==
  ASSUME NEW p, WellRead(p), ValidateFaults(p) = {}, ~Unvalidated(p)
  PROVE  Thrown(p) = {} /\ Diagnosed(p) = {} /\ ChartsFaults(p) = {} /\ Parsed(p.charts) = p.charts
<1>1. /\ p.manifest \notin {"missing", "unparsable"}
      /\ ContentFaults(p) = {} /\ CompositionFaults(p) = {}
  BY ValidHasNoFault
<1>2. \A d \in Members(p.content) : d.place # "missing" /\ d.parses
  BY <1>1, ValidContentIsRead DEF WellRead
<1>3. GraphFaults(p) = {} /\ Parsed(p.scenes \o p.prefabs) = p.scenes \o p.prefabs
  BY <1>1, ValidGraphCompiles DEF WellRead
<1>4. ChartsFaults(p) = {} /\ Parsed(p.charts) = p.charts
  <2>1. CASE p.charted
    BY <2>1 DEF Unvalidated
  <2>2. CASE ~p.charted
    <3>1. p.charts = <<>> /\ IsList(p.charts)
      BY <2>2 DEF WellRead
    <3>2. \A file \in Members(p.charts) : file.place # "missing" /\ file.parses
      BY <3>1 DEF Members
    <3>3. Parsed(p.charts) = p.charts
      BY <3>1, <3>2, ParsedOfReadable
    <3> QED BY <2>2, <3>3 DEF ChartsFaults
  <2> QED BY <2>1, <2>2
<1>5. Diagnosed(p) = {}
  BY <1>2, <1>3, <1>4 DEF Diagnosed, Check
<1>6. Thrown(p) = {}
  <2>1. PICK stages : stages = <<
          Check(p.manifest \in {"missing", "unparsable"}, "GAME_MANIFEST_INVALID_JSONC"),
          Check(\E d \in Members(p.content) : d.place = "missing", "CONTENT_UNREADABLE"),
          PackFaults(PackEntries(p))>>
    BY Zenon
  <2>2. PackFaults(PackEntries(p)) = {}
    BY DEF Unvalidated
  <2>3. \A i \in DOMAIN stages : stages[i] = {}
    BY <1>1, <1>2, <2>1, <2>2 DEF Check
  <2> QED BY <2>1, <2>3, EarliestOfNone, Zenon DEF Thrown
<1> QED BY <1>4, <1>5, <1>6

LEMMA ValidProjectsPlay ==
  ASSUME NEW p, WellRead(p), ValidateFaults(p) = {}, ~Unvalidated(p)
  PROVE  PlayFaults(p) = {}
<1>1. /\ p.manifest \notin {"missing", "unparsable"}
      /\ UiPolicyFaults(p) = {} /\ DeclarationFaults(p) = {} /\ ScenarioFaults(p) = {}
  BY ValidHasNoFault
<1>2. Thrown(p) = {} /\ ChartsFaults(p) = {} /\ Parsed(p.charts) = p.charts
  BY ValidProjectsBuild
<1>3. PICK s : s = p.scenarios[1]
  OBVIOUS
<1>4. /\ s.place \notin {"outside", "linked", "missing"} /\ s.parses /\ s.document.shaped
      /\ s.acts \subseteq Ids(p.inputs)
  BY <1>1, <1>3, ValidScenarioIsRead DEF WellRead
<1>5. InstallFaults(p, PackOf(p).charts) = {}
  <2>1. PackOf(p).charts = p.charts
    BY <1>2 DEF PackOf
  <2>2. CASE p.charted
    BY <2>1, <2>2 DEF Unvalidated
  <2>3. CASE ~p.charted
    BY <2>3 DEF InstallFaults
  <2> QED BY <2>2, <2>3
<1>6. ScreenFaults(p, None) = {}
  <2>1. \E j \in Members(p.projectors) : j.screen = "game"
    BY DEF Unvalidated
  <2>2. \A j \in Members(p.projectors) : LabelFaults(p.ui, None, j) = {}
    BY DEF Unvalidated
  <2> QED BY <1>1, <2>1, <2>2, ValidScreensAreShown
<1>7. BreakpointFaults(p.ui, HeadlessWidth) = {} /\ ~(p.ui.touch > HeadlessButton)
  BY DEF Unvalidated
<1>8. \E b \in Members(p.ui.breakpoints) : Matches(b, HeadlessWidth)
  BY <1>7 DEF BreakpointFaults, Check
<1>9. InspectionFaults(p) = {}
  <2>1. \A j \in Members(p.projectors) :
          RenderedFaults(ViewModel(j), HeadlessSnapshot(ViewModel(j)), p.ui.touch) = {}
    BY <1>7, RenderingIsFaithful DEF WellRead
  <2>2. UNION {RenderedFaults(ViewModel(j), HeadlessSnapshot(ViewModel(j)), p.ui.touch)
               : j \in {q \in Members(p.projectors) : q.screen = "game"}} = {}
    BY <2>1
  <2> QED BY <1>7, <2>2 DEF InspectionFaults
<1>10. PICK a, b, c, d, f :
         /\ a = Check(p.manifest \in {"missing", "unparsable"}, "GAME_MANIFEST_INVALID_JSONC")
         /\ b = Check(s.place \in {"outside", "linked"}, "SCENARIO_PATH_ESCAPE")
         /\ c = Check(s.place = "missing" \/ ~s.parses, "SCENARIO_JSONC_INVALID")
         /\ d = Check(~s.document.shaped, "SCENARIO_SCHEMA_INVALID")
         /\ f = Check(~(s.acts \subseteq Ids(p.inputs)), "CONTROL_ACTION_UNKNOWN")
  OBVIOUS
<1>11. PICK e : e = Check(~\E b2 \in Members(p.ui.breakpoints) : Matches(b2, HeadlessWidth), "UI_BREAKPOINT_UNDECLARED")
  BY Zenon
<1>12. a = {} /\ b = {} /\ c = {} /\ d = {} /\ e = {} /\ f = {}
  BY <1>1, <1>4, <1>8, <1>10, <1>11 DEF Check
<1>13. PICK stages : stages = <<a, b, c, d, Thrown(p), InstallFaults(p, PackOf(p).charts), ScreenFaults(p, None),
                               e, f, InspectionFaults(p)>>
  OBVIOUS
<1>14. \A i \in DOMAIN stages : stages[i] = {}
  BY <1>2, <1>5, <1>6, <1>9, <1>12, <1>13
<1>15. Earliest(stages) = {}
  BY <1>14, EarliestOfNone
<1> QED BY <1>3, <1>10, <1>11, <1>13, <1>15, Zenon DEF PlayFaults

-----------------------------------------------------------------------------
(* The commands *)

\* What a command found is what it finds in the project on the disk, or it has not looked
\* since that was written; what is packed is a project, of which the author may have
\* made another since.
DocumentsInvariant ==
  /\ authored \in DOMAIN Projects
  /\ packed \in DOMAIN Projects \union {Unbuilt}
  /\ verdict \in {Unknown, ValidateFaults(Projects[authored])}
  /\ compiled \in {Unknown, Earliest(<<Thrown(Projects[authored]), Diagnosed(Projects[authored])>>)}
  /\ played \in {Unknown, PlayFaults(Projects[authored])}

LEMMA DocumentsStart == DocumentsInit => DocumentsInvariant
<1>1. PICK n \in Nat : n = Len(Projects) /\ DOMAIN Projects = 1..n
  BY ListsAreLists, ProjectsAssumption
<1>2. n # 0
  <2>1. Projects \in Seq(Members(Projects)) /\ Projects # <<>>
    BY ProjectsAssumption DEF IsList
  <2> QED BY <1>1, <2>1
<1> QED BY <1>1, <1>2 DEF DocumentsInit, DocumentsInvariant

LEMMA DocumentsStep == DocumentsInvariant /\ [DocumentsNext]_documents => DocumentsInvariant'
<1> SUFFICES ASSUME DocumentsInvariant, [DocumentsNext]_documents
             PROVE  DocumentsInvariant'
  OBVIOUS
<1>1. \A p \in DOMAIN Projects : PackAfter(p) \in DOMAIN Projects \union {Unbuilt}
  BY DEF PackAfter, DocumentsInvariant
<1>2. CASE Author
  BY <1>2 DEF Author, DocumentsInvariant
<1>3. CASE Validate
  BY <1>3 DEF Validate, DocumentsInvariant
<1>4. CASE BuildContent
  BY <1>1, <1>4 DEF BuildContent, DocumentsInvariant
<1>5. CASE Play
  BY <1>1, <1>5 DEF Play, DocumentsInvariant
<1>6. CASE UNCHANGED documents
  BY <1>6 DEF documents, DocumentsInvariant
<1> QED BY <1>2, <1>3, <1>4, <1>5, <1>6 DEF DocumentsNext

LEMMA InvariantDocumentsAreSound == DocumentsInvariant => DocumentsAreSound
<1> SUFFICES ASSUME DocumentsInvariant
             PROVE  DocumentsAreSound
  OBVIOUS
<1>1. \A i \in DOMAIN Projects : WellRead(Projects[i])
  BY ProjectsAssumption DEF Members
<1>2. ValidatedProjectsPlay
  <2> SUFFICES ASSUME verdict = {}, ~Unvalidated(Projects[authored])
               PROVE  compiled \in {Unknown, {}} /\ played \in {Unknown, {}}
    BY DEF ValidatedProjectsPlay
  <2>1. PICK p : p = Projects[authored]
    OBVIOUS
  <2>2. WellRead(p) /\ ValidateFaults(p) = {} /\ ~Unvalidated(p)
    BY <1>1, <2>1 DEF DocumentsInvariant, Unknown
  <2>3. Thrown(p) = {} /\ Diagnosed(p) = {} /\ PlayFaults(p) = {}
    BY <2>2, ValidProjectsBuild, ValidProjectsPlay
  <2>4. PICK stages : stages = <<Thrown(p), Diagnosed(p)>>
    OBVIOUS
  <2>5. \A i \in DOMAIN stages : stages[i] = {}
    BY <2>3, <2>4
  <2>6. Earliest(stages) = {}
    BY <2>5, EarliestOfNone
  <2> QED BY <2>1, <2>3, <2>4, <2>6 DEF DocumentsInvariant
<1>3. GraphsAreTrees
  <2> SUFFICES ASSUME packed # Unbuilt
               PROVE  GraphIsSound(PackOf(Projects[packed]).scenes, PackOf(Projects[packed]).prefabs)
    BY Zenon DEF GraphsAreTrees, GraphIsSound
  <2>1. packed \in DOMAIN Projects
    BY DEF DocumentsInvariant
  <2> QED BY <1>1, <2>1, PacksAreSound
<1> QED BY <1>2, <1>3 DEF DocumentsAreSound

\* Whatever an author makes of a project: one that validates builds without a diagnostic
\* and plays, but for what validate does not look at, and every graph in a pack, validated
\* or not, is a forest of trees under their roots, bases and prefabs: DocumentsAreSound.
THEOREM ValidDocumentsAreSound == DocumentsSpec => []DocumentsAreSound
<1>1. DocumentsSpec => []DocumentsInvariant
  BY DocumentsStart, DocumentsStep, PTL DEF DocumentsSpec
<1> QED BY <1>1, InvariantDocumentsAreSound, PTL

=============================================================================
