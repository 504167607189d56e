------------------------- MODULE PlanCommandProofs -------------------------
(***************************************************************************)
(* Theorems about PlanCommand, for every finite set of entities, every     *)
(* plan to start from and every set of requests and attempts: types, the   *)
(* packed numbering of siblings, no lost update, the refinement of         *)
(* StrictCommand with what it means for callers, and that nobody waits in  *)
(* a circle.                                                               *)
(***************************************************************************)
EXTENDS PlanCommand, FiniteSetTheorems, FunctionTheorems, WellFoundedInduction, TLAPS

TypeInv == TypeOK /\ DOMAIN draft = Attempts

-----------------------------------------------------------------------------
(* The inductive invariant, part by part.                                  *)

(* The route has read the target and the transaction is not over.          *)
Started(a) == pc[a] \in {"begin", "claimed", "locking", "written"}

(* An updated_at that is in a row or was read is that of the first plan or *)
(* of a command that has ended: the one a commit writes is new.            *)
Spent(v) == v = Seed \/ (v \in Attempts /\ pc[v] \in {"committed", "done"})

VersionsSpent ==
    /\ \A e \in Ids : Spent(ent[e].ver)
    /\ \A a \in Attempts : Spent(target[a].ver)

(* The target of a running command was live; while it has the updated_at   *)
(* that was read, it also has the parent that was read.                    *)
TargetsKnown ==
    \A a \in Attempts : Started(a) /\ req[a].op # "create" =>
        /\ ent[req[a].id].status # "absent"
        /\ ent[req[a].id].ver = target[a].ver => ent[req[a].id].parent = target[a].parent

(* Sibling locks exclude each other, and cover the groups of the command   *)
(* unless its target was already deleted.                                  *)
LocksOf(a) ==
    /\ pc[a] \notin {"locking", "written"} => held[a] = {} /\ want[a] = {}
    /\ pc[a] = "locking" =>
        \/ held[a] \union want[a] = CommandGroups(a)
        \/ /\ held[a] = {} /\ want[a] = {}
           /\ req[a].op # "create" /\ ent[req[a].id].status = "deleted"
    /\ pc[a] = "written" => held[a] = CommandGroups(a)

LocksCover ==
    /\ \A a, b \in Attempts : a # b => held[a] \intersect held[b] = {}
    /\ \A a \in Attempts : LocksOf(a)

(* The entities of S are numbered 0, 1, 2, ... in f.                       *)
Numbered(f, S) == {f[e].pos : e \in S} = 0 .. Cardinality(S) - 1
PackedIn(f, g) == Numbered(f, Group(f, g))

(* A row that a transaction has written is that of a live sibling in a     *)
(* group of its command, and stays in one; or it is a new row of its own.  *)
RowFits(a, y, new) ==
    /\ new.status # "absent" /\ new.parent \in CommandGroups(a)
    /\ \/ /\ ent[y].status = "live" /\ ent[y].parent \in CommandGroups(a)
          /\ new.ver = a \/ (new.ver = ent[y].ver /\ new.parent = ent[y].parent)
       \/ req[a].op = "create" /\ ent[y].status = "absent" /\ new.ver = a

(* The rows a transaction has written, applied to the rows as they are     *)
(* now, number the siblings of its groups.                                 *)
RowsPack(a, rows) ==
    /\ \A y \in DOMAIN rows : RowFits(a, y, rows[y])
    /\ \A g \in CommandGroups(a) : PackedIn(Overlay(ent, rows), g)
    /\ req[a].op # "create" => /\ ent[req[a].id].status = "live"
                               /\ ent[req[a].id].ver = target[a].ver

DraftsPack ==
    /\ \A a, b \in Attempts : a # b => DOMAIN draft[a] \intersect DOMAIN draft[b] = {}
    /\ \A a \in Attempts : /\ pc[a] # "written" => DOMAIN draft[a] = {}
                           /\ pc[a] = "written" => RowsPack(a, draft[a])

PlanInv == TypeInv /\ VersionsSpent /\ TargetsKnown /\ LocksCover /\ DraftsPack /\ Packed(ent)

(* The replay row of a key is open to the one transaction that inserted    *)
(* it, and completed for whoever is past the transaction.                  *)
ClaimsExclusive ==
    /\ \A a \in Attempts :
        /\ InTx(a) => (mine[a] <=> claims[KeyOf(req[a])] = NoResult)
        /\ pc[a] = "written" => mine[a]
        /\ pc[a] = "committed" => claims[KeyOf(req[a])] # NoResult
        /\ pc[a] # "done" => answer[a] = NoAnswer
    /\ \A a, b \in Attempts :
        InTx(a) /\ InTx(b) /\ mine[a] /\ mine[b] /\ KeyOf(req[a]) = KeyOf(req[b]) => a = b

-----------------------------------------------------------------------------
(* Lemmas on the operators of the model.                                   *)

(* The ranks of a finite set of numbers, sorted by a number each has and   *)
(* then by itself, are 0, 1, 2, ...: what ROW_NUMBER() computes.           *)
LEMMA RanksArePacked ==
    ASSUME NEW S, IsFiniteSet(S), S \subseteq Int, NEW k \in [S -> Int],
           NEW b \in [S -> SUBSET S],
           \A x, y \in S : y \in b[x] <=> (k[y] < k[x] \/ (k[y] = k[x] /\ y < x))
    PROVE  {Cardinality(b[x]) : x \in S} = 0 .. Cardinality(S) - 1
  <1> DEFINE n == Cardinality(S)
             rank == [x \in S |-> Cardinality(b[x])]
  <1>1. n \in Nat
    BY FS_CardinalityType
  <1>2. ASSUME NEW x \in S
        PROVE  IsFiniteSet(b[x]) /\ Cardinality(b[x]) \in 0 .. n - 1
    <2>1. b[x] \in SUBSET S /\ x \notin b[x]
      OBVIOUS
    <2>2. IsFiniteSet(b[x]) /\ Cardinality(b[x]) <= n /\ (n = Cardinality(b[x]) => S = b[x])
      BY <2>1, FS_Subset
    <2>3. Cardinality(b[x]) \in Nat
      BY <2>2, FS_CardinalityType
    <2>4. QED
      BY <1>1, <2>1, <2>2, <2>3
  <1>3. rank \in [S -> 0 .. n - 1]
    BY <1>2
  <1>4. ASSUME NEW x \in S, NEW y \in S, k[x] < k[y] \/ (k[x] = k[y] /\ x < y)
        PROVE  Cardinality(b[x]) # Cardinality(b[y])
    <2>0. x \in Int /\ y \in Int /\ k[x] \in Int /\ k[y] \in Int
      OBVIOUS
    <2>1. ASSUME NEW z \in b[x] PROVE z \in b[y]
      <3>1. z \in S /\ z \in Int /\ k[z] \in Int
        OBVIOUS
      <3>2. k[z] < k[x] \/ (k[z] = k[x] /\ z < x)
        BY <3>1
      <3>3. k[z] < k[y] \/ (k[z] = k[y] /\ z < y)
        BY <1>4, <2>0, <3>1, <3>2
      <3>4. QED
        BY <3>1, <3>3
    <2>2. x \in b[y] /\ x \notin b[x]
      BY <1>4, <2>0
    <2>3. b[x] \in SUBSET b[y] /\ b[x] # b[y]
      BY <2>1, <2>2
    <2>4. QED
      BY <1>2, <2>3, FS_Subset
  <1>5. \A x, y \in S : rank[x] = rank[y] => x = y
    <2> SUFFICES ASSUME NEW x \in S, NEW y \in S, x # y PROVE rank[x] # rank[y]
      OBVIOUS
    <2>1. x \in Int /\ y \in Int /\ k[x] \in Int /\ k[y] \in Int
      OBVIOUS
    <2>2. \/ k[x] < k[y] \/ (k[x] = k[y] /\ x < y)
          \/ k[y] < k[x] \/ (k[y] = k[x] /\ y < x)
      BY <2>1
    <2>3. QED
      BY <1>4, <2>2
  <1>6. IsFiniteSet(0 .. n - 1) /\ Cardinality(0 .. n - 1) = n
    <2> HIDE DEF n
    <2>1. 0 \in Int /\ n - 1 \in Int
      BY <1>1
    <2>2. IsFiniteSet(0 .. n - 1) /\ Cardinality(0 .. n - 1) = IF 0 > n - 1 THEN 0 ELSE n - 1 - 0 + 1
      BY <2>1, FS_Interval
    <2>3. QED
      BY <1>1, <2>2
  <1>7. rank \in Injection(S, 0 .. n - 1)
    BY <1>3, <1>5, Fun_IsInj
  <1>8. rank \in Surjection(S, 0 .. n - 1)
    <2> HIDE DEF rank
    <2>1. Cardinality(S) = Cardinality(0 .. n - 1) <=> rank \in Surjection(S, 0 .. n - 1)
      BY <1>6, <1>7, FS_Injection
    <2>2. QED
      BY <1>6, <2>1
  <1>9. \A i \in 0 .. n - 1 : \E x \in S : rank[x] = i
    <2> HIDE DEF rank, n
    <2>1. QED
      BY <1>8 DEF Surjection
  <1>10. QED
    BY <1>2, <1>9

(* A sibling group is a finite set of ids.                                 *)
LEMMA GroupFinite ==
    ASSUME NEW f, DOMAIN f \subseteq Ids, NEW g
    PROVE  Group(f, g) \subseteq Ids /\ IsFiniteSet(Group(f, g)) /\ Cardinality(Group(f, g)) \in Nat
  <1>1. Group(f, g) \in SUBSET Ids
    BY DEF Group, Live
  <1>2. QED
    BY <1>1, IdsAssumption, FS_Subset, FS_CardinalityType

(* The re-pack gives the entities of its groups new positions and changes  *)
(* nothing else, and numbers each group 0, 1, 2, ...                       *)
LEMMA RepackPacks ==
    ASSUME NEW f \in [Ids -> Entities], NEW groups, NEW t, NEW p \in Nat,
           NEW rows, rows = Repack(f, groups, t, p)
    PROVE  /\ \A x : x \in DOMAIN rows <=> \E g \in groups : x \in Group(f, g)
           /\ \A x \in DOMAIN rows : /\ rows[x] \in Entities
                                     /\ rows[x].status = f[x].status
                                     /\ rows[x].parent = f[x].parent
                                     /\ rows[x].ver = f[x].ver
           /\ \A g \in groups : Numbered(rows, Group(f, g))
  <1> DEFINE place(x) == IF x = t THEN 2 * p ELSE 2 * f[x].pos + 1
             before(x) == {y \in Group(f, f[x].parent) :
                             place(y) < place(x) \/ (place(y) = place(x) /\ y < x)}
  <1>1. rows = [x \in UNION {Group(f, g) : g \in groups} |-> [f[x] EXCEPT !.pos = Cardinality(before(x))]]
    BY DEF Repack
  <1>2. \A x \in Ids : place(x) \in Int
    BY DEF Entities
  <1>3. ASSUME NEW g \in groups, NEW x \in Group(f, g)
        PROVE  x \in Ids /\ f[x].parent = g /\ f[x] \in Entities /\ Cardinality(before(x)) \in Nat
    <2>1. x \in Ids /\ f[x].parent = g /\ f[x] \in Entities
      BY DEF Group, Live
    <2>2. before(x) \in SUBSET Group(f, g)
      BY <2>1
    <2>3. IsFiniteSet(before(x))
      BY <2>2, GroupFinite, FS_Subset
    <2>4. QED
      BY <2>1, <2>3, FS_CardinalityType
  <1>4. ASSUME NEW x \in DOMAIN rows
        PROVE  /\ rows[x] \in Entities /\ rows[x].pos = Cardinality(before(x))
               /\ rows[x].status = f[x].status /\ rows[x].parent = f[x].parent /\ rows[x].ver = f[x].ver
    <2>1. PICK g \in groups : x \in Group(f, g)
      BY <1>1
    <2>2. f[x] \in Entities /\ Cardinality(before(x)) \in Nat
      BY <1>3, <2>1
    <2>3. rows[x] = [f[x] EXCEPT !.pos = Cardinality(before(x))]
      BY <1>1
    <2> HIDE DEF before
    <2>4. QED
      BY <2>2, <2>3 DEF Entities
  <1>5. ASSUME NEW g \in groups
        PROVE  Numbered(rows, Group(f, g))
    <2> DEFINE S == Group(f, g)
               k == [x \in S |-> place(x)]
               b == [x \in S |-> before(x)]
    <2>0. DOMAIN f \subseteq Ids
      OBVIOUS
    <2>1. S \subseteq Ids /\ IsFiniteSet(S) /\ S \subseteq Int
      <3>1. S \subseteq Ids /\ IsFiniteSet(S)
        BY <2>0, GroupFinite
      <3>2. Ids \subseteq Int
        BY IdsAssumption
      <3>3. QED
        BY <3>1, <3>2
    <2>2. k \in [S -> Int]
      BY <1>2, <2>1
    <2>3. \A x \in S : f[x].parent = g
      BY <1>3
    <2>4. b \in [S -> SUBSET S]
      BY <2>3
    <2>5. \A x, y \in S : y \in b[x] <=> (k[y] < k[x] \/ (k[y] = k[x] /\ y < x))
      BY <2>3
    <2> HIDE DEF k, b
    <2>6. {Cardinality(b[x]) : x \in S} = 0 .. Cardinality(S) - 1
      BY <2>1, <2>2, <2>4, <2>5, RanksArePacked
    <2>7. \A x \in S : x \in DOMAIN rows /\ rows[x].pos = Cardinality(b[x])
      BY <1>1, <1>4 DEF b
    <2>8. QED
      BY <2>6, <2>7 DEF Numbered
  <1>6. \A x : x \in DOMAIN rows <=> \E g \in groups : x \in Group(f, g)
    BY <1>1
  <1>7. QED
    BY <1>4, <1>5, <1>6

(* A group looks the same in two plans that differ elsewhere or only in    *)
(* the updated_at of rows.                                                 *)
LEMMA SameGroup ==
    ASSUME NEW f, NEW h, DOMAIN f = DOMAIN h, NEW g,
           \A y \in DOMAIN f :
              \/ f[y].status = h[y].status /\ f[y].parent = h[y].parent /\ f[y].pos = h[y].pos
              \/ /\ ~(f[y].status = "live" /\ f[y].parent = g)
                 /\ ~(h[y].status = "live" /\ h[y].parent = g)
    PROVE  Group(f, g) = Group(h, g) /\ (PackedIn(f, g) <=> PackedIn(h, g))
  <1>1. Group(f, g) = Group(h, g)
    BY DEF Group, Live
  <1>2. \A e \in Group(f, g) : f[e].pos = h[e].pos
    BY DEF Group, Live
  <1>3. {f[e].pos : e \in Group(f, g)} = {h[e].pos : e \in Group(h, g)}
    BY <1>1, <1>2
  <1>4. QED
    BY <1>1, <1>3 DEF PackedIn, Numbered

(* The request of an attempt, and the groups it may change.                *)
LEMMA RequestOf ==
    ASSUME TypeInv, NEW a \in Attempts
    PROVE  /\ req[a] \in Requests /\ IsRequest(req[a]) /\ KeyOf(req[a]) \in Keys
           /\ target[a] \in Entities
           /\ CommandGroups(a) \subseteq Groups
           /\ req[a].op # "create" => /\ req[a].id \in Ids /\ NewParent(a) \in Groups
                                      /\ RequestedPosition(a) \in Nat
  <1>1. req[a] \in Requests /\ IsRequest(req[a]) /\ KeyOf(req[a]) \in Keys /\ target[a] \in Entities
    BY RequestsAssumption DEF TypeInv, TypeOK, Keys
  <1>2. target[a].parent \in Groups /\ target[a].pos \in Nat
    BY <1>1 DEF Entities
  <1>3. Keep \notin Groups /\ Keep \notin Nat
    BY IdsAssumption DEF Keep, Groups, Top
  <1>4. req[a].op # "create" => /\ req[a].id \in Ids /\ NewParent(a) \in Groups
                                /\ RequestedPosition(a) \in Nat
    BY <1>1, <1>2, <1>3 DEF IsRequest, NewParent, RequestedPosition
  <1>5. CommandGroups(a) \subseteq Groups
    BY <1>1, <1>2, <1>4 DEF IsRequest, CommandGroups
  <1>6. QED
    BY <1>1, <1>4, <1>5

(* Packed, group by group.                                                 *)
LEMMA PackedByGroup == ASSUME NEW f PROVE Packed(f) <=> \A g \in Groups : PackedIn(f, g)
  BY DEF Packed, PackedIn, Numbered

-----------------------------------------------------------------------------
(* What the three mutations write.                                         *)

(* A created row comes last in its group.                                  *)
LEMMA CreatedPacks ==
    ASSUME TypeInv, Packed(ent), NEW a \in Attempts, req[a].op = "create",
           NEW e \in Ids, ent[e].status = "absent", NEW rows \in Created(a, e)
    PROVE  DOMAIN rows = {e} /\ rows[e] \in Entities /\ RowsPack(a, rows)
  <1> DEFINE p == req[a].parent
             G == Group(ent, p)
             n == Cardinality(G)
             new == [status |-> "live", parent |-> p, ver |-> a,
                     pos |-> IF G = {} THEN 0 ELSE Max({ent[y].pos : y \in G}) + 1]
             F == Overlay(ent, rows)
  <1>0. ent \in [Ids -> Entities] /\ p \in Groups /\ CommandGroups(a) = {p}
    BY RequestOf DEF TypeInv, TypeOK, IsRequest, CommandGroups
  <1>1. rows = [x \in {e} |-> new]
    BY DEF Created
  <1>2. G \subseteq Ids /\ IsFiniteSet(G) /\ n \in Nat /\ e \notin G
    <2>1. DOMAIN ent \subseteq Ids
      BY <1>0
    <2>2. e \notin G
      BY DEF Group, Live
    <2>3. QED
      BY <2>1, <2>2, GroupFinite
  <1>3. {ent[y].pos : y \in G} = 0 .. n - 1
    BY <1>0 DEF Packed
  <1>4. new.pos = n
    <2>1. CASE G = {}
      BY <2>1, FS_EmptySet
    <2>2. CASE G # {}
      <3>1. n # 0
        BY <1>2, <2>2, FS_EmptySet
      <3> HIDE DEF n, G
      <3>2. Max(0 .. n - 1) = n - 1
        BY <1>2, <3>1 DEF Max
      <3>3. new.pos = Max({ent[y].pos : y \in G}) + 1
        BY <2>2
      <3>4. new.pos = Max(0 .. n - 1) + 1
        BY <1>3, <3>3, Zenon
      <3>5. QED
        BY <1>2, <3>2, <3>4
    <2>3. QED
      BY <2>1, <2>2
  <1>5. new \in Entities /\ new.status = "live" /\ new.parent = p /\ new.ver = a
    BY <1>0, <1>2, <1>4 DEF Entities
  <1> HIDE DEF new, n
  <1>6. DOMAIN F = Ids /\ F[e] = new /\ \A y \in Ids \ {e} : F[y] = ent[y]
    BY <1>0, <1>1 DEF Overlay
  <1>7. Group(F, p) = G \union {e}
    BY <1>0, <1>5, <1>6 DEF Group, Live
  <1>8. Cardinality(Group(F, p)) = n + 1
    BY <1>2, <1>7, FS_AddElement DEF n
  <1>9. {F[y].pos : y \in Group(F, p)} = {ent[y].pos : y \in G} \union {n}
    BY <1>2, <1>4, <1>6, <1>7
  <1>10. PackedIn(F, p)
    <2>1. (0 .. n - 1) \union {n} = 0 .. n + 1 - 1
      BY <1>2
    <2>2. QED
      BY <1>3, <1>8, <1>9, <2>1 DEF PackedIn, Numbered
  <1>11. RowFits(a, e, new)
    BY <1>0, <1>5 DEF RowFits
  <1>12. QED
    BY <1>0, <1>1, <1>5, <1>10, <1>11 DEF RowsPack

(* Rows that change nothing but one entity's row and the positions of      *)
(* siblings, which they number.                                            *)
Repacks(rows, e, new, groups) ==
    /\ e \in DOMAIN rows /\ DOMAIN rows \subseteq Ids
    /\ \A y \in DOMAIN rows : rows[y] \in Entities
    /\ rows[e].status = new.status /\ rows[e].parent = new.parent /\ rows[e].ver = new.ver
    /\ \A y \in DOMAIN rows \ {e} :
         /\ ent[y].status = "live" /\ ent[y].parent \in groups
         /\ rows[y].status = ent[y].status /\ rows[y].parent = ent[y].parent
         /\ rows[y].ver = ent[y].ver
    /\ \A g \in groups : PackedIn(Overlay(ent, rows), g)

(* The statement that changes a row, followed by the re-pack.              *)
LEMMA RepackedRows ==
    ASSUME ent \in [Ids -> Entities], NEW e \in Ids, NEW row, DOMAIN row = {e}, row[e] \in Entities,
           NEW groups, NEW t, NEW p \in Nat, NEW rows,
           rows = Overlay(row, Repack(Overlay(ent, row), groups, t, p))
    PROVE  Repacks(rows, e, row[e], groups)
  <1> DEFINE f == Overlay(ent, row)
             R == Repack(f, groups, t, p)
             F == Overlay(ent, rows)
  <1>1. f \in [Ids -> Entities] /\ f[e] = row[e] /\ \A y \in Ids \ {e} : f[y] = ent[y]
    BY DEF Overlay
  <1>r. R = Repack(f, groups, t, p)
    OBVIOUS
  <1> HIDE DEF f, R
  <1>2. /\ \A x : x \in DOMAIN R <=> \E g \in groups : x \in Group(f, g)
        /\ \A x \in DOMAIN R : /\ R[x] \in Entities /\ R[x].status = f[x].status
                               /\ R[x].parent = f[x].parent /\ R[x].ver = f[x].ver
        /\ \A g \in groups : Numbered(R, Group(f, g))
    BY <1>1, <1>r, RepackPacks
  <1>3. \A x \in DOMAIN R : x \in Ids /\ f[x].status = "live" /\ f[x].parent \in groups
    BY <1>1, <1>2 DEF Group, Live
  <1>4. /\ DOMAIN rows = DOMAIN R \union {e}
        /\ \A y \in DOMAIN R : rows[y] = R[y]
        /\ e \notin DOMAIN R => rows[e] = row[e]
    BY DEF Overlay, R, f
  <1>5. ASSUME NEW y \in DOMAIN rows PROVE y \in Ids /\ rows[y] \in Entities
    BY <1>2, <1>3, <1>4, <1>5
  <1>6. rows[e].status = row[e].status /\ rows[e].parent = row[e].parent /\ rows[e].ver = row[e].ver
    BY <1>1, <1>2, <1>4
  <1>7. ASSUME NEW y \in DOMAIN rows \ {e}
        PROVE  /\ ent[y].status = "live" /\ ent[y].parent \in groups
               /\ rows[y].status = ent[y].status /\ rows[y].parent = ent[y].parent
               /\ rows[y].ver = ent[y].ver
    BY <1>1, <1>2, <1>3, <1>4, <1>7
  <1>8. ASSUME NEW g \in groups PROVE PackedIn(F, g)
    <2>1. DOMAIN F = Ids /\ \A y \in DOMAIN rows : F[y] = rows[y]
      BY <1>5 DEF Overlay
    <2>2. \A y \in Ids \ DOMAIN rows : F[y] = ent[y] /\ y # e /\ F[y] = f[y]
      BY <1>1, <1>4 DEF Overlay
    <2>3. \A y \in Ids : F[y].status = f[y].status /\ F[y].parent = f[y].parent
      BY <1>1, <1>2, <1>4, <2>1, <2>2
    <2>4. Group(F, g) = Group(f, g)
      BY <1>1, <2>1, <2>3 DEF Group, Live
    <2>5. \A x \in Group(f, g) : x \in DOMAIN R /\ F[x].pos = R[x].pos
      BY <1>2, <1>4, <2>1
    <2>6. {F[x].pos : x \in Group(F, g)} = {R[x].pos : x \in Group(f, g)}
      BY <2>4, <2>5
    <2>7. QED
      BY <1>2, <2>4, <2>6 DEF PackedIn, Numbered
  <1>9. QED
    BY <1>4, <1>5, <1>6, <1>7, <1>8 DEF Repacks

(* What rows must be for a transaction to write them.                      *)
RowsType(rows) == DOMAIN rows \subseteq Ids /\ \A y \in DOMAIN rows : rows[y] \in Entities

(* An update keeps its row in a group of the command; one that moves it    *)
(* re-packs both groups, one that does not leaves every position alone.    *)
LEMMA UpdatedPacks ==
    ASSUME TypeInv, Packed(ent), NEW a \in Attempts, req[a].op = "update",
           TargetUnchanged(a), ent[req[a].id].parent = target[a].parent
    PROVE  RowsType(Updated(a)) /\ RowsPack(a, Updated(a))
  <1> DEFINE e == req[a].id
             new == [ent[e] EXCEPT !.parent = NewParent(a), !.ver = a]
             row == [x \in {e} |-> new]
             rows == Updated(a)
  <1>0. /\ ent \in [Ids -> Entities] /\ e \in Ids /\ ent[e] \in Entities
        /\ NewParent(a) \in Groups /\ RequestedPosition(a) \in Nat
        /\ target[a].parent \in Groups
        /\ CommandGroups(a) = {target[a].parent, NewParent(a)}
    <2>1. target[a] \in Entities /\ req[a].op # "create"
      BY RequestOf
    <2>2. QED
      BY <2>1, RequestOf DEF TypeInv, TypeOK, CommandGroups, Entities
  <1>1. /\ new \in Entities /\ new.status = ent[e].status /\ new.pos = ent[e].pos
        /\ new.parent = NewParent(a) /\ new.ver = a
    BY <1>0 DEF Entities
  <1>2. ent[e].status = "live" /\ ent[e].ver = target[a].ver
    BY DEF TargetUnchanged
  <1>3. CASE Moves(a)
    <2>1. rows = Overlay(row, Repack(Overlay(ent, row), CommandGroups(a), e, RequestedPosition(a)))
      BY <1>3 DEF Updated
    <2> HIDE DEF new, rows
    <2>2. DOMAIN row = {e} /\ row[e] = new
      OBVIOUS
    <2> HIDE DEF row
    <2>3. Repacks(rows, e, new, CommandGroups(a))
      BY <1>0, <1>1, <2>1, <2>2, RepackedRows
    <2>4. RowFits(a, e, rows[e])
      BY <1>0, <1>1, <1>2, <2>3 DEF RowFits, Repacks
    <2>5. \A y \in DOMAIN rows \ {e} : RowFits(a, y, rows[y])
      BY <2>3 DEF RowFits, Repacks
    <2>6. RowsType(rows) /\ RowsPack(a, rows)
      BY <1>2, <2>3, <2>4, <2>5 DEF RowsType, RowsPack, Repacks
    <2>7. QED
      BY <2>6 DEF rows
  <1>4. CASE ~Moves(a)
    <2>1. rows = row /\ NewParent(a) = ent[e].parent
      BY <1>4 DEF Updated, Moves, NewParent
    <2> HIDE DEF new, rows
    <2>2. DOMAIN rows = {e} /\ rows[e] = new
      BY <2>1
    <2> HIDE DEF row
    <2> DEFINE F == Overlay(ent, rows)
    <2>3. DOMAIN F = Ids /\ F[e] = new /\ \A y \in Ids \ {e} : F[y] = ent[y]
      BY <1>0, <2>2 DEF Overlay
    <2> HIDE DEF F
    <2>4. ASSUME NEW g \in CommandGroups(a) PROVE PackedIn(F, g)
      <3>1. PackedIn(ent, g)
        BY <1>0, PackedByGroup
      <3>2. DOMAIN F = DOMAIN ent
        BY <1>0, <2>3
      <3>3. \A y \in DOMAIN F : F[y].status = ent[y].status /\ F[y].parent = ent[y].parent
                                /\ F[y].pos = ent[y].pos
        BY <1>1, <2>1, <2>3
      <3>4. PackedIn(F, g) <=> PackedIn(ent, g)
        BY <3>2, <3>3, SameGroup
      <3>5. QED
        BY <3>1, <3>4
    <2>5. RowFits(a, e, new)
      BY <1>0, <1>1, <1>2, <2>1 DEF RowFits
    <2>6. RowsType(rows) /\ RowsPack(a, rows)
      BY <1>0, <1>1, <1>2, <2>2, <2>4, <2>5 DEF RowsType, RowsPack, F
    <2>7. QED
      BY <2>6 DEF rows
  <1>5. QED
    BY <1>3, <1>4

(* A delete takes its row out of the group and closes the gap.             *)
LEMMA DeletedPacks ==
    ASSUME TypeInv, NEW a \in Attempts, req[a].op = "delete",
           TargetUnchanged(a), ent[req[a].id].parent = target[a].parent
    PROVE  RowsType(Deleted(a)) /\ RowsPack(a, Deleted(a))
  <1> DEFINE e == req[a].id
             new == [ent[e] EXCEPT !.status = "deleted", !.ver = a]
             row == [x \in {e} |-> [ent[x] EXCEPT !.status = "deleted", !.ver = a]]
             rows == Deleted(a)
  <1>0. /\ ent \in [Ids -> Entities] /\ e \in Ids /\ ent[e] \in Entities
        /\ CommandGroups(a) = {target[a].parent}
    <2>1. req[a].op # "create" /\ req[a].parent = Keep
      BY RequestOf DEF IsRequest
    <2>2. QED
      BY <2>1, RequestOf DEF TypeInv, TypeOK, CommandGroups, NewParent
  <1>1. /\ new \in Entities /\ new.status = "deleted" /\ new.parent = ent[e].parent /\ new.ver = a
    BY <1>0 DEF Entities
  <1>2. ent[e].status = "live" /\ ent[e].ver = target[a].ver
    BY DEF TargetUnchanged
  <1>3. rows = Overlay(row, Repack(Overlay(ent, row), CommandGroups(a), Top, 0))
    BY <1>0 DEF Deleted
  <1>4. DOMAIN row = {e} /\ row[e] = new
    OBVIOUS
  <1> HIDE DEF new, rows, row
  <1>5. Repacks(rows, e, new, CommandGroups(a))
    BY <1>0, <1>1, <1>3, <1>4, RepackedRows
  <1>6. RowFits(a, e, rows[e])
    BY <1>0, <1>1, <1>2, <1>5 DEF RowFits, Repacks
  <1>7. \A y \in DOMAIN rows \ {e} : RowFits(a, y, rows[y])
    BY <1>5 DEF RowFits, Repacks
  <1>8. RowsType(rows) /\ RowsPack(a, rows)
    BY <1>2, <1>5, <1>6, <1>7 DEF RowsType, RowsPack, Repacks
  <1>9. QED
    BY <1>8 DEF rows

(* Whatever a mutation writes: the transaction has the replay row and the  *)
(* locks of its groups, the rows number the siblings in them, and no other *)
(* transaction has written one of them.                                    *)
LEMMA MutationPacks ==
    ASSUME PlanInv, NEW a \in Attempts, Locked(a), NEW rows \in Mutation(a)
    PROVE  /\ mine[a] /\ held[a] = CommandGroups(a)
           /\ RowsType(rows) /\ RowsPack(a, rows)
           /\ \A b \in Attempts \ {a} : DOMAIN rows \intersect DOMAIN draft[b] = {}
  <1> DEFINE Free(e) == ent[e].status = "absent" /\ \A b \in Attempts : e \notin DOMAIN draft[b]
  <1> USE DEF PlanInv
  <1>1. mine[a]
    BY DEF Mutation, ClaimOpen
  <1>2. \/ req[a].op = "create" /\ \E e \in Ids : Free(e) /\ rows \in Created(a, e)
        \/ req[a].op = "update" /\ TargetUnchanged(a) /\ rows = Updated(a)
        \/ req[a].op = "delete" /\ TargetUnchanged(a) /\ rows = Deleted(a)
    BY <1>1 DEF Mutation, ClaimOpen
  <1>3. req[a].op # "create" => ent[req[a].id].parent = target[a].parent
    BY <1>2 DEF TargetsKnown, Started, Locked, TargetUnchanged
  <1>4. held[a] = CommandGroups(a)
    <2>1. pc[a] = "locking" /\ want[a] = {}
      BY DEF Locked
    <2>2. req[a].op # "create" => ent[req[a].id].status # "deleted"
      BY <1>2 DEF TargetUnchanged
    <2>3. held[a] \union want[a] = CommandGroups(a)
      BY <2>1, <2>2 DEF LocksCover, LocksOf
    <2>4. QED
      BY <2>1, <2>3
  <1>5. ASSUME NEW e \in Ids, req[a].op = "create", Free(e), rows \in Created(a, e)
        PROVE  DOMAIN rows = {e} /\ RowsType(rows) /\ RowsPack(a, rows)
    <2>1. TypeInv /\ Packed(ent) /\ ent[e].status = "absent"
      BY <1>5
    <2>2. DOMAIN rows = {e} /\ rows[e] \in Entities /\ RowsPack(a, rows)
      BY <1>5, <2>1, CreatedPacks
    <2>3. RowsType(rows)
      BY <2>2 DEF RowsType
    <2>4. QED
      BY <2>2, <2>3
  <1>6. RowsType(rows) /\ RowsPack(a, rows)
    BY <1>2, <1>3, <1>5, UpdatedPacks, DeletedPacks
  <1>7. ASSUME NEW b \in Attempts \ {a}, NEW y, y \in DOMAIN rows, y \in DOMAIN draft[b] PROVE FALSE
    <2>1. pc[b] = "written" /\ RowsPack(b, draft[b]) /\ held[b] = CommandGroups(b)
      BY <1>7 DEF DraftsPack, LocksCover, LocksOf
    <2>2. RowFits(b, y, draft[b][y]) /\ RowFits(a, y, rows[y])
      BY <1>6, <1>7, <2>1 DEF RowsPack
    <2>3. req[a].op = "create" => ent[y].status = "absent" /\ y \notin DOMAIN draft[b]
      <3>1. SUFFICES ASSUME req[a].op = "create"
                     PROVE  ent[y].status = "absent" /\ y \notin DOMAIN draft[b]
        OBVIOUS
      <3>2. PICK e \in Ids : Free(e) /\ rows \in Created(a, e)
        BY <1>2, <3>1
      <3>3. y = e
        BY <1>5, <1>7, <3>1, <3>2
      <3>4. QED
        BY <3>2, <3>3
    <2>4. ent[y].status = "live" /\ ent[y].parent \in held[a] /\ ent[y].parent \in held[b]
      BY <1>4, <1>7, <2>1, <2>2, <2>3 DEF RowFits
    <2>5. QED
      BY <2>4 DEF LocksCover, LocksOf
  <1>8. QED
    BY <1>1, <1>4, <1>6, <1>7

-----------------------------------------------------------------------------
(* Steps.                                                                  *)

(* The smaller of at most two lock keys is one of them.                    *)
LEMMA MinIn ==
    ASSUME NEW p \in Int, NEW q \in Int, NEW S, S \subseteq {p, q}, S # {}
    PROVE  Min(S) \in S
  <1>1. S = {p} \/ S = {q} \/ S = {p, q}
    OBVIOUS
  <1>2. \E x \in S : \A y \in S : x <= y
    BY <1>1
  <1>3. QED
    BY <1>2 DEF Min

(* The next lock is one the command waits for.                             *)
LEMMA NextLockWanted ==
    ASSUME TypeInv, LocksCover, NEW a \in Attempts, pc[a] = "locking", want[a] # {}
    PROVE  NextLock(a) \in want[a]
  <1>1. want[a] \subseteq CommandGroups(a)
    BY DEF LocksCover, LocksOf
  <1>2. Groups \subseteq Int
    BY IdsAssumption DEF Groups, Top
  <1>3. CommandGroups(a) \subseteq Groups
    BY RequestOf
  <1>4. \E p, q \in Int : CommandGroups(a) = {p, q}
    <2>1. CASE req[a].op = "create"
      BY <2>1, <1>2, <1>3 DEF CommandGroups
    <2>2. CASE req[a].op # "create"
      BY <2>2, <1>2, <1>3 DEF CommandGroups
    <2>3. QED
      BY <2>1, <2>2
  <1>5. QED
    BY <1>1, <1>4, MinIn DEF NextLock

(* A step is one attempt's, and leaves what belongs to the others alone.   *)
Others(a) ==
    /\ req' = req
    /\ \A b \in Attempts \ {a} : /\ pc'[b] = pc[b] /\ target'[b] = target[b] /\ mine'[b] = mine[b]
                                 /\ want'[b] = want[b] /\ held'[b] = held[b] /\ draft'[b] = draft[b]
                                 /\ answer'[b] = answer[b]

(* A step of one attempt leaves the state of the others alone.             *)
LEMMA OneAttempt ==
    ASSUME TypeInv, NEW a \in Attempts, Step(a) \/ Dies(a)
    PROVE  Others(a)
  <1> USE DEF TypeInv, TypeOK, txVars, Answer, EndTx, Others
  <1>1. CASE ReadTarget(a) \/ RequestCreate(a) \/ TargetNotFound(a)
    BY <1>1 DEF ReadTarget, RequestCreate, TargetNotFound
  <1>2. CASE Claim(a) \/ LockStatement(a) \/ AcquireLock(a)
    BY <1>2 DEF Claim, LockStatement, AcquireLock
  <1>3. CASE Mutate(a)
    BY <1>3 DEF Mutate
  <1>4. CASE Commit(a) \/ AssertFails(a) \/ ReplayRead(a) \/ Respond(a) \/ Dies(a)
    BY <1>4 DEF Commit, AssertFails, ReplayRead, Respond, Dies
  <1>5. QED
    BY <1>1, <1>2, <1>3, <1>4 DEF Step

(* The rows after a commit: those of the draft, and the others as before.  *)
LEMMA CommittedRows ==
    ASSUME TypeInv, NEW a \in Attempts, Commit(a)
    PROVE  /\ pc[a] = "written" /\ RowsType(draft[a])
           /\ ent \in [Ids -> Entities] /\ ent' \in [Ids -> Entities]
           /\ \A y \in DOMAIN draft[a] : y \in Ids /\ ent'[y] = draft[a][y]
           /\ \A y \in Ids \ DOMAIN draft[a] : ent'[y] = ent[y]
  <1>1. pc[a] = "written" /\ ent' = Overlay(ent, draft[a])
    BY DEF Commit
  <1>2. ent \in [Ids -> Entities] /\ RowsType(draft[a])
    BY DEF TypeInv, TypeOK, RowsType
  <1>3. QED
    BY <1>1, <1>2 DEF Overlay, RowsType

(* Every step keeps the types.                                             *)
LEMMA TypeStep == PlanInv /\ [Next]_vars => TypeInv'
  <1> SUFFICES ASSUME PlanInv, [Next]_vars PROVE TypeInv'
    OBVIOUS
  <1> USE DEF PlanInv, TypeInv, TypeOK
  <1>1. CASE UNCHANGED vars
    BY <1>1 DEF vars, txVars
  <1>2. ASSUME NEW a \in Attempts, Step(a) \/ Dies(a) PROVE TypeInv'
    <2> USE DEF txVars, Answer, EndTx
    <2>0. DOMAIN <<>> = {}
      OBVIOUS
    <2>1. CASE ReadTarget(a)
      <3>1. req[a].id \in Ids
        BY <2>1, RequestOf DEF ReadTarget
      <3>2. QED
        BY <2>1, <3>1 DEF ReadTarget
    <2>2. CASE RequestCreate(a) \/ TargetNotFound(a)
      BY <2>2 DEF RequestCreate, TargetNotFound
    <2>3. CASE Claim(a)
      BY <2>3 DEF Claim
    <2>4. CASE LockStatement(a)
      BY <2>4, RequestOf DEF LockStatement
    <2>5. CASE AcquireLock(a)
      <3>1. NextLock(a) \in Groups
        BY <2>5, NextLockWanted DEF AcquireLock
      <3>2. QED
        BY <2>5, <3>1 DEF AcquireLock
    <2>6. CASE Mutate(a)
      <3>1. PICK rows \in Mutation(a) : draft' = [draft EXCEPT ![a] = rows]
        BY <2>6 DEF Mutate
      <3>2. RowsType(rows)
        BY <2>6, <3>1, MutationPacks DEF Mutate
      <3>3. \A b \in Attempts : RowsType(draft'[b])
        BY <3>1, <3>2 DEF RowsType
      <3>4. QED
        BY <2>6, <3>1, <3>3 DEF Mutate, RowsType
    <2>7. CASE Commit(a)
      <3>1. ent' \in [Ids -> Entities]
        BY <2>7, CommittedRows
      <3>2. KeyOf(req[a]) \in Keys /\ req[a] \in Requests
        BY RequestOf
      <3>3. QED
        BY <2>0, <2>7, <3>1, <3>2 DEF Commit
    <2>8. CASE AssertFails(a) \/ ReplayRead(a) \/ Dies(a)
      BY <2>0, <2>8 DEF AssertFails, ReplayRead, Dies
    <2>9. CASE Respond(a)
      <3>1. claims[KeyOf(req[a])] \in {NoResult} \union (Requests \X Attempts)
        BY RequestOf
      <3>2. QED
        BY <2>9, <3>1 DEF Respond, NoResult, NoAnswer
    <2>10. QED
      BY <1>2, <2>1, <2>2, <2>3, <2>4, <2>5, <2>6, <2>7, <2>8, <2>9 DEF Step
  <1>3. QED
    BY <1>1, <1>2 DEF Next

(* Which labels a step takes an attempt from and to.                       *)
LEMMA LabelStep ==
    ASSUME TypeInv, NEW a \in Attempts, Step(a) \/ Dies(a)
    PROVE  /\ pc[a] # "done"
           /\ pc[a] = "committed" => pc'[a] = "done"
           /\ target' # target => ReadTarget(a)
           /\ ent' # ent => Commit(a)
  BY DEF Step, ReadTarget, RequestCreate, TargetNotFound, Claim, LockStatement, AcquireLock, Mutate,
         Locked, Commit, AssertFails, ReplayRead, Respond, Dies, Answer, TypeInv, TypeOK

(* The updated_at of a commit is new, the others were there before.        *)
LEMMA VersionStep == PlanInv /\ [Next]_vars => VersionsSpent'
  <1> SUFFICES ASSUME PlanInv, [Next]_vars PROVE VersionsSpent'
    OBVIOUS
  <1> USE DEF PlanInv
  <1>1. CASE UNCHANGED vars
    BY <1>1 DEF vars, VersionsSpent, Spent
  <1>2. ASSUME NEW a \in Attempts, Step(a) \/ Dies(a) PROVE VersionsSpent'
    <2>1. ASSUME NEW v, Spent(v) PROVE Spent(v)'
      BY <1>2, <2>1, LabelStep, OneAttempt DEF Spent, Others
    <2>2. \A b \in Attempts : Spent(target[b].ver)'
      <3>1. CASE target' = target
        BY <2>1, <3>1 DEF VersionsSpent, Spent
      <3>2. CASE ReadTarget(a)
        <4>1. req[a].id \in Ids /\ target' = [target EXCEPT ![a] = ent[req[a].id]]
          BY <3>2, RequestOf DEF ReadTarget
        <4>2. \A b \in Attempts : target'[b] = target[b] \/ target'[b] = ent[req[a].id]
          BY <4>1 DEF TypeInv, TypeOK
        <4>3. QED
          BY <2>1, <4>1, <4>2 DEF VersionsSpent, Spent
      <3>3. QED
        BY <1>2, <3>1, <3>2, LabelStep
    <2>3. \A e \in Ids : Spent(ent[e].ver)'
      <3>1. CASE ent' = ent
        BY <2>1, <3>1 DEF VersionsSpent, Spent
      <3>2. CASE Commit(a)
        <4>1. pc'[a] = "committed"
          BY <3>2 DEF Commit, TypeInv, TypeOK
        <4>2. Spent(a)'
          BY <4>1 DEF Spent
        <4>3. ASSUME NEW e \in Ids PROVE ent'[e].ver = a \/ ent'[e].ver = ent[e].ver
          <5>1. CASE e \in DOMAIN draft[a]
            <6>1. RowFits(a, e, draft[a][e]) /\ ent'[e] = draft[a][e]
              BY <3>2, <5>1, CommittedRows DEF DraftsPack, RowsPack
            <6>2. QED
              BY <6>1 DEF RowFits
          <5>2. CASE e \notin DOMAIN draft[a]
            BY <3>2, <5>2, CommittedRows
          <5>3. QED
            BY <5>1, <5>2
        <4>4. QED
          BY <2>1, <4>2, <4>3 DEF VersionsSpent, Spent
      <3>3. QED
        BY <1>2, <3>1, <3>2, LabelStep
    <2>4. QED
      BY <2>2, <2>3 DEF VersionsSpent
  <1>3. QED
    BY <1>1, <1>2 DEF Next

(* What a commit does to one row: a deleted one stays, a changed one was   *)
(* live in a locked group or is new.                                       *)
LEMMA CommittedRow ==
    ASSUME PlanInv, NEW a \in Attempts, Commit(a), NEW y \in Ids, ent'[y] # ent[y]
    PROVE  y \in DOMAIN draft[a] /\ ent'[y] = draft[a][y] /\ RowFits(a, y, ent'[y])
           /\ held[a] = CommandGroups(a) /\ ent[y].status # "deleted"
  <1>1. pc[a] = "written" /\ y \in DOMAIN draft[a] /\ ent'[y] = draft[a][y]
    BY CommittedRows DEF PlanInv
  <1>2. RowFits(a, y, draft[a][y]) /\ held[a] = CommandGroups(a)
    BY <1>1 DEF PlanInv, DraftsPack, RowsPack, LocksCover, LocksOf
  <1>3. ent[y].status # "deleted"
    BY <1>2 DEF RowFits
  <1>4. QED
    BY <1>1, <1>2, <1>3

(* Which attempts have read their target after a step.                     *)
LEMMA StartedStep ==
    ASSUME TypeInv, NEW a \in Attempts, Step(a) \/ Dies(a), NEW b \in Attempts,
           Started(b)', req[b].op # "create"
    PROVE  ReadTarget(b) \/ (Started(b) /\ target'[b] = target[b] /\ ~Commit(b))
  <1>1. CASE b # a
    BY <1>1, OneAttempt DEF Others, Started, Commit, TypeInv, TypeOK
  <1>2. CASE b = a
    BY <1>2 DEF Step, ReadTarget, RequestCreate, TargetNotFound, Claim, LockStatement, AcquireLock,
       Mutate, Locked, Commit, AssertFails, ReplayRead, Respond, Dies, Answer, Started, TypeInv, TypeOK
  <1>3. QED
    BY <1>1, <1>2

(* Every step keeps what is known of the targets.                          *)
LEMMA TargetStep == PlanInv /\ [Next]_vars => TargetsKnown'
  <1> SUFFICES ASSUME PlanInv, [Next]_vars PROVE TargetsKnown'
    OBVIOUS
  <1> USE DEF PlanInv
  <1>1. CASE UNCHANGED vars
    BY <1>1 DEF vars, TargetsKnown, Started
  <1>2. ASSUME NEW a \in Attempts, Step(a) \/ Dies(a), NEW b \in Attempts,
               Started(b)', req[b].op # "create"
        PROVE  /\ ent'[req[b].id].status # "absent"
               /\ ent'[req[b].id].ver = target'[b].ver => ent'[req[b].id].parent = target'[b].parent
    <2> DEFINE y == req[b].id
    <2>0. y \in Ids
      BY <1>2, RequestOf
    <2>1. CASE ReadTarget(b)
      BY <2>0, <2>1 DEF ReadTarget, Live, TypeInv, TypeOK
    <2>2. CASE Started(b) /\ target'[b] = target[b] /\ ent'[y] = ent[y]
      BY <1>2, <2>2 DEF TargetsKnown
    <2>3. CASE Started(b) /\ target'[b] = target[b] /\ ~Commit(b) /\ ent'[y] # ent[y]
      <3>1. Commit(a) /\ a # b
        BY <1>2, <2>3, LabelStep
      <3>2. RowFits(a, y, ent'[y]) /\ pc[a] = "written"
        BY <2>0, <2>3, <3>1, CommittedRow DEF Commit
      <3>3. target[b].ver # a
        BY <3>2, SeedAssumption DEF VersionsSpent, Spent
      <3>4. /\ ent[y].status # "absent"
            /\ ent[y].ver = target[b].ver => ent[y].parent = target[b].parent
        BY <1>2, <2>3 DEF TargetsKnown
      <3>5. QED
        BY <2>3, <3>2, <3>3, <3>4 DEF RowFits
    <2>4. QED
      BY <1>2, <2>1, <2>2, <2>3, StartedStep
  <1>3. ASSUME NEW a \in Attempts, Step(a) \/ Dies(a) PROVE TargetsKnown'
    <2>1. req' = req
      BY <1>3, OneAttempt DEF Others
    <2>2. QED
      BY <1>2, <1>3, <2>1 DEF TargetsKnown
  <1>4. QED
    BY <1>1, <1>3 DEF Next

(* Every step keeps the sibling locks exclusive and sufficient.            *)
LEMMA LockStep == PlanInv /\ [Next]_vars => LocksCover'
  <1> SUFFICES ASSUME PlanInv, [Next]_vars PROVE LocksCover'
    OBVIOUS
  <1> USE DEF PlanInv
  <1>1. CASE UNCHANGED vars
    BY <1>1 DEF vars, txVars, LocksCover, LocksOf, CommandGroups, NewParent
  <1>2. ASSUME NEW a \in Attempts, Step(a) \/ Dies(a) PROVE LocksCover'
    <2>0. Others(a)
      BY <1>2, OneAttempt
    <2>1. \/ held'[a] \subseteq held[a]
          \/ \E g : held'[a] = held[a] \union {g} /\ \A b \in Attempts \ {a} : g \notin held[b]
      BY <1>2 DEF Step, ReadTarget, RequestCreate, TargetNotFound, Claim, LockStatement, AcquireLock,
         Mutate, Commit, AssertFails, ReplayRead, Respond, Dies, EndTx, txVars, TypeInv, TypeOK
    <2>2. \A b, c \in Attempts : b # c => held'[b] \intersect held'[c] = {}
      BY <2>0, <2>1 DEF Others, LocksCover, LocksOf
    <2>3. ASSUME NEW b \in Attempts \ {a} PROVE LocksOf(b)'
      <3>1. CommandGroups(b)' = CommandGroups(b)
        BY <2>0 DEF Others, CommandGroups, NewParent
      <3>2. req[b].op # "create" /\ ent[req[b].id].status = "deleted"
                => ent'[req[b].id].status = "deleted"
        BY <1>2, RequestOf, LabelStep, CommittedRow
      <3>3. QED
        BY <2>0, <3>1, <3>2 DEF Others, LocksCover, LocksOf
    <2>4. LocksOf(a)'
      <3>0. LocksOf(a)
        BY DEF LocksCover, LocksOf
      <3>1. pc[a] \notin {"idle"} => CommandGroups(a)' = CommandGroups(a)
        <4>1. pc[a] # "idle" => target' = target
          BY <1>2, LabelStep DEF ReadTarget
        <4>2. QED
          BY <2>0, <4>1 DEF Others, CommandGroups, NewParent
      <3>2. CASE ReadTarget(a) \/ RequestCreate(a) \/ TargetNotFound(a) \/ Claim(a) \/ Respond(a)
        BY <3>0, <3>2 DEF ReadTarget, RequestCreate, TargetNotFound, Claim, Respond, Answer, txVars,
           LocksOf, TypeInv, TypeOK
      <3>3. CASE LockStatement(a)
        <4>1. want'[a] = IF req[a].op = "create" \/ req[a].id \in Live(ent) THEN CommandGroups(a) ELSE {}
          BY <3>3 DEF LockStatement, TypeInv, TypeOK
        <4>2. held'[a] = {} /\ pc'[a] = "locking" /\ UNCHANGED <<req, ent>>
          BY <3>0, <3>3 DEF LockStatement, LocksOf, TypeInv, TypeOK
        <4>3. CASE req[a].op = "create" \/ req[a].id \in Live(ent)
          BY <3>1, <3>3, <4>1, <4>2, <4>3 DEF LocksOf, LockStatement
        <4>4. CASE req[a].op # "create" /\ req[a].id \notin Live(ent)
          <5>1. req[a].id \in Ids /\ ent[req[a].id] \in Entities
            BY <4>4, RequestOf DEF TypeInv, TypeOK
          <5>2. ent[req[a].id].status # "absent" /\ ent[req[a].id].status # "live"
            BY <3>3, <4>4, <5>1 DEF LockStatement, TargetsKnown, Started, Live, TypeInv, TypeOK
          <5>3. ent[req[a].id].status = "deleted"
            BY <5>1, <5>2 DEF Entities
          <5>4. QED
            BY <4>1, <4>2, <4>4, <5>3 DEF LocksOf
        <4>5. QED
          BY <4>3, <4>4
      <3>4. CASE AcquireLock(a)
        <4>1. pc[a] = "locking" /\ want[a] # {} /\ NextLock(a) \in want[a]
          BY <3>4, NextLockWanted DEF AcquireLock
        <4>2. held[a] \union want[a] = CommandGroups(a)
          BY <3>0, <4>1 DEF LocksOf
        <4>3. /\ held'[a] = held[a] \union {NextLock(a)} /\ want'[a] = want[a] \ {NextLock(a)}
              /\ pc'[a] = "locking"
          BY <3>4, <4>1 DEF AcquireLock, TypeInv, TypeOK
        <4>4. held'[a] \union want'[a] = CommandGroups(a)'
          BY <3>1, <4>1, <4>2, <4>3
        <4>5. QED
          BY <4>3, <4>4 DEF LocksOf
      <3>5. CASE Mutate(a)
        <4>1. PICK rows \in Mutation(a) : TRUE
          BY <3>5 DEF Mutate
        <4>2. held[a] = CommandGroups(a) /\ pc[a] = "locking"
          BY <3>5, <4>1, MutationPacks DEF Mutate, Locked
        <4>3. QED
          BY <3>1, <3>5, <4>2 DEF Mutate, LocksOf, TypeInv, TypeOK
      <3>6. CASE Commit(a) \/ AssertFails(a) \/ ReplayRead(a) \/ Dies(a)
        BY <3>6 DEF Commit, AssertFails, ReplayRead, Dies, EndTx, Answer, LocksOf, TypeInv, TypeOK
      <3>7. QED
        BY <1>2, <3>2, <3>3, <3>4, <3>5, <3>6 DEF Step
    <2>5. QED
      BY <2>2, <2>3, <2>4 DEF LocksCover, LocksOf
  <1>3. QED
    BY <1>1, <1>2 DEF Next

(* Drafts of other transactions are about other rows and other groups, so  *)
(* they stay what they were when this one commits.                         *)
LEMMA OtherDraftStays ==
    ASSUME PlanInv, NEW a \in Attempts, Commit(a), NEW b \in Attempts \ {a}, pc[b] = "written"
    PROVE  RowsPack(b, draft[b])'
  <1> USE DEF PlanInv
  <1> DEFINE F == Overlay(ent, draft[b])
             H == Overlay(ent', draft[b])
  <1>0. /\ Others(a) /\ ent \in [Ids -> Entities] /\ ent' \in [Ids -> Entities]
        /\ DOMAIN draft[b] \subseteq Ids
    BY OneAttempt, CommittedRows DEF Step, TypeInv, TypeOK
  <1>1. /\ draft'[b] = draft[b] /\ req' = req /\ target'[b] = target[b]
        /\ CommandGroups(b)' = CommandGroups(b)
    BY <1>0 DEF Others, CommandGroups, NewParent
  <1>2. RowsPack(b, draft[b]) /\ held[b] = CommandGroups(b)
    BY DEF DraftsPack, LocksCover, LocksOf
  <1>3. held[a] = CommandGroups(a) /\ held[a] \intersect held[b] = {} /\ pc[a] = "written"
    BY DEF LocksCover, LocksOf, Commit
  <1>4. ASSUME NEW y \in Ids, ent'[y] # ent[y]
        PROVE  /\ y \notin DOMAIN draft[b]
               /\ ent[y].status = "live" => ent[y].parent \notin CommandGroups(b)
               /\ ent'[y].parent \notin CommandGroups(b)
    <2>1. y \in DOMAIN draft[a] /\ RowFits(a, y, ent'[y])
      BY <1>4, CommittedRow
    <2>2. y \notin DOMAIN draft[b]
      BY <2>1 DEF DraftsPack
    <2>3. QED
      BY <1>2, <1>3, <2>1, <2>2 DEF RowFits
  <1>5. \A y \in DOMAIN draft'[b] : RowFits(b, y, draft[b][y])'
    <2> SUFFICES ASSUME NEW y \in DOMAIN draft[b] PROVE RowFits(b, y, draft[b][y])'
      BY <1>1
    <2>1. ent'[y] = ent[y] /\ RowFits(b, y, draft[b][y])
      BY <1>0, <1>2, <1>4 DEF RowsPack
    <2>2. QED
      BY <1>1, <2>1 DEF RowFits
  <1>6. ASSUME NEW g \in CommandGroups(b) PROVE PackedIn(H, g)
    <2>1. DOMAIN F = Ids /\ DOMAIN H = Ids
      BY <1>0 DEF Overlay
    <2>2. ASSUME NEW y \in Ids
          PROVE  \/ F[y] = H[y]
                 \/ ~(F[y].status = "live" /\ F[y].parent = g) /\ ~(H[y].status = "live" /\ H[y].parent = g)
      <3>1. CASE y \in DOMAIN draft[b] \/ ent'[y] = ent[y]
        BY <1>0, <3>1 DEF Overlay
      <3>2. CASE y \notin DOMAIN draft[b] /\ ent'[y] # ent[y]
        <4>1. F[y] = ent[y] /\ H[y] = ent'[y]
          BY <1>0, <3>2 DEF Overlay
        <4>2. QED
          BY <1>4, <1>6, <3>2, <4>1
      <3>3. QED
        BY <3>1, <3>2
    <2>3. PackedIn(F, g)
      BY <1>2, <1>6 DEF RowsPack
    <2> HIDE DEF F, H
    <2>4. PackedIn(F, g) <=> PackedIn(H, g)
      BY <2>1, <2>2, SameGroup
    <2>5. QED
      BY <2>3, <2>4
  <1>7. req[b].op # "create" => /\ ent'[req[b].id].status = "live"
                                /\ ent'[req[b].id].ver = target[b].ver
    <2> SUFFICES ASSUME req[b].op # "create"
                 PROVE  ent'[req[b].id].status = "live" /\ ent'[req[b].id].ver = target[b].ver
      OBVIOUS
    <2>1. req[b].id \in Ids
      BY RequestOf
    <2>2. ent[req[b].id].status = "live" /\ ent[req[b].id].ver = target[b].ver
      BY <1>2 DEF RowsPack
    <2>3. ent[req[b].id].parent = target[b].parent
      BY <2>2 DEF TargetsKnown, Started
    <2>4. target[b].parent \in CommandGroups(b)
      BY DEF CommandGroups
    <2>5. ent'[req[b].id] = ent[req[b].id]
      BY <1>4, <2>1, <2>2, <2>3, <2>4
    <2>6. QED
      BY <2>2, <2>5
  <1>8. QED
    BY <1>1, <1>5, <1>6, <1>7 DEF RowsPack

(* Every step keeps what the transactions have written fit to be applied.  *)
LEMMA DraftStep == PlanInv /\ [Next]_vars => DraftsPack'
  <1> SUFFICES ASSUME PlanInv, [Next]_vars PROVE DraftsPack'
    OBVIOUS
  <1> USE DEF PlanInv
  <1>1. CASE UNCHANGED vars
    <2>1. UNCHANGED <<ent, req, target, draft, pc>>
      BY <1>1 DEF vars, txVars
    <2>2. \A b \in Attempts : CommandGroups(b)' = CommandGroups(b)
      BY <2>1 DEF CommandGroups, NewParent
    <2>3. ASSUME NEW b \in Attempts, RowsPack(b, draft[b]) PROVE RowsPack(b, draft[b])'
      BY <2>1, <2>2, <2>3 DEF RowsPack, RowFits
    <2>4. QED
      BY <2>1, <2>3 DEF DraftsPack
  <1>2. ASSUME NEW a \in Attempts, Step(a) \/ Dies(a) PROVE DraftsPack'
    <2>0. Others(a)
      BY <1>2, OneAttempt
    <2>1. ASSUME NEW b \in Attempts \ {a}, pc'[b] = "written" PROVE RowsPack(b, draft[b])'
      <3>1. pc[b] = "written"
        BY <2>0, <2>1 DEF Others
      <3>2. CASE ent' = ent
        <4>1. RowsPack(b, draft[b])
          BY <3>1 DEF DraftsPack
        <4>2. /\ draft'[b] = draft[b] /\ req' = req /\ target'[b] = target[b]
              /\ CommandGroups(b)' = CommandGroups(b)
          BY <2>0 DEF Others, CommandGroups, NewParent
        <4>3. QED
          BY <3>2, <4>1, <4>2 DEF RowsPack, RowFits
      <3>3. CASE Commit(a)
        BY <3>1, <3>3, OtherDraftStays
      <3>4. QED
        BY <1>2, <3>2, <3>3, LabelStep
    <2>2. CASE Mutate(a)
      <3>1. PICK rows \in Mutation(a) : draft' = [draft EXCEPT ![a] = rows]
        BY <2>2 DEF Mutate
      <3>2. /\ RowsPack(a, rows)
            /\ \A b \in Attempts \ {a} : DOMAIN rows \intersect DOMAIN draft[b] = {}
        BY <2>2, <3>1, MutationPacks DEF Mutate
      <3>3. /\ draft'[a] = rows /\ pc'[a] = "written" /\ req' = req /\ ent' = ent /\ target' = target
            /\ CommandGroups(a)' = CommandGroups(a)
        BY <2>2, <3>1 DEF Mutate, CommandGroups, NewParent, TypeInv, TypeOK
      <3>4. RowsPack(a, draft[a])'
        BY <3>2, <3>3 DEF RowsPack, RowFits
      <3>5. \A b, c \in Attempts : b # c => DOMAIN draft'[b] \intersect DOMAIN draft'[c] = {}
        BY <2>0, <3>2, <3>3 DEF Others, DraftsPack
      <3>6. QED
        BY <2>0, <2>1, <3>3, <3>4, <3>5 DEF DraftsPack, Others
    <2>3. CASE ~Mutate(a)
      <3>1. pc'[a] # "written" /\ DOMAIN draft'[a] = {}
        <4>1. DOMAIN <<>> = {}
          OBVIOUS
        <4>2. CASE EndTx(a) /\ pc'[a] # "written"
          BY <4>1, <4>2 DEF EndTx, TypeInv
        <4>3. CASE UNCHANGED draft /\ pc[a] # "written" /\ pc'[a] # "written"
          BY <4>3 DEF DraftsPack
        <4>4. QED
          BY <1>2, <2>3, <4>2, <4>3 DEF Step, ReadTarget, RequestCreate, TargetNotFound, Claim,
             LockStatement, AcquireLock, Commit, AssertFails, ReplayRead, Respond, Dies, Answer,
             txVars, TypeInv, TypeOK
      <3>2. QED
        BY <2>0, <2>1, <3>1 DEF DraftsPack, Others
    <2>4. QED
      BY <2>2, <2>3
  <1>3. QED
    BY <1>1, <1>2 DEF Next

(* A commit numbers the groups it has locked and changes no other.         *)
LEMMA PackedStep == PlanInv /\ [Next]_vars => Packed(ent)'
  <1> SUFFICES ASSUME PlanInv, [Next]_vars PROVE Packed(ent')
    BY DEF Packed, Group, Live
  <1> USE DEF PlanInv
  <1>1. CASE ent' = ent
    BY <1>1
  <1>2. ASSUME NEW a \in Attempts, Commit(a), NEW g \in Groups PROVE PackedIn(ent', g)
    <2>0. ent \in [Ids -> Entities] /\ ent' \in [Ids -> Entities]
      BY <1>2, CommittedRows
    <2>1. CASE g \in CommandGroups(a)
      <3>1. ent' = Overlay(ent, draft[a]) /\ RowsPack(a, draft[a])
        BY <1>2 DEF Commit, DraftsPack
      <3>2. QED
        BY <2>1, <3>1 DEF RowsPack
    <2>2. CASE g \notin CommandGroups(a)
      <3>1. PackedIn(ent, g)
        BY PackedByGroup
      <3>2. ASSUME NEW y \in Ids, ent'[y] # ent[y]
            PROVE  ~(ent[y].status = "live" /\ ent[y].parent = g) /\ ent'[y].parent # g
        BY <1>2, <2>2, <3>2, CommittedRow DEF RowFits
      <3>3. PackedIn(ent, g) <=> PackedIn(ent', g)
        BY <2>0, <3>2, SameGroup
      <3>4. QED
        BY <3>1, <3>3
    <2>3. QED
      BY <2>1, <2>2
  <1>3. ASSUME NEW a \in Attempts, Commit(a) PROVE Packed(ent')
    BY <1>2, <1>3, PackedByGroup
  <1>4. QED
    BY <1>1, <1>3, LabelStep DEF Next, vars

-----------------------------------------------------------------------------
(* The theorems.                                                           *)

(* The parts of the invariant carry each other from one state to the next. *)
LEMMA PlanInductive == Spec => []PlanInv
  <1>1. Init => PlanInv
    <2> SUFFICES ASSUME Init PROVE PlanInv
      OBVIOUS
    <2>1. WellFormed(ent)
      BY PlansAssumption DEF Init
    <2>2. DOMAIN <<>> = {}
      OBVIOUS
    <2>3. Absent \in Entities /\ Absent.ver = Seed
      BY DEF Absent, Entities, Groups
    <2>4. TypeInv
      BY <2>1, <2>2, <2>3 DEF Init, TypeInv, TypeOK, WellFormed, NoResult, NoAnswer
    <2>5. VersionsSpent
      BY <2>1, <2>3 DEF Init, VersionsSpent, Spent, WellFormed
    <2>6. TargetsKnown
      BY DEF Init, TargetsKnown, Started
    <2>7. LocksCover
      BY DEF Init, LocksCover, LocksOf
    <2>8. DraftsPack
      BY <2>2 DEF Init, DraftsPack
    <2>9. QED
      BY <2>1, <2>4, <2>5, <2>6, <2>7, <2>8 DEF PlanInv, WellFormed
  <1>2. PlanInv /\ [Next]_vars => PlanInv'
    BY TypeStep, VersionStep, TargetStep, LockStep, DraftStep, PackedStep DEF PlanInv
  <1>3. QED
    BY <1>1, <1>2, PTL DEF Spec

(* Every variable keeps its type: the rows the mutations write, re-packed, *)
(* are rows of plan entities.                                              *)
THEOREM TypesKept == Spec => []TypeOK
  <1>1. PlanInv => TypeOK
    BY DEF PlanInv, TypeInv
  <1>2. QED
    BY <1>1, PlanInductive, PTL

(* Siblings are numbered 0, 1, 2, ... in every committed plan, however     *)
(* many creates, moves and deletes overlap: the sibling locks are enough.  *)
THEOREM SiblingsStayPacked == Spec => []SiblingsPacked
  <1>1. PlanInv => SiblingsPacked
    BY DEF PlanInv, SiblingsPacked
  <1>2. QED
    BY <1>1, PlanInductive, PTL

(* No update or delete commits over a revision its route has not read:     *)
(* between the check and the commit the locks keep the others out.         *)
THEOREM UpdatesAreNotLost == Spec => NoLostUpdate
  <1>1. ASSUME PlanInv, NEW a \in Attempts, pc[a] = "written", req[a].op # "create"
        PROVE  ent[req[a].id].ver = target[a].ver /\ ent[req[a].id].status = "live"
    BY <1>1 DEF PlanInv, DraftsPack, RowsPack
  <1>2. PlanInv => [\A a \in Attempts :
            pc[a] = "written" /\ pc'[a] = "committed" /\ req[a].op # "create"
                => ent[req[a].id].ver = target[a].ver /\ ent[req[a].id].status = "live"]_vars
    BY <1>1
  <1>3. QED
    BY <1>2, PlanInductive, PTL DEF NoLostUpdate

(* Every step keeps the replay row of a key with one open transaction.     *)
LEMMA ClaimStep == PlanInv /\ ClaimsExclusive /\ [Next]_vars => ClaimsExclusive'
  <1> SUFFICES ASSUME PlanInv, ClaimsExclusive, [Next]_vars PROVE ClaimsExclusive'
    OBVIOUS
  <1>0. TypeInv
    BY DEF PlanInv
  <1>1. CASE UNCHANGED vars
    BY <1>1 DEF vars, txVars, ClaimsExclusive, InTx
  <1>2. ASSUME NEW a \in Attempts, Step(a) \/ Dies(a) PROVE ClaimsExclusive'
    <2>0. Others(a) /\ KeyOf(req[a]) \in Keys
      BY <1>0, <1>2, OneAttempt, RequestOf
    <2>1. CASE ReadTarget(a) \/ RequestCreate(a) \/ LockStatement(a) \/ AcquireLock(a)
      BY <1>0, <2>1 DEF ReadTarget, RequestCreate, LockStatement, AcquireLock, txVars, InTx,
         ClaimsExclusive, TypeInv, TypeOK
    <2>2. CASE TargetNotFound(a) \/ AssertFails(a) \/ Respond(a) \/ Dies(a)
      BY <1>0, <2>2 DEF TargetNotFound, AssertFails, Respond, Dies, Answer, EndTx, txVars, InTx,
         ClaimsExclusive, TypeInv, TypeOK
    <2>3. CASE Claim(a)
      <3>1. pc'[a] = "claimed" /\ claims' = claims /\ req' = req /\ answer' = answer
        BY <1>0, <2>3 DEF Claim, TypeInv, TypeOK
      <3>2. mine'[a] <=> claims[KeyOf(req[a])] = NoResult
        BY <1>0, <2>3 DEF Claim, TypeInv, TypeOK
      <3>3. \A b \in Attempts \ {a} : pc'[b] = pc[b] /\ mine'[b] = mine[b]
        BY <2>0 DEF Others
      <3>4. pc[a] = "begin" /\ \A b \in Attempts :
                ~(InTx(b) /\ mine[b] /\ KeyOf(req[b]) = KeyOf(req[a]))
        BY <2>3 DEF Claim
      <3>5. QED
        BY <3>1, <3>2, <3>3, <3>4 DEF ClaimsExclusive, InTx
    <2>4. CASE Mutate(a)
      <3>1. mine[a]
        BY <2>4, MutationPacks DEF Mutate
      <3>2. QED
        BY <1>0, <2>4, <3>1 DEF Mutate, Locked, InTx, ClaimsExclusive, TypeInv, TypeOK
    <2>5. CASE Commit(a)
      <3>1. mine[a] /\ InTx(a)
        BY <2>5 DEF Commit, ClaimsExclusive, InTx
      <3>2. claims' = [claims EXCEPT ![KeyOf(req[a])] = <<req[a], a>>]
        BY <2>5, <3>1 DEF Commit
      <3>3. <<req[a], a>> # NoResult
        BY DEF NoResult
      <3>4. \A b \in Attempts : claims'[KeyOf(req[b])] =
                IF KeyOf(req[b]) = KeyOf(req[a]) THEN <<req[a], a>> ELSE claims[KeyOf(req[b])]
        BY <1>0, <2>0, <3>2, RequestOf DEF TypeInv, TypeOK
      <3>5. QED
        BY <1>0, <2>5, <3>1, <3>3, <3>4 DEF Commit, EndTx, InTx, ClaimsExclusive, TypeInv, TypeOK
    <2>6. CASE ReplayRead(a)
      BY <1>0, <2>6 DEF ReplayRead, Locked, EndTx, InTx, ClaimsExclusive, TypeInv, TypeOK
    <2>7. QED
      BY <1>2, <2>1, <2>2, <2>3, <2>4, <2>5, <2>6 DEF Step
  <1>3. QED
    BY <1>1, <1>2 DEF Next

(* Nobody is under way early, and only attempts are stray.                 *)
LEMMA StrayStep == Strict!Surroundings
  BY DEF Strict!Surroundings, TargetAbsent

(* Every step is a step of StrictCommand.                                  *)
LEMMA StrictStep == PlanInv /\ ClaimsExclusive /\ [Next]_vars => [Strict!Next]_(Strict!vars)
  <1> SUFFICES ASSUME PlanInv, ClaimsExclusive, [Next]_vars PROVE [Strict!Next]_(Strict!vars)
    OBVIOUS
  <1>0. TypeInv
    BY DEF PlanInv
  <1>1. CASE UNCHANGED vars
    BY <1>1 DEF vars, Strict!vars, TargetAbsent, Live
  <1>2. ASSUME NEW a \in Attempts, Commit(a) PROVE Strict!Next
    <2>1. mine[a] /\ claims[KeyOf(req[a])] = NoResult
      BY <1>2 DEF Commit, ClaimsExclusive, InTx
    <2>2. /\ req' = req /\ answer' = answer
          /\ claims' = [claims EXCEPT ![KeyOf(req[a])] = <<req[a], a>>]
          /\ spine' = spine \union {<<req[a], a>>}
      BY <1>2, <2>1 DEF Commit
    <2>3. Strict!Perform(a)
      BY <2>1, <2>2 DEF Strict!Perform, Strict!NoResult, NoResult
    <2>4. QED
      BY <2>2, <2>3, StrayStep DEF Strict!Next, Strict!Call
  <1>3. ASSUME NEW a \in Attempts, Step(a) \/ Dies(a), ~Commit(a) PROVE Strict!Next
    <2>1. UNCHANGED <<req, claims, spine>>
      BY <1>3 DEF Step, ReadTarget, RequestCreate, TargetNotFound, Claim, LockStatement,
         AcquireLock, Mutate, AssertFails, ReplayRead, Respond, Dies
    <2>2. CASE UNCHANGED answer
      BY <2>1, <2>2, StrayStep DEF Strict!Next, Strict!Call
    <2>3. CASE TargetNotFound(a) \/ AssertFails(a)
      <3>1. answer[a] = NoAnswer /\ answer' = [answer EXCEPT ![a] = Refused]
        BY <2>3 DEF TargetNotFound, AssertFails, Locked, Answer, ClaimsExclusive
      <3>2. TargetNotFound(a) => a \in TargetAbsent
        BY DEF TargetNotFound, TargetAbsent
      <3>3. AssertFails(a) => claims[KeyOf(req[a])] = NoResult
        BY DEF AssertFails, Locked, ClaimsExclusive, InTx
      <3>4. ~Strict!Owed(a)
        BY <2>3, <3>2, <3>3 DEF Strict!Owed, Strict!Performed, Strict!NoResult, NoResult
      <3>5. Strict!Refuse(a)
        BY <3>1, <3>4 DEF Strict!Refuse, Strict!NoAnswer, NoAnswer, Strict!Refused, Refused
      <3>6. QED
        BY <2>1, <3>5, StrayStep DEF Strict!Next, Strict!Call
    <2>4. CASE Respond(a)
      <3>1. answer[a] = NoAnswer /\ claims[KeyOf(req[a])] # NoResult
        BY <2>4 DEF Respond, ClaimsExclusive
      <3>2. CASE DigestMatches(a)
        <4>1. Strict!Report(a)
          BY <2>1, <2>4, <3>1, <3>2 DEF Respond, Answer, DigestMatches, Strict!Report,
             Strict!NoAnswer, NoAnswer, Strict!NoResult, NoResult
        <4>2. QED
          BY <2>1, <4>1, StrayStep DEF Strict!Next, Strict!Call
      <3>3. CASE ~DigestMatches(a)
        <4>1. ~Strict!Owed(a)
          BY <3>3 DEF DigestMatches, Strict!Owed, Strict!Performed
        <4>2. Strict!Refuse(a)
          BY <2>4, <3>1, <3>3, <4>1 DEF Respond, Answer, Strict!Refuse, Strict!NoAnswer, NoAnswer,
             Strict!Refused, Refused
        <4>3. QED
          BY <2>1, <4>2, StrayStep DEF Strict!Next, Strict!Call
      <3>4. QED
        BY <3>2, <3>3
    <2>5. QED
      BY <1>3, <2>2, <2>3, <2>4 DEF Step, ReadTarget, RequestCreate, Claim, LockStatement,
         AcquireLock, Mutate, ReplayRead, Dies
  <1>4. QED
    BY <1>1, <1>2, <1>3 DEF Next

(* The plan commands implement StrictCommand: a key performs one request,  *)
(* nobody else is told of a success, and a call of the performed request   *)
(* is not refused, unless its route finds no live entity.                  *)
THEOREM PlanCommandsAreStrict == Spec => ImplementsStrictCommand
  <1>1. Init => ClaimsExclusive /\ Strict!Init
    BY DEF Init, ClaimsExclusive, InTx, Strict!Init, Strict!Keys, Keys, Strict!NoResult,
       NoResult, Strict!NoAnswer, NoAnswer, TargetAbsent
  <1>2. QED
    BY <1>1, PlanInductive, ClaimStep, StrictStep, PTL
       DEF Spec, ImplementsStrictCommand, Strict!Spec

-----------------------------------------------------------------------------
(* Every step of a strict command lets the outcomes stand: a key with an   *)
(* outcome keeps it, and only an outcome is reported.                      *)
LEMMA OutcomeStep == Strict!OutcomesStand /\ [Strict!Next]_(Strict!vars) => Strict!OutcomesStand'
  <1> SUFFICES ASSUME Strict!OutcomesStand, [Strict!Next]_(Strict!vars) PROVE Strict!OutcomesStand'
    OBVIOUS
  <1> USE DEF Strict!OutcomesStand, Strict!Keys, Strict!NoResult, Strict!NoAnswer, Strict!Succeeded
  <1>1. CASE UNCHANGED Strict!vars
    BY <1>1 DEF Strict!vars
  <1>2. ASSUME NEW a \in Attempts, UNCHANGED <<req, claims, spine>>,
               Strict!Report(a) \/ Strict!Refuse(a) \/ UNCHANGED answer
        PROVE  Strict!OutcomesStand'
    BY <1>2 DEF Strict!Report, Strict!Refuse
  <1>3. ASSUME NEW a \in Attempts, UNCHANGED req, Strict!Perform(a),
               Strict!Report(a) \/ UNCHANGED answer
        PROVE  Strict!OutcomesStand'
    <2>1. \A k \in Keys : claims'[k] = IF k = KeyOf(req[a]) THEN <<req[a], a>> ELSE claims[k]
      BY <1>3 DEF Strict!Perform, Keys
    <2>2. \A e \in spine : KeyOf(e[1]) \in Keys /\ KeyOf(e[1]) # KeyOf(req[a])
      BY <1>3 DEF Strict!Perform, Keys
    <2>3. \A e \in spine' : claims'[KeyOf(e[1])] = e
      BY <1>3, <2>1, <2>2 DEF Strict!Perform, Keys
    <2>4. \A b \in Attempts : Strict!Succeeded(b) => KeyOf(req[b]) # KeyOf(req[a])
      BY <1>3 DEF Strict!Perform
    <2>5. QED
      BY <1>3, <2>1, <2>2, <2>3, <2>4 DEF Strict!Perform, Strict!Report, Keys
  <1>4. QED
    BY <1>1, <1>2, <1>3 DEF Strict!Next, Strict!Call

(* The plan commands, seen by their callers: a key changes the plan once   *)
(* at most, a success is told of the caller's own request, and retries     *)
(* are told the same, however they overlap.                                *)
THEOREM PlanKeysHaveOneOutcome == Spec => []Strict!OneOutcomePerKey
  <1>1. Strict!Init => Strict!OutcomesStand
    BY DEF Strict!Init, Strict!OutcomesStand, Strict!Succeeded
  <1>2. Strict!OutcomesStand => Strict!OneOutcomePerKey
    BY DEF Strict!OutcomesStand, Strict!OneOutcomePerKey, Strict!Succeeded, Strict!NoResult,
       Strict!NoAnswer, Strict!Keys
  <1>3. QED
    BY <1>1, <1>2, OutcomeStep, PlanCommandsAreStrict, PTL DEF ImplementsStrictCommand, Strict!Spec

-----------------------------------------------------------------------------
(* Nobody waits in a circle.  A call waits for the transaction that has    *)
(* inserted its key, before it holds anything; or for a sibling lock,      *)
(* holding only locks with smaller keys.  Along a chain of waits the lock  *)
(* keys climb, and there are finitely many.                                *)

WaitsForKey(a, b) ==
    /\ pc[a] = "begin"
    /\ InTx(b) /\ mine[b] /\ KeyOf(req[b]) = KeyOf(req[a])

WantsLock(a) == pc[a] = "locking" /\ want[a] # {}
WaitsForLock(a, b) == WantsLock(a) /\ b # a /\ NextLock(a) \in held[b]

(* What keeps Claim or AcquireLock of a from being taken: b's transaction. *)
WaitsFor(a, b) == WaitsForKey(a, b) \/ WaitsForLock(a, b)

(* However calls are chosen, one of them waits for none of the others.     *)
NoWaitingCircle ==
    \A S \in SUBSET Attempts : S # {} => \E a \in S : \A b \in S : ~WaitsFor(a, b)

(* The locks are taken in the order of their keys.                         *)
LocksClimb ==
    \A a \in Attempts : WantsLock(a) => \A g \in held[a], h \in want[a] : g < h

(* A non-empty set of numbers has a least one.                             *)
LEMMA LeastNumber ==
    ASSUME NEW T, T \subseteq Nat, T # {}
    PROVE  \E n \in T : \A m \in T : n <= m
  <1> DEFINE R == OpToRel(<, Nat)
  <1>1. IsWellFoundedOn(R, Nat)
    BY NatLessThanWellFounded
  <1>2. \A m, n \in Nat : <<m, n>> \in R <=> m < n
    BY DEF OpToRel
  <1> HIDE DEF R
  <1>3. PICK n \in T : \A m \in T : ~(<<m, n>> \in R)
    BY <1>1, WFMin
  <1>4. ASSUME NEW m \in T PROVE n <= m
    <2>1. m \in Nat /\ n \in Nat /\ ~(m < n)
      BY <1>2, <1>3
    <2>2. QED
      BY <2>1
  <1>5. QED
    BY <1>4

(* The next lock has the smallest key of those the command has yet to take. *)
LEMMA NextLockSmallest ==
    ASSUME TypeInv, NEW a \in Attempts, WantsLock(a)
    PROVE  /\ NextLock(a) \in want[a] /\ NextLock(a) \in Groups
           /\ \A h \in want[a] : NextLock(a) <= h
  <1>1. Groups \subseteq Nat
    BY IdsAssumption DEF Groups, Top
  <1>2. want[a] \subseteq Groups /\ want[a] # {}
    BY DEF TypeInv, TypeOK, WantsLock
  <1>3. \E x \in want[a] : \A y \in want[a] : x <= y
    BY <1>1, <1>2, LeastNumber
  <1>4. QED
    BY <1>2, <1>3 DEF NextLock, Min

(* Every step takes locks upwards only.                                    *)
LEMMA ClimbStep == PlanInv /\ LocksClimb /\ [Next]_vars => LocksClimb'
  <1> SUFFICES ASSUME PlanInv, LocksClimb, [Next]_vars PROVE LocksClimb'
    OBVIOUS
  <1>0. TypeInv /\ LocksCover
    BY DEF PlanInv
  <1>1. CASE UNCHANGED vars
    BY <1>1 DEF vars, txVars, LocksClimb, WantsLock
  <1>2. ASSUME NEW a \in Attempts, Step(a) \/ Dies(a) PROVE LocksClimb'
    <2>0. Others(a)
      BY <1>0, <1>2, OneAttempt
    <2>1. SUFFICES ASSUME WantsLock(a)', NEW g \in held'[a], NEW h \in want'[a]
                   PROVE  g < h
      BY <2>0 DEF Others, LocksClimb, WantsLock
    <2>2. CASE LockStatement(a)
      <3>1. held'[a] = {}
        BY <1>0, <2>2 DEF LockStatement, LocksCover, LocksOf
      <3>2. QED
        BY <3>1
    <2>3. CASE AcquireLock(a)
      <3>1. WantsLock(a)
        BY <2>3 DEF AcquireLock, WantsLock
      <3>2. /\ held'[a] = held[a] \union {NextLock(a)}
            /\ want'[a] = want[a] \ {NextLock(a)}
        BY <1>0, <2>3 DEF AcquireLock, TypeInv, TypeOK
      <3>3. /\ NextLock(a) \in want[a] /\ \A x \in want[a] : NextLock(a) <= x
        BY <1>0, <3>1, NextLockSmallest
      <3>4. want[a] \subseteq Nat
        <4>1. want[a] \subseteq Groups
          BY <1>0 DEF TypeInv, TypeOK
        <4>2. Groups \subseteq Nat
          BY IdsAssumption DEF Groups, Top
        <4>3. QED
          BY <4>1, <4>2
      <3>5. CASE g = NextLock(a)
        BY <3>2, <3>3, <3>4, <3>5
      <3>6. CASE g \in held[a]
        BY <3>1, <3>2, <3>6 DEF LocksClimb
      <3>7. QED
        BY <3>2, <3>5, <3>6
    <2>4. CASE ~LockStatement(a) /\ ~AcquireLock(a)
      <3>1. pc'[a] # "locking"
        BY <1>0, <1>2, <2>4 DEF Step, ReadTarget, RequestCreate, TargetNotFound, Claim, Mutate,
           Commit, AssertFails, ReplayRead, Respond, Dies, Answer, TypeInv, TypeOK
      <3>2. QED
        BY <2>1, <3>1 DEF WantsLock
    <2>5. QED
      BY <2>2, <2>3, <2>4
  <1>3. QED
    BY <1>1, <1>2 DEF Next

(* Whoever is waited for and waits itself wants a lock, and one with a     *)
(* larger key than the lock it is waited for.                              *)
LEMMA WaitsClimb ==
    ASSUME PlanInv, LocksClimb, NEW a \in Attempts, NEW b \in Attempts, NEW c \in Attempts,
           WaitsFor(a, b), WaitsFor(b, c)
    PROVE  WantsLock(b) /\ (WantsLock(a) => NextLock(a) < NextLock(b))
  <1>1. pc[b] # "begin"
    BY DEF WaitsFor, WaitsForKey, WaitsForLock, InTx, PlanInv, LocksCover, LocksOf
  <1>2. WantsLock(b)
    BY <1>1 DEF WaitsFor, WaitsForKey, WaitsForLock
  <1>3. WantsLock(a) => NextLock(a) \in held[b]
    BY DEF WaitsFor, WaitsForKey, WaitsForLock, WantsLock
  <1>4. NextLock(b) \in want[b]
    BY <1>2, NextLockSmallest DEF PlanInv
  <1>5. QED
    BY <1>2, <1>3, <1>4 DEF LocksClimb

(* The number of lock keys above a key: it shrinks as keys climb.          *)
Above(g) == Cardinality({h \in Groups : g < h})

LEMMA AboveShrinks ==
    ASSUME NEW g \in Groups, NEW h \in Groups, g < h
    PROVE  Above(g) \in Nat /\ Above(h) \in Nat /\ Above(h) < Above(g)
  <1> DEFINE G == {x \in Groups : g < x}
             H == {x \in Groups : h < x}
  <1>1. IsFiniteSet(Groups) /\ Groups \subseteq Nat
    BY IdsAssumption, FS_AddElement DEF Groups, Top
  <1>2. IsFiniteSet(G) /\ IsFiniteSet(H)
    BY <1>1, FS_Subset
  <1>3. H \in SUBSET G /\ H # G
    <2>1. ASSUME NEW x \in H PROVE x \in G
      <3>1. x \in Nat /\ g \in Nat /\ h \in Nat /\ x \in Groups /\ h < x
        BY <1>1
      <3>2. g < x
        BY <3>1
      <3>3. QED
        BY <3>1, <3>2
    <2>2. h \in G /\ h \notin H
      <3>1. h \in Nat /\ ~(h < h)
        BY <1>1
      <3>2. QED
        BY <3>1
    <2>3. QED
      BY <2>1, <2>2
  <1> HIDE DEF G, H
  <1>4. Cardinality(G) \in Nat /\ Cardinality(H) \in Nat
    BY <1>2, FS_CardinalityType
  <1>5. Cardinality(H) <= Cardinality(G) /\ Cardinality(H) # Cardinality(G)
    BY <1>2, <1>3, FS_Subset
  <1>6. QED
    BY <1>4, <1>5 DEF Above, G, H

(* The number of keys above a key is a number.                             *)
LEMMA AboveNat == ASSUME NEW g PROVE Above(g) \in Nat
  <1>1. IsFiniteSet(Groups)
    BY IdsAssumption, FS_AddElement DEF Groups, Top
  <1>2. IsFiniteSet({h \in Groups : g < h})
    BY <1>1, FS_Subset
  <1>3. QED
    BY <1>2, FS_CardinalityType DEF Above

(* No two calls and no larger number of them ever wait for each other: the *)
(* plan commands cannot deadlock on replay rows and sibling locks, for any *)
(* number of overlapping creates, moves and deletions.  This is the safety *)
(* half of EveryAttemptAnswers.                                            *)
THEOREM NobodyWaitsInACircle == Spec => []NoWaitingCircle
  <1>1. PlanInv /\ LocksClimb => NoWaitingCircle
    <2> SUFFICES ASSUME PlanInv, LocksClimb, NEW S \in SUBSET Attempts, S # {}
                 PROVE  \E a \in S : \A b \in S : ~WaitsFor(a, b)
      BY DEF NoWaitingCircle
    <2> DEFINE T == {a \in S : WantsLock(a)}
               N == {Above(NextLock(a)) : a \in T}
    <2>1. CASE T = {}
      <3>1. PICK a \in S : TRUE
        OBVIOUS
      <3>2. ASSUME NEW b \in S, WaitsFor(a, b), NEW c \in S, WaitsFor(b, c) PROVE FALSE
        BY <2>1, <3>2, WaitsClimb
      <3>3. QED
        BY <3>1, <3>2
    <2>2. CASE T # {}
      <3>1. N \subseteq Nat /\ N # {}
        BY <2>2, AboveNat
      <3>2. PICK a \in T : \A x \in T : Above(NextLock(a)) <= Above(NextLock(x))
        <4> HIDE DEF T
        <4>1. PICK n \in N : \A m \in N : n <= m
          <5> HIDE DEF N
          <5>1. QED
            BY <3>1, LeastNumber
        <4>2. QED
          BY <4>1
      <3>3. ASSUME NEW b \in S, WaitsFor(a, b), NEW c \in S, WaitsFor(b, c) PROVE FALSE
        <4>1. b \in T /\ NextLock(a) < NextLock(b)
          BY <3>3, WaitsClimb
        <4>2. NextLock(a) \in Groups /\ NextLock(b) \in Groups
          BY <4>1, NextLockSmallest DEF PlanInv
        <4>3. Above(NextLock(b)) < Above(NextLock(a))
          BY <4>1, <4>2, AboveShrinks
        <4>4. Above(NextLock(a)) \in Nat /\ Above(NextLock(b)) \in Nat
          BY AboveNat
        <4>5. QED
          BY <3>2, <4>1, <4>3, <4>4
      <3>4. QED
        BY <3>3
    <2>3. QED
      BY <2>1, <2>2
  <1>2. Init => LocksClimb
    BY DEF Init, LocksClimb, WantsLock
  <1>3. QED
    BY <1>1, <1>2, PlanInductive, ClimbStep, PTL DEF Spec
=============================================================================
