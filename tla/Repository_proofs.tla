------------------------- MODULE Repository_proofs -------------------------
(***************************************************************************)
(* Type correctness of module Repository, and what a start that goes       *)
(* through has made, for any players, titles and names: the right groups,  *)
(* fixed addresses that differ, names that lead to members, and scores     *)
(* that agree in every place they are kept; and what ends one that does    *)
(* not.                                                                    *)
(***************************************************************************)
EXTENDS Repository, SequenceTheorems, FiniteSetTheorems, TLAPS

-----------------------------------------------------------------------------
(***************************************************************************)
(* Types.                                                                  *)
(***************************************************************************)
LEMMA ProgramTypes ==
  ASSUME NEW t \in Titles, NEW two \in BOOLEAN
  PROVE  /\ Rewritten(t, two) \in Programs(Titles)
         /\ Rewritten(t, two).name \in [{0, 1} -> Names]
         /\ Rewritten(t, two).title = t /\ Rewritten(t, two).two = two
<1>1. Rewritten(t, two) \in Programs(Titles)
  BY DEF Programs
<1>2. /\ Rewritten(t, two).title = t /\ Rewritten(t, two).two = two
      /\ Rewritten(t, two).name = IF two THEN [i \in {0, 1} |-> IF i = 0 THEN First[t]
                                                     ELSE Second[t]]
            ELSE [i \in {0, 1} |-> IF i = 0 THEN Plain[t]
                                              ELSE Second[t]]
  BY DEF Rewritten
<1>3. Rewritten(t, two).name \in [{0, 1} -> Names]
  BY <1>2, RepositoryAssumption DEF RepositoryAssumption
<1>4. QED BY <1>1, <1>2, <1>3

LEMMA FreshTypes ==
  ASSUME NEW t \in Titles
  PROVE  /\ FreshZombie(t) \in ZombiePrograms(Titles)
         /\ Rewritten(t, FALSE) \in ZombiePrograms(Titles)
         /\ FreshZombie(t).name \in [{0, 1} -> Names]
         /\ FreshZombie(t).title = t /\ FreshZombie(t).two = FALSE
<1>1. /\ FreshZombie(t) \in ZombiePrograms(Titles)
      /\ Rewritten(t, FALSE) \in ZombiePrograms(Titles)
  BY DEF ZombiePrograms
<1>2. /\ FreshZombie(t).title = t /\ FreshZombie(t).two = FALSE
      /\ FreshZombie(t).name = [i \in {0, 1} |-> IF i = 0 THEN First[t] ELSE Second[t]]
  BY DEF FreshZombie
<1>3. FreshZombie(t).name \in [{0, 1} -> Names]
  BY <1>2, RepositoryAssumption DEF RepositoryAssumption
<1>4. QED BY <1>1, <1>2, <1>3

(* Every program has a name, a title and a type.                           *)
LEMMA PageTypes ==
  ASSUME page \in Pages
  PROVE  /\ \A f \in Files : Name(f) \in Names
         /\ \A p \in Owners : IsTwo(p) \in BOOLEAN
         /\ \A p \in Owners : page.program[p].title \in Titles
<1>1. ASSUME NEW p \in Owners
      PROVE  /\ page.program[p].name \in [{0, 1} -> Names]
             /\ page.program[p].two \in BOOLEAN
             /\ page.program[p].title \in Titles
  <2>1. page.program[p] \in Programs(Titles) \cup ZombiePrograms(Titles)
    BY DEF Pages
  <2>2. CASE page.program[p] \in Programs(Titles)
    <3>1. PICK t \in Titles, two \in BOOLEAN : page.program[p] = Rewritten(t, two)
      BY <2>2 DEF Programs
    <3>2. QED BY <3>1, ProgramTypes
  <2>3. CASE page.program[p] \in ZombiePrograms(Titles)
    <3>1. PICK t \in Titles : \/ page.program[p] = Rewritten(t, FALSE)
                              \/ page.program[p] = FreshZombie(t)
      BY <2>3 DEF ZombiePrograms
    <3>2. CASE page.program[p] = Rewritten(t, FALSE)
      BY <3>2, ProgramTypes
    <3>3. CASE page.program[p] = FreshZombie(t)
      <4>1. page.program[p].two \in BOOLEAN
        BY <3>3, FreshTypes
      <4>2. QED BY <3>3, <4>1, FreshTypes
    <3>4. QED BY <3>1, <3>2, <3>3
  <2>4. QED BY <2>1, <2>2, <2>3
<1>2. QED BY <1>1 DEF Name, IsTwo, Files

LEMMA MemberTypes ==
  ASSUME page \in Pages, isInDebug \in BOOLEAN, NEW f \in Files
  PROVE  /\ ~Refuses(f) => PlayerMember(f) \in Warrior
         /\ Member(f, Random) \in Warrior
         /\ page.address[f] \in Slots => Member(f, page.address[f]) \in Warrior
BY PageTypes DEF Refuses, PlayerMember, Member, Warrior, Accepts

(* Type correctness, step by step: edits, a start, the turns of the        *)
(* loader, and the competition.                                            *)
LEMMA TypeInit == Init => TypeOK
<1>1. SUFFICES ASSUME Init PROVE TypeOK
  OBVIOUS
<1>2. page \in Pages
  BY <1>1 DEF Init, Pages
<1>3. /\ edits \in 0 .. MaxEdits /\ starts \in 0 .. MaxStarts
      /\ wars \in 0 .. MaxWars /\ numGroups \in Nat
  BY <1>1, RepositoryAssumption DEF Init, RepositoryAssumption
<1>4. /\ checker \in [made : BOOLEAN, taken : SUBSET Slots]
      /\ current \in [1 .. 1 -> Warrior] \cup {NoGroup}
  BY <1>1 DEF Init, NoChecker
<1>5. /\ groups \in Seq(Group) /\ zombieGroup \in Seq(Warrior)
  BY <1>1 DEF Init, NoGroup
<1>6. nameToGroup \in [Names -> Nat]
  BY <1>1 DEF Init
<1>7. QED
  BY <1>1, <1>2, <1>3, <1>4, <1>5, <1>6 DEF Init, TypeOK

(* Edits leave a page behind.                                              *)
LEMMA EditPages ==
  ASSUME page \in Pages,
         NEW p \in Owners, NEW t \in Titles, NEW f \in Files,
         NEW a \in Slots \cup {Random, Unfit}
  PROVE  /\ UpdateTitle(p, t) => page' \in Pages
         /\ AddPlayer(p, t) => page' \in Pages
         /\ ChangedWType(p) => page' \in Pages
         /\ RemovePlayer(p) => page' \in Pages
         /\ LoadAddrChanged(f, a) => page' \in Pages
<1>1. /\ IsTwo(p) \in BOOLEAN /\ (~IsTwo(p)) \in BOOLEAN
      /\ page.program[p].title \in Titles
  BY PageTypes DEF IsTwo
<1>2. /\ Rewritten(t, IsTwo(p)) \in Programs(Titles)
      /\ Rewritten(page.program[p].title, ~IsTwo(p)) \in Programs(Titles)
      /\ Rewritten(t, FALSE) \in Programs(Titles)
      /\ FreshZombie(t) \in ZombiePrograms(Titles)
  BY <1>1, ProgramTypes, FreshTypes
<1>3. UpdateTitle(p, t) => page' \in Pages
  BY <1>2 DEF UpdateTitle, Pages
<1>4. AddPlayer(p, t) => page' \in Pages
  <2>1. ASSUME NEW r \in Programs(Titles) \cup ZombiePrograms(Titles),
               page' = [page EXCEPT !.present = @ \cup {p}, !.program[p] = r]
        PROVE  page' \in Pages
    <3>1. page' = [present |-> page.present \cup {p},
                   program |-> [page.program EXCEPT ![p] = r],
                   address |-> page.address]
      BY <2>1 DEF Pages
    <3>2. /\ page.present \cup {p} \in SUBSET Owners
          /\ [page.program EXCEPT ![p] = r]
               \in [Owners -> Programs(Titles) \cup ZombiePrograms(Titles)]
          /\ page.address \in [Files -> Slots \cup {Random, Unfit}]
      BY DEF Pages
    <3>3. QED BY <3>1, <3>2 DEF Pages
  <2>2. CASE p \in Players
    BY <1>2, <2>1, <2>2 DEF AddPlayer
  <2>3. CASE p \notin Players
    BY <1>2, <2>1, <2>3 DEF AddPlayer
  <2>4. QED BY <2>2, <2>3
<1>5. ChangedWType(p) => page' \in Pages
  <2>1. \A r \in Programs(Titles) :
          page' = [page EXCEPT !.program[p] = r] => page' \in Pages
    BY DEF Pages
  <2>2. ChangedWType(p) =>
          page' = [page EXCEPT !.program[p] =
                     Rewritten(page.program[p].title, ~IsTwo(p))]
    BY DEF ChangedWType
  <2>3. QED BY <2>1, <2>2, <1>2, Zenon
<1>6. RemovePlayer(p) => page' \in Pages
  BY DEF RemovePlayer, Pages
<1>7. LoadAddrChanged(f, a) => page' \in Pages
  BY DEF LoadAddrChanged, Pages
<1>8. QED BY <1>3, <1>4, <1>5, <1>6, <1>7

Edits ==
  \/ \E p \in Owners : \/ \E t \in Titles : UpdateTitle(p, t) \/ AddPlayer(p, t)
                       \/ ChangedWType(p)
                       \/ RemovePlayer(p)
  \/ \E f \in Files, a \in Slots \cup {Random, Unfit} : LoadAddrChanged(f, a)

LEMMA EditType ==
  ASSUME TypeOK, Edits
  PROVE  TypeOK'
<1>1. page' \in Pages
  <2>1. page \in Pages
    BY DEF TypeOK
  <2>2. CASE \E p \in Owners, t \in Titles : UpdateTitle(p, t) \/ AddPlayer(p, t)
    <3>1. PICK p \in Owners, t \in Titles : UpdateTitle(p, t) \/ AddPlayer(p, t)
      BY <2>2
    <3>2. <<p, 0>> \in Files
      BY DEF Files
    <3>3. QED BY <2>1, <3>1, <3>2, EditPages
  <2>3. CASE \E p \in Owners : ChangedWType(p) \/ RemovePlayer(p)
    <3>1. PICK p \in Owners : ChangedWType(p) \/ RemovePlayer(p)
      BY <2>3
    <3>2. <<p, 0>> \in Files /\ page.program[p].title \in Titles
      BY <2>1, PageTypes DEF Files
    <3>3. QED BY <2>1, <3>1, <3>2, EditPages
  <2>4. CASE \E f \in Files, a \in Slots \cup {Random, Unfit} : LoadAddrChanged(f, a)
    <3>1. PICK f \in Files, a \in Slots \cup {Random, Unfit} : LoadAddrChanged(f, a)
      BY <2>4
    <3>2. f[1] \in Owners
      BY DEF Files
    <3>3. page.program[f[1]].title \in Titles
      BY <2>1, <3>2, PageTypes
    <3>4. QED BY <2>1, <3>1, <3>2, <3>3, EditPages
  <2>5. QED BY <2>2, <2>3, <2>4 DEF Edits
<1>2. Edit
  BY DEF Edits, UpdateTitle, AddPlayer, ChangedWType, RemovePlayer, LoadAddrChanged
<1>3. edits' \in 0 .. MaxEdits
  BY <1>2, RepositoryAssumption DEF TypeOK, Edit, RepositoryAssumption
<1>4. QED
  BY <1>1, <1>2, <1>3 DEF TypeOK, Edit, loader, repo, score, comp

LEMMA StartType ==
  ASSUME TypeOK, NEW debug \in BOOLEAN, Start(debug)
  PROVE  TypeOK'
<1>1. /\ starts' \in 0 .. MaxStarts /\ nameToGroup' \in [Names -> Nat]
      /\ groups' \in Seq(Group)
  BY RepositoryAssumption DEF TypeOK, Start, RepositoryAssumption
<1>2. left' \subseteq Files /\ handed' \subseteq Files
  BY DEF Start, Active, Files, Owners
<1>3. QED
  BY <1>1, <1>2 DEF TypeOK, Start, NoChecker, pageVars, comp

LEMMA OneIsSeq ==
  ASSUME NEW S, NEW g \in [1 .. 1 -> S]
  PROVE  g \in Seq(S) /\ Len(g) = 1
<1>1. g \in Seq(S)
  BY SeqDef
<1>2. QED BY <1>1, LenProperties

(* A group that is completed has two members.                              *)
LEMMA AppendToOne ==
  ASSUME NEW S, NEW g \in Seq(S), Len(g) = 1, NEW w \in S
  PROVE  /\ Append(g, w) \in [1 .. 2 -> S]
         /\ Append(g, w)[1] = g[1] /\ Append(g, w)[2] = w
<1>1. Append(g, w) \in Seq(S) /\ Len(Append(g, w)) = 2
  OBVIOUS
<1>2. Append(g, w) \in [1 .. Len(Append(g, w)) -> S]
  BY <1>1, LenProperties
<1>3. /\ Append(g, w)[Len(g) + 1] = w
      /\ \A i \in 1 .. Len(g) : Append(g, w)[i] = g[i]
  BY AppendProperties
<1>4. Append(g, w)[1] = g[1] /\ Append(g, w)[2] = w
  BY <1>3
<1>5. QED BY <1>1, <1>2, <1>4

(* The groups that are made are groups.                                    *)
LEMMA GroupTypes ==
  ASSUME NEW w \in Warrior
  PROVE  /\ <<w>> \in [1 .. 1 -> Warrior] /\ <<w>> \in Group
         /\ \A g \in [1 .. 1 -> Warrior] : /\ Append(g, w) \in Group
                                          /\ Append(g, w) \in [1 .. 2 -> Warrior]
<1>1. <<w>> \in [1 .. 1 -> Warrior]
  OBVIOUS
<1>2. ASSUME NEW g \in [1 .. 1 -> Warrior]
      PROVE  Append(g, w) \in [1 .. 2 -> Warrior]
  <2>1. g \in Seq(Warrior) /\ Len(g) = 1
    BY OneIsSeq
  <2>2. QED BY <2>1, AppendToOne
<1>3. QED BY <1>1, <1>2 DEF Group

LEMMA CheckerTypes ==
  ASSUME checker \in [made : BOOLEAN, taken : SUBSET Slots], NEW f
  PROVE  /\ CheckerAfter(f) \in [made : BOOLEAN, taken : SUBSET Slots]
         /\ \A a : Checked(checker, a) \in [made : BOOLEAN, taken : SUBSET Slots]
BY DEF CheckerAfter, Checked

LEMMA PlayerType ==
  ASSUME TypeOK, NEW f \in Files,
         \/ RefusePlayer(f) \/ LoadSingle(f) \/ LoadFirst(f) \/ LoadSecond(f)
         \/ LoadSecondThrows(f)
  PROVE  TypeOK'
<1>1. /\ CheckerAfter(f) \in [made : BOOLEAN, taken : SUBSET Slots]
      /\ Name(f) \in Names
      /\ ~Refuses(f) => PlayerMember(f) \in Warrior
  BY CheckerTypes, MemberTypes, PageTypes DEF TypeOK
<1>2. Len(groups) + 1 \in Nat
  BY DEF TypeOK
<1>3. CASE RefusePlayer(f)
  BY <1>1, <1>3 DEF TypeOK, RefusePlayer, Ends, pageVars, comp, repo
<1>4. CASE LoadSecondThrows(f)
  BY <1>1, <1>4 DEF TypeOK, LoadSecondThrows, LoadPlayer, Ends, pageVars, comp, repo
<1>5. ASSUME LoadPlayer(f), Continue(f)
      PROVE  /\ left' \subseteq Files /\ PlayerMember(f) \in Warrior
             /\ checker' \in [made : BOOLEAN, taken : SUBSET Slots]
  BY <1>1, <1>5 DEF LoadPlayer, Continue, TypeOK
<1>6. PutName(f) => nameToGroup' \in [Names -> Nat]
  BY <1>1, <1>2 DEF PutName, TypeOK
<1>7. CASE LoadSingle(f)
  <2>1. groups' \in Seq(Group)
    BY <1>5, <1>7, GroupTypes DEF LoadSingle, Complete, TypeOK
  <2>2. QED
    BY <1>5, <1>6, <1>7, <2>1
       DEF TypeOK, LoadSingle, Complete, Continue, pageVars, comp
<1>8. CASE LoadFirst(f)
  <2>1. current' \in [1 .. 1 -> Warrior]
    BY <1>5, <1>8, GroupTypes DEF LoadFirst
  <2>2. QED
    BY <1>5, <1>6, <1>8, <2>1 DEF TypeOK, LoadFirst, Continue, pageVars, comp
<1>9. CASE LoadSecond(f)
  <2>1. Append(current, PlayerMember(f)) \in Group
    BY <1>5, <1>9, GroupTypes DEF LoadSecond, TypeOK
  <2>2. groups' \in Seq(Group)
    BY <1>9, <2>1 DEF LoadSecond, Complete, TypeOK
  <2>3. QED
    BY <1>5, <1>6, <1>9, <2>2
       DEF TypeOK, LoadSecond, Complete, Continue, pageVars, comp
<1>10. QED
  BY <1>3, <1>4, <1>7, <1>8, <1>9

LEMMA ZombieType ==
  ASSUME TypeOK, NEW f \in Files,
         LoadZombie(f) \/ RefuseZombie(f) \/ LoadZombieThrows(f)
  PROVE  TypeOK'
<1>1. CASE LoadZombie(f)
  <2>1. Member(f, page.address[f]) \in Warrior
    BY <1>1, MemberTypes DEF TypeOK, LoadZombie, Accepts
  <2>2. zombieGroup' \in Seq(Warrior)
    BY <1>1, <2>1 DEF TypeOK, LoadZombie
  <2>3. checker' \in [made : BOOLEAN, taken : SUBSET Slots]
    BY <1>1, CheckerTypes DEF TypeOK, LoadZombie
  <2>4. QED
    BY <1>1, <2>2, <2>3 DEF TypeOK, LoadZombie, pageVars, comp, score
<1>2. CASE RefuseZombie(f) \/ LoadZombieThrows(f)
  BY <1>2 DEF TypeOK, RefuseZombie, LoadZombieThrows, Ends, pageVars, comp, repo
<1>3. QED BY <1>1, <1>2

(* Wars are fought by warriors of the repository.                          *)
LEMMA GroupListType ==
  ASSUME TypeOK, NEW n \in 0 .. Len(groups)
  PROVE  GroupList(n) \subseteq Warrior
<1>1. ASSUME NEW g \in 1 .. n PROVE Range(groups[g]) \subseteq Warrior
  <2>1. groups[g] \in Group
    BY <1>1 DEF TypeOK
  <2>2. QED BY <2>1 DEF Group, Range
<1>2. Range(zombieGroup) \subseteq Warrior
  BY DEF TypeOK, Range
<1>3. ASSUME NEW w \in GroupList(n) PROVE w \in Warrior
  <2>1. CASE w \in UNION {Range(groups[g]) : g \in 1 .. n}
    <3>1. PICK g \in 1 .. n : w \in Range(groups[g])
      BY <2>1
    <3>2. QED BY <1>1, <3>1
  <2>2. CASE w \in Range(zombieGroup)
    BY <1>2, <2>2
  <2>3. QED BY <1>3, <2>1, <2>2 DEF GroupList
<1>4. QED BY <1>3

LEMMA CompetitionType ==
  ASSUME TypeOK,
         \/ NoPlayers \/ PlayersLoaded \/ LoadingDone \/ StartWar
         \/ \E survivors \in SUBSET war : EndWar(survivors)
         \/ \E w \in scoring : PassOver(w) \/ AddScore(w) \/ AddScoreThrows(w)
         \/ EndCompetition \/ StopDebug
  PROVE  TypeOK'
<1>1. CASE NoPlayers
  BY <1>1 DEF TypeOK, NoPlayers, Ends, pageVars, comp, repo
<1>2. CASE PlayersLoaded
  BY <1>2 DEF TypeOK, PlayersLoaded, NoGroup, pageVars, comp, score
<1>3. CASE LoadingDone
  <2>1. GroupList(Len(groups)) \subseteq Warrior /\ Len(groups) \in Nat
    BY GroupListType DEF TypeOK
  <2>2. QED BY <1>3, <2>1 DEF TypeOK, LoadingDone, repo
<1>4. CASE StartWar
  <2>1. numGroups <= Len(groups) => GroupList(numGroups) \subseteq Warrior
    BY GroupListType DEF TypeOK
  <2>2. wars' \in 0 .. MaxWars
    BY <1>4, RepositoryAssumption DEF TypeOK, StartWar, RepositoryAssumption
  <2>3. war' \subseteq Warrior /\ crashed' \in BOOLEAN
    BY <1>4, <2>1 DEF TypeOK, StartWar
  <2>4. QED
    BY <1>4, <2>2, <2>3 DEF TypeOK, StartWar, Page, pageVars, loader, repo, score, Idle
<1>5. CASE \E survivors \in SUBSET war : EndWar(survivors)
  BY <1>5 DEF TypeOK, EndWar, Page, pageVars, loader, repo, score
<1>6. CASE \E w \in scoring : PassOver(w) \/ AddScore(w) \/ AddScoreThrows(w)
  <2>1. PICK w \in scoring : PassOver(w) \/ AddScore(w) \/ AddScoreThrows(w)
    BY <1>6
  <2>2. UNCHANGED <<page, debugging, edits, starts, outcome, phase, left, handed,
                    isInDebug, checker, current, groups, zombieGroup, nameToGroup,
                    numGroups, wars>>
    BY <2>1 DEF PassOver, AddScore, AddScoreThrows, Page, pageVars, loader, repo
  <2>3. /\ scoring' \subseteq scoring /\ war' \subseteq war
        /\ crashed' \in BOOLEAN
    BY <2>1 DEF PassOver, AddScore, AddScoreThrows, TypeOK
  <2>4. QED BY <2>2, <2>3 DEF TypeOK
<1>7. CASE EndCompetition
  BY <1>7 DEF TypeOK, EndCompetition, Idle, Page, pageVars, loader, repo, score
<1>8. CASE StopDebug
  BY <1>8 DEF TypeOK, StopDebug, loader, repo, score, comp
<1>9. QED
  BY <1>1, <1>2, <1>3, <1>4, <1>5, <1>6, <1>7, <1>8

LEMMA TypeNext == TypeOK /\ [Next]_vars => TypeOK'
<1>1. SUFFICES ASSUME TypeOK, [Next]_vars PROVE TypeOK'
  OBVIOUS
<1>2. CASE Edits
  BY <1>1, <1>2, EditType
<1>3. CASE \E debug \in BOOLEAN : Start(debug)
  BY <1>1, <1>3, StartType
<1>4. CASE \E f \in Files :
             \/ RefusePlayer(f) \/ LoadSingle(f) \/ LoadFirst(f) \/ LoadSecond(f)
             \/ LoadSecondThrows(f)
  BY <1>1, <1>4, PlayerType
<1>5. CASE \E f \in Files : LoadZombie(f) \/ RefuseZombie(f) \/ LoadZombieThrows(f)
  BY <1>1, <1>5, ZombieType
<1>6. CASE \/ NoPlayers \/ PlayersLoaded \/ LoadingDone \/ StartWar
           \/ \E survivors \in SUBSET war : EndWar(survivors)
           \/ \E w \in scoring : PassOver(w) \/ AddScore(w) \/ AddScoreThrows(w)
           \/ EndCompetition \/ StopDebug
  BY <1>1, <1>6, CompetitionType
<1>7. CASE UNCHANGED vars
  BY <1>1, <1>7 DEF TypeOK, vars, pageVars, loader, repo, score, comp
<1>8. QED
  BY <1>1, <1>2, <1>3, <1>4, <1>5, <1>6, <1>7 DEF Next, Edits

(* Every reachable state has the types of TypeOK, for any players, titles, *)
(* names and bounds: no edit, load, refusal or score leaves them.          *)
THEOREM TypeCorrect == Spec => []TypeOK
BY TypeInit, TypeNext, PTL DEF Spec

-----------------------------------------------------------------------------
(***************************************************************************)
(* The inductive invariant.  While the players are loaded, those are Open  *)
(* whose first program has been seen and whose second is still to come.    *)
(***************************************************************************)
Seen == Active(Players) \ left
Open == {p \in Players : <<p, 0>> \in Seen /\ <<p, 1>> \in left}

(* A group is all that a player handed in, and all of it has been seen.    *)
TeamOf(p) == {f \in Active(Players) : f[1] = p}
CompleteTeam(g) ==
  \E p \in Players : FilesOf(g) = TeamOf(p) /\ FilesOf(g) \subseteq Seen

NamesKept(g) == \A i \in DOMAIN g : g[i].name = Name(g[i].file)

DistinctHanded ==
  \A f, h \in Active(Players) : Name(f) = Name(h) => f = h

(* The player that is open is the one the loader has in hand.              *)
HandOpen ==
  /\ \A p \in Open : current # NoGroup /\ current[1].file = <<p, 0>>
  /\ current # NoGroup => Open # {}
HandNamed ==
  current # NoGroup =>
    /\ current[1].name = Name(current[1].file)
    /\ DistinctHanded => nameToGroup[current[1].name] = Len(groups) + 1

GroupsComplete ==
  \A g \in DOMAIN groups : CompleteTeam(groups[g]) /\ NamesKept(groups[g])
GroupsApart ==
  \A g, h \in DOMAIN groups :
    g # h => FilesOf(groups[g]) \cap FilesOf(groups[h]) = {}
SeenGrouped ==
  \A f \in Seen :
    f[1] \in Open \/ \E g \in DOMAIN groups : f \in FilesOf(groups[g])
GroupsNamed ==
  DistinctHanded =>
    \A g \in DOMAIN groups : \A i \in DOMAIN groups[g] :
      nameToGroup[groups[g][i].name] = g

(* Nothing has come in between.                                            *)
Tidy == /\ HandOpen /\ HandNamed
        /\ GroupsComplete /\ GroupsApart /\ SeenGrouped /\ GroupsNamed

(* Something has: from now on more players are open than the loader has in *)
(* hand, so that one of them will find it empty-handed.                    *)
Tangled ==
  /\ Open # {}
  /\ current # NoGroup => \E p, q \in Open : p # q

LoaderInv ==
  /\ \A p \in Players : page.program[p] \in Programs(Titles)
  /\ phase \in {"players", "zombies"} => outcome = "none" /\ scoring = {}
  /\ phase = "players" =>
       /\ handed = Active(Owners) /\ left \subseteq Active(Players)
       /\ \A p \in Players : <<p, 0>> \in left /\ IsTwo(p) => <<p, 1>> \in left
       /\ Tidy \/ Tangled

(* What is kept after it.                                                  *)
TeamsMade ==
  /\ {FilesOf(groups[g]) : g \in DOMAIN groups}
       = {HandedOf(p) : p \in HandedPlayers}
  /\ GroupsApart
NamesMade ==
  DistinctNames =>
    \A g \in DOMAIN groups : \A m \in Range(groups[g]) : nameToGroup[m.name] = g
Kept == phase = "zombies" \/ outcome = "loaded" => TeamsMade /\ NamesMade

Inv == TypeOK /\ LoaderInv /\ Kept

-----------------------------------------------------------------------------
(***************************************************************************)
(* One turn of the loop.                                                   *)
(***************************************************************************)
LEMMA ActiveFacts ==
  /\ Active(Players) \subseteq Files
  /\ \A f \in Active(Players) :
       /\ f = <<f[1], f[2]>> /\ f[1] \in Players /\ f[2] \in {0, 1}
       /\ f[2] = 1 => IsTwo(f[1])
       /\ <<f[1], 0>> \in Active(Players)
       /\ IsTwo(f[1]) => <<f[1], 1>> \in Active(Players)
BY DEF Active, Files, Owners

(* A player's first name sorts before his second one.                      *)
LEMMA FirstBeforeSecond ==
  ASSUME Inv, NEW p \in Players, <<p, 0>> \in left, IsNext(<<p, 1>>), IsTwo(p)
  PROVE  FALSE
<1>1. PICK t \in Titles, two \in BOOLEAN : page.program[p] = Rewritten(t, two)
  BY DEF Inv, LoaderInv, Programs
<1>2. two = TRUE
  BY <1>1, ProgramTypes DEF IsTwo
<1>3. Name(<<p, 0>>) = First[t] /\ Name(<<p, 1>>) = Second[t]
  BY <1>1, <1>2 DEF Name, Rewritten
<1>4. Before(<<p, 1>>, <<p, 0>>)
  BY DEF IsNext
<1>5. /\ Rank[First[t]] < Rank[Second[t]]
      /\ Rank[First[t]] \in Nat /\ Rank[Second[t]] \in Nat
  BY RepositoryAssumption DEF RepositoryAssumption
<1>6. QED BY <1>3, <1>4, <1>5 DEF Before

(* Which programs are in a group.                                          *)
LEMMA FilesOfGroup ==
  ASSUME NEW g, NEW f
  PROVE  f \in FilesOf(g) <=> \E i \in DOMAIN g : g[i].file = f
BY DEF FilesOf, Range

(* What a turn for f leaves to be shown.                                   *)
LEMMA TurnFacts ==
  ASSUME Inv, NEW f \in Files, LoadPlayer(f), Continue(f)
  PROVE  /\ f \in Active(Players) /\ f \notin Seen /\ f[1] \in Players
         /\ page' = page /\ Active(Players)' = Active(Players)
         /\ left' = left \ {f} /\ Seen' = Seen \cup {f}
         /\ PlayerMember(f) \in Warrior
         /\ PlayerMember(f).file = f /\ PlayerMember(f).name = Name(f)
         /\ \A p \in Players : IsTwo(p)' = IsTwo(p)
         /\ \A h : Name(h)' = Name(h)
         /\ DistinctHanded' = DistinctHanded
<1>1. f \in left /\ left \subseteq Active(Players) /\ page' = page
  BY DEF LoadPlayer, IsNext, Continue, pageVars, Inv, LoaderInv
<1>2. Active(Players)' = Active(Players)
  BY <1>1 DEF Active, IsTwo
<1>3. left' = left \ {f}
  BY DEF Continue
<1>4. PlayerMember(f) \in Warrior
  BY MemberTypes DEF LoadPlayer, Inv, TypeOK
<1>5. PlayerMember(f).file = f /\ PlayerMember(f).name = Name(f)
  BY DEF PlayerMember, Member
<1>6. f[1] \in Players /\ f \notin Seen
  BY <1>1, ActiveFacts DEF Seen
<1>7. Seen' = Seen \cup {f}
  BY <1>1, <1>2, <1>3 DEF Seen
<1>8. /\ \A p \in Players : IsTwo(p)' = IsTwo(p)
      /\ \A h : Name(h)' = Name(h)
  BY <1>1 DEF IsTwo, Name
<1>9. DistinctHanded' = DistinctHanded
  BY <1>2, <1>8 DEF DistinctHanded
<1>10. QED
  BY <1>1, <1>2, <1>3, <1>4, <1>5, <1>6, <1>7, <1>8, <1>9

(* How a turn changes who is open.                                         *)
LEMMA OpenAfter ==
  ASSUME Inv, NEW f \in Files, LoadPlayer(f), Continue(f)
  PROVE  /\ ~IsTwo(f[1]) => f[2] = 0 /\ Open' = Open
         /\ IsTwo(f[1]) /\ f[2] = 0 =>
              f[1] \notin Open /\ Open' = Open \cup {f[1]}
         /\ IsTwo(f[1]) /\ f[2] = 1 =>
              /\ f[1] \in Open /\ Open' = Open \ {f[1]}
              /\ <<f[1], 0>> \in Seen
<1> DEFINE p == f[1]
<1>1. /\ f \in Active(Players) /\ f = <<p, f[2]>> /\ f[2] \in {0, 1}
      /\ p \in Players /\ f \notin Seen /\ <<p, 0>> \in Active(Players)
      /\ f[2] = 1 => IsTwo(p)
  BY TurnFacts, ActiveFacts
<1>2. f \in left /\ left' = left \ {f} /\ Seen' = Seen \cup {f}
  BY TurnFacts DEF LoadPlayer, IsNext
<1>3. \A q \in Players : q # p =>
        /\ <<q, 0>> # f /\ <<q, 1>> # f
        /\ q \in Open' <=> q \in Open
  BY <1>1, <1>2 DEF Open
<1>4. left \subseteq Active(Players)
  BY DEF LoadPlayer, Inv, LoaderInv
<1>5. CASE ~IsTwo(p)
  <2>1. f[2] = 0 /\ <<p, 1>> \notin left
    BY <1>1, <1>4, <1>5, ActiveFacts
  <2>2. p \notin Open /\ p \notin Open'
    BY <2>1, <1>2 DEF Open
  <2>3. QED BY <1>3, <1>5, <2>1, <2>2 DEF Open
<1>6. CASE IsTwo(p) /\ f[2] = 0
  <2>1. f = <<p, 0>>
    BY <1>1, <1>6
  <2>2. <<p, 1>> \in left
    BY <1>1, <1>2, <1>6, <2>1 DEF LoadPlayer, Inv, LoaderInv
  <2>3. p \notin Open /\ p \in Open'
    BY <1>1, <1>2, <2>1, <2>2 DEF Open
  <2>4. QED BY <1>1, <1>3, <1>6, <2>3 DEF Open
<1>7. CASE IsTwo(p) /\ f[2] = 1
  <2>1. f = <<p, 1>>
    BY <1>1, <1>7
  <2>2. <<p, 0>> \notin left
    BY <1>1, <1>7, <2>1, FirstBeforeSecond DEF LoadPlayer
  <2>3. <<p, 0>> \in Seen
    BY <1>1, <2>2 DEF Seen
  <2>4. p \in Open /\ p \notin Open'
    BY <1>1, <1>2, <2>1, <2>3 DEF Open
  <2>5. QED BY <1>1, <1>3, <1>7, <2>3, <2>4 DEF Open
<1>8. QED BY <1>1, <1>5, <1>6, <1>7

(* A complete team is added to the groups.                                 *)
LEMMA GroupAdded ==
  ASSUME Inv, Tidy, NEW f \in Files, LoadPlayer(f), Continue(f), PutName(f),
         NEW g \in Group, Complete(g),
         FilesOf(g) = TeamOf(f[1]), FilesOf(g) \subseteq Seen', NamesKept(g),
         \A h \in DOMAIN groups : FilesOf(groups[h]) \cap FilesOf(g) = {},
         DistinctHanded => \A i \in DOMAIN g :
           g[i].file # f => nameToGroup[g[i].name] = Len(groups) + 1,
         Open \subseteq {f[1]}, Open' = {}
  PROVE  Tidy'
<1>1. /\ f \in Active(Players) /\ f \notin Seen /\ f[1] \in Players
      /\ Active(Players)' = Active(Players) /\ Seen' = Seen \cup {f}
      /\ \A h : Name(h)' = Name(h)
      /\ DistinctHanded' = DistinctHanded /\ page' = page
  BY TurnFacts
<1>2. /\ groups \in Seq(Group) /\ groups' = Append(groups, g)
      /\ nameToGroup \in [Names -> Nat] /\ Name(f) \in Names
      /\ nameToGroup' = [nameToGroup EXCEPT ![Name(f)] = Len(groups) + 1]
      /\ current' = NoGroup
  BY PageTypes DEF Complete, PutName, Inv, TypeOK
<1>3. /\ DOMAIN groups = 1 .. Len(groups) /\ Len(groups) \in Nat
      /\ DOMAIN groups' = 1 .. Len(groups) + 1
      /\ \A h \in DOMAIN groups : groups'[h] = groups[h]
      /\ groups'[Len(groups) + 1] = g
  BY <1>2
<1>4. ASSUME NEW h \in DOMAIN groups'
      PROVE  \/ h \in DOMAIN groups /\ groups'[h] = groups[h]
             \/ h = Len(groups) + 1 /\ h \notin DOMAIN groups /\ groups'[h] = g
  BY <1>3
<1>5. TeamOf(f[1])' = TeamOf(f[1]) /\ \A q : TeamOf(q)' = TeamOf(q)
  BY <1>1 DEF TeamOf
<1>6. GroupsComplete'
  <2>1. ASSUME NEW h \in DOMAIN groups'
        PROVE  /\ \E q \in Players : /\ FilesOf(groups'[h]) = TeamOf(q)
                                     /\ FilesOf(groups'[h]) \subseteq Seen'
               /\ \A i \in DOMAIN groups'[h] :
                    groups'[h][i].name = Name(groups'[h][i].file)
    <3>1. CASE h \in DOMAIN groups /\ groups'[h] = groups[h]
      BY <1>1, <3>1 DEF Tidy, GroupsComplete, CompleteTeam, NamesKept
    <3>2. CASE groups'[h] = g
      BY <1>1, <3>2 DEF NamesKept
    <3>3. QED BY <1>4, <3>1, <3>2
  <2>2. ASSUME NEW h \in DOMAIN groups'
        PROVE  CompleteTeam(groups[h])' /\ NamesKept(groups[h])'
    <3>1. CompleteTeam(groups[h])'
      BY <1>5, <2>1 DEF CompleteTeam, FilesOf
    <3>2. NamesKept(groups[h])'
      BY <1>1, <2>1 DEF NamesKept, Name
    <3>3. QED BY <3>1, <3>2
  <2>3. QED BY <2>2 DEF GroupsComplete
<1>7. GroupsApart'
  <2>1. ASSUME NEW h \in DOMAIN groups', NEW k \in DOMAIN groups', h # k
        PROVE  FilesOf(groups'[h]) \cap FilesOf(groups'[k]) = {}
    BY <1>4, <2>1 DEF Tidy, GroupsApart
  <2>2. QED BY <2>1 DEF GroupsApart, FilesOf
<1>8. SeenGrouped'
  <2>1. ASSUME NEW h \in Seen'
        PROVE  \E k \in DOMAIN groups' : h \in FilesOf(groups'[k])
    <3>1. CASE h \in TeamOf(f[1])
      BY <1>3, <3>1
    <3>2. CASE h \notin TeamOf(f[1])
      <4>1. h \in Seen /\ h[1] \notin Open
        BY <1>1, <2>1, <3>2 DEF TeamOf, Seen
      <4>2. PICK k \in DOMAIN groups : h \in FilesOf(groups[k])
        BY <4>1 DEF Tidy, SeenGrouped
      <4>3. QED BY <1>3, <4>2
    <3>3. QED BY <3>1, <3>2
  <2>2. QED BY <2>1 DEF SeenGrouped, FilesOf
<1>9. GroupsNamed'
  <2>1. ASSUME DistinctHanded, NEW h \in DOMAIN groups', NEW i \in DOMAIN groups'[h]
        PROVE  nameToGroup'[groups'[h][i].name] = h
    <3> DEFINE m == groups'[h][i]
    <3>1. m.name = Name(m.file) /\ m.file \in Active(Players)
      <4>1. CASE h \in DOMAIN groups /\ groups'[h] = groups[h]
        <5>1. m.file \in FilesOf(groups[h])
          BY <4>1, FilesOfGroup
        <5>2. QED
          BY <4>1, <5>1 DEF Tidy, GroupsComplete, CompleteTeam, NamesKept, Seen
      <4>2. CASE groups'[h] = g
        <5>1. m.file \in FilesOf(g)
          BY <4>2, FilesOfGroup
        <5>2. QED BY <4>2, <5>1 DEF NamesKept, TeamOf
      <4>3. QED BY <1>4, <4>1, <4>2
    <3>2. CASE m.file = f
      <4>1. groups'[h] = g /\ h = Len(groups) + 1
        <5>1. h \notin DOMAIN groups
          <6>1. SUFFICES ASSUME h \in DOMAIN groups PROVE FALSE
            OBVIOUS
          <6>2. f \in FilesOf(groups[h])
            BY <1>3, <3>2, <6>1, FilesOfGroup
          <6>3. QED BY <1>1, <6>1, <6>2 DEF Tidy, GroupsComplete, CompleteTeam
        <5>2. QED BY <1>4, <5>1
      <4>2. QED BY <1>2, <3>1, <3>2, <4>1
    <3>3. CASE m.file # f
      <4>1. m.name # Name(f)
        BY <1>1, <2>1, <3>1, <3>3 DEF DistinctHanded
      <4>2. nameToGroup'[m.name] = nameToGroup[m.name]
        <5>1. m.name \in Names
          BY <3>1, ActiveFacts, PageTypes DEF Inv, TypeOK
        <5>2. QED BY <1>2, <4>1, <5>1
      <4>3. CASE h \in DOMAIN groups /\ groups'[h] = groups[h]
        BY <2>1, <4>2, <4>3 DEF Tidy, GroupsNamed
      <4>4. CASE h = Len(groups) + 1 /\ groups'[h] = g
        BY <2>1, <3>3, <4>2, <4>4
      <4>5. QED BY <1>4, <4>3, <4>4
    <3>4. QED BY <3>2, <3>3
  <2>2. QED BY <1>1, <2>1 DEF GroupsNamed
<1>10. HandOpen' /\ HandNamed'
  BY <1>2 DEF HandOpen, HandNamed
<1>11. QED BY <1>6, <1>7, <1>8, <1>9, <1>10 DEF Tidy

(* A player with one program is a group at once.                           *)
LEMMA SingleTurn ==
  ASSUME Inv, NEW f \in Files, LoadSingle(f)
  PROVE  Tidy' \/ Tangled'
<1> DEFINE g == <<PlayerMember(f)>>
<1>1. /\ LoadPlayer(f) /\ Continue(f) /\ PutName(f) /\ Complete(g)
      /\ ~IsTwo(f[1]) /\ current' = NoGroup
  BY DEF LoadSingle, Complete
<1>2. Open' = Open /\ f[2] = 0
  BY <1>1, OpenAfter
<1>3. CASE Open # {}
  BY <1>1, <1>2, <1>3 DEF Tangled
<1>4. CASE Open = {}
  <2>1. Tidy
    BY <1>1, <1>4 DEF Inv, LoaderInv, LoadPlayer, Tangled
  <2>2. /\ PlayerMember(f) \in Warrior
        /\ PlayerMember(f).file = f /\ PlayerMember(f).name = Name(f)
        /\ f \in Active(Players) /\ f \notin Seen /\ f \in Seen'
    BY <1>1, TurnFacts
  <2>3. g \in Group /\ NamesKept(g)
    BY <2>2, GroupTypes DEF NamesKept
  <2>4. \A h : h \in FilesOf(g) <=> h = f
    BY <2>2 DEF FilesOf, Range
  <2>5. ASSUME NEW h \in Active(Players), h[1] = f[1]
        PROVE  h = f
    <3>1. h[2] = 0
      BY <1>1, <2>5, ActiveFacts
    <3>2. h = <<h[1], h[2]>> /\ f = <<f[1], f[2]>>
      BY <2>2, ActiveFacts
    <3>3. QED BY <1>2, <2>5, <3>1, <3>2
  <2>6. FilesOf(g) = TeamOf(f[1])
    <3>1. \A h : h \in TeamOf(f[1]) <=> h = f
      BY <2>2, <2>5 DEF TeamOf
    <3>2. QED BY <2>4, <3>1
  <2>7. FilesOf(g) \subseteq Seen'
    BY <2>2, <2>4
  <2>8. \A h \in DOMAIN groups : FilesOf(groups[h]) \cap FilesOf(g) = {}
    BY <2>1, <2>2, <2>4 DEF Tidy, GroupsComplete, CompleteTeam
  <2>9. \A i \in DOMAIN g : g[i].file = f
    BY <2>2
  <2>10. Tidy'
    BY <1>1, <1>2, <1>4, <2>1, <2>3, <2>6, <2>7, <2>8, <2>9, GroupAdded
  <2>11. QED BY <2>10
<1>5. QED BY <1>3, <1>4

(* A second program completes the group in hand, its own or, once the      *)
(* loader is tangled, another's.                                           *)
LEMMA SecondTurn ==
  ASSUME Inv, NEW f \in Files, LoadSecond(f)
  PROVE  Tidy' \/ Tangled'
<1> DEFINE g == Append(current, PlayerMember(f))
<1>1. /\ LoadPlayer(f) /\ Continue(f) /\ PutName(f) /\ Complete(g)
      /\ IsTwo(f[1]) /\ f[2] = 1 /\ current # NoGroup /\ current' = NoGroup
  BY DEF LoadSecond, Complete
<1>2. /\ f[1] \in Open /\ Open' = Open \ {f[1]} /\ <<f[1], 0>> \in Seen
  BY <1>1, OpenAfter
<1>3. CASE Tangled
  <2>1. Open' # {}
    BY <1>1, <1>2, <1>3 DEF Tangled
  <2>2. QED BY <1>1, <2>1 DEF Tangled
<1>4. CASE Tidy
  <2>1. \A q \in Open : q = f[1] /\ current[1].file = <<q, 0>>
    BY <1>2, <1>4 DEF Tidy, HandOpen
  <2>2. Open' = {} /\ current[1].file = <<f[1], 0>>
    BY <1>2, <2>1
  <2>3. /\ PlayerMember(f) \in Warrior
        /\ PlayerMember(f).file = f /\ PlayerMember(f).name = Name(f)
        /\ f \in Active(Players) /\ f \notin Seen /\ Seen' = Seen \cup {f}
    BY <1>1, TurnFacts
  <2>4. current \in [1 .. 1 -> Warrior]
    BY <1>1 DEF Inv, TypeOK
  <2>5. g \in Group /\ g \in [1 .. 2 -> Warrior]
    BY <2>3, <2>4, GroupTypes
  <2>6. g[1] = current[1] /\ g[2] = PlayerMember(f)
    <3>1. current \in Seq(Warrior) /\ Len(current) = 1
      BY <2>4, OneIsSeq
    <3>2. QED BY <2>3, <3>1, AppendToOne
  <2> HIDE DEF g
  <2>7. \A h : h \in FilesOf(g) <=> h = f \/ h = <<f[1], 0>>
    <3>1. DOMAIN g = {1, 2}
      BY <2>5
    <3>2. \A h : h \in FilesOf(g) <=> \E i \in {1, 2} : g[i].file = h
      BY <3>1, FilesOfGroup
    <3>3. g[1].file = <<f[1], 0>> /\ g[2].file = f
      BY <2>2, <2>3, <2>6
    <3>4. QED BY <3>2, <3>3
  <2>8. f = <<f[1], 1>> /\ <<f[1], 0>> \in Active(Players)
    BY <1>1, <2>3, ActiveFacts
  <2>9. \A h \in Active(Players) : h[1] = f[1] => h = f \/ h = <<f[1], 0>>
    BY <2>8, ActiveFacts
  <2>10. FilesOf(g) = TeamOf(f[1])
    BY <2>3, <2>7, <2>8, <2>9 DEF TeamOf
  <2>11. FilesOf(g) \subseteq Seen'
    BY <1>2, <2>3, <2>7
  <2>12. NamesKept(g)
    BY <1>1, <1>4, <2>3, <2>5, <2>6 DEF NamesKept, Tidy, HandNamed
  <2>13. ASSUME NEW h \in DOMAIN groups
         PROVE  FilesOf(groups[h]) \cap FilesOf(g) = {}
    <3>1. PICK q \in Players : /\ FilesOf(groups[h]) = TeamOf(q)
                              /\ FilesOf(groups[h]) \subseteq Seen
      BY <1>4 DEF Tidy, GroupsComplete, CompleteTeam
    <3>2. q # f[1]
      BY <2>3, <2>8, <3>1 DEF TeamOf
    <3>3. QED BY <2>10, <3>1, <3>2 DEF TeamOf
  <2>14. DistinctHanded => \A i \in DOMAIN g :
           g[i].file # f => nameToGroup[g[i].name] = Len(groups) + 1
    BY <1>1, <1>4, <2>3, <2>5, <2>6 DEF Tidy, HandNamed
  <2>15. Open \subseteq {f[1]}
    BY <2>1
  <2>16. Tidy'
    BY <1>1, <1>4, <2>2, <2>5, <2>10, <2>11, <2>12, <2>13, <2>14, <2>15, GroupAdded
  <2>17. QED BY <2>16
<1>5. QED BY <1>1, <1>3, <1>4 DEF Inv, LoaderInv, LoadPlayer

(* A first program is taken in hand, in place of whatever was there.       *)
LEMMA FirstTurn ==
  ASSUME Inv, NEW f \in Files, LoadFirst(f)
  PROVE  Tidy' \/ Tangled'
<1>1. /\ LoadPlayer(f) /\ Continue(f) /\ PutName(f)
      /\ IsTwo(f[1]) /\ f[2] = 0 /\ current' = <<PlayerMember(f)>>
      /\ groups' = groups
  BY DEF LoadFirst
<1>2. f[1] \notin Open /\ Open' = Open \cup {f[1]}
  BY <1>1, OpenAfter
<1>3. CASE Open # {}
  <2>1. PICK q \in Open : q # f[1]
    BY <1>2, <1>3
  <2>2. q \in Open' /\ f[1] \in Open'
    BY <1>2
  <2>3. QED BY <2>1, <2>2 DEF Tangled
<1>4. CASE Open = {}
  <2>1. Tidy
    BY <1>1, <1>4 DEF Inv, LoaderInv, LoadPlayer, Tangled
  <2>2. /\ PlayerMember(f).file = f /\ PlayerMember(f).name = Name(f)
        /\ f \in Active(Players) /\ f \notin Seen /\ Seen' = Seen \cup {f}
        /\ Active(Players)' = Active(Players) /\ page' = page
        /\ \A h : Name(h)' = Name(h)
        /\ DistinctHanded' = DistinctHanded
    BY <1>1, TurnFacts
  <2>3. f = <<f[1], 0>> /\ Open' = {f[1]}
    BY <1>1, <1>2, <1>4, <2>2, ActiveFacts
  <2>4. current'[1].file = <<f[1], 0>> /\ current' # NoGroup
        /\ current'[1].name = Name(f)
    BY <1>1, <2>2, <2>3 DEF NoGroup
  <2>5. HandOpen'
    BY <2>3, <2>4 DEF HandOpen
  <2>6. /\ nameToGroup' = [nameToGroup EXCEPT ![Name(f)] = Len(groups) + 1]
        /\ nameToGroup \in [Names -> Nat] /\ Name(f) \in Names
    BY <1>1, PageTypes DEF PutName, Inv, TypeOK
  <2>7. HandNamed'
    <3>1. current'[1].name = Name(current'[1].file)
      BY <2>2, <2>3, <2>4
    <3>2. nameToGroup'[current'[1].name] = Len(groups) + 1
      BY <2>4, <2>6
    <3>3. Name(current[1].file)' = Name(current'[1].file)
      BY <2>2 DEF Name
    <3>4. QED BY <1>1, <3>1, <3>2, <3>3 DEF HandNamed
  <2>8. GroupsComplete'
    <3>1. ASSUME NEW g \in DOMAIN groups
          PROVE  CompleteTeam(groups[g])' /\ NamesKept(groups[g])'
      <4>1. CompleteTeam(groups[g]) /\ NamesKept(groups[g])
        BY <2>1 DEF Tidy, GroupsComplete
      <4>2. NamesKept(groups[g])'
        BY <1>1, <2>2, <4>1 DEF NamesKept, Name
      <4>3. \A q : TeamOf(q)' = TeamOf(q)
        BY <2>2 DEF TeamOf
      <4>4. CompleteTeam(groups[g])'
        BY <1>1, <2>2, <4>1, <4>3 DEF CompleteTeam, FilesOf
      <4>5. QED BY <4>2, <4>4
    <3>2. QED BY <1>1, <3>1 DEF GroupsComplete
  <2>9. GroupsApart'
    BY <1>1, <2>1 DEF Tidy, GroupsApart, FilesOf
  <2>10. SeenGrouped'
    <3>1. ASSUME NEW h \in Seen'
          PROVE  h[1] \in Open' \/ \E g \in DOMAIN groups : h \in FilesOf(groups[g])
      <4>1. CASE h = f
        BY <2>3, <4>1
      <4>2. CASE h \in Seen
        BY <1>4, <2>1, <4>2 DEF Tidy, SeenGrouped
      <4>3. QED BY <2>2, <4>1, <4>2
    <3>2. QED BY <1>1, <3>1 DEF SeenGrouped, FilesOf
  <2>11. GroupsNamed'
    <3>1. ASSUME DistinctHanded, NEW g \in DOMAIN groups, NEW i \in DOMAIN groups[g]
          PROVE  nameToGroup'[groups[g][i].name] = g
      <4>1. groups[g][i].file \in FilesOf(groups[g])
        BY FilesOfGroup
      <4>2. /\ groups[g][i].name = Name(groups[g][i].file)
            /\ groups[g][i].file \in Seen /\ groups[g][i].file \in Active(Players)
        BY <2>1, <4>1 DEF Tidy, GroupsComplete, CompleteTeam, NamesKept, Seen
      <4>3. groups[g][i].name # Name(f)
        BY <2>2, <3>1, <4>2 DEF DistinctHanded
      <4>4. groups[g][i].name \in Names
        BY <4>2, ActiveFacts, PageTypes DEF Inv, TypeOK
      <4>5. nameToGroup[groups[g][i].name] = g
        BY <2>1, <3>1 DEF Tidy, GroupsNamed
      <4>6. QED BY <2>6, <4>3, <4>4, <4>5
    <3>2. QED BY <1>1, <2>2, <3>1 DEF GroupsNamed
  <2>12. QED BY <2>5, <2>7, <2>8, <2>9, <2>10, <2>11 DEF Tidy
<1>5. QED BY <1>3, <1>4

-----------------------------------------------------------------------------
(***************************************************************************)
(* The invariant is inductive.                                             *)
(***************************************************************************)
LEMMA InvInit == Init => Inv
<1>1. SUFFICES ASSUME Init PROVE Inv
  OBVIOUS
<1>2. LoaderInv /\ Kept
  BY <1>1 DEF Init, LoaderInv, Kept
<1>3. QED BY <1>1, <1>2, TypeInit DEF Inv

(* What Kept says depends on the groups, the names and who was handed in   *)
(* only.                                                                   *)
LEMMA MadeStay ==
  ASSUME UNCHANGED <<groups, nameToGroup, handed>>
  PROVE  (TeamsMade => TeamsMade') /\ (NamesMade => NamesMade')
<1>1. /\ groups' = groups /\ nameToGroup' = nameToGroup /\ handed' = handed
  OBVIOUS
<1>2. TeamsMade => TeamsMade'
  <2>1. HandedPlayers' = HandedPlayers
    BY <1>1 DEF HandedPlayers
  <2>2. {HandedOf(p) : p \in HandedPlayers}' = {HandedOf(p) : p \in HandedPlayers}
    BY <1>1, <2>1 DEF HandedOf
  <2>3. {FilesOf(groups[g]) : g \in DOMAIN groups}'
          = {FilesOf(groups[g]) : g \in DOMAIN groups}
    BY <1>1 DEF FilesOf
  <2>4. GroupsApart => GroupsApart'
    BY <1>1 DEF GroupsApart, FilesOf
  <2>5. QED BY <2>2, <2>3, <2>4 DEF TeamsMade
<1>3. NamesMade => NamesMade'
  BY <1>1 DEF NamesMade, DistinctNames
<1>4. QED BY <1>2, <1>3

LEMMA KeptStays ==
  ASSUME Kept, UNCHANGED <<groups, nameToGroup, handed>>,
         phase' = "zombies" \/ outcome' = "loaded"
           => phase = "zombies" \/ outcome = "loaded"
  PROVE  Kept'
BY MadeStay DEF Kept

(* An edit of the page is made between starts, and leaves what a start has *)
(* made.                                                                   *)
LEMMA LoaderEdit ==
  ASSUME Inv, Edits
  PROVE  LoaderInv' /\ Kept'
<1>1. Edit
  BY DEF Edits, UpdateTitle, AddPlayer, ChangedWType, RemovePlayer, LoadAddrChanged
<1>2. phase = "idle" /\ UNCHANGED <<phase, outcome, groups, nameToGroup, handed>>
  BY <1>1 DEF Edit, Idle, loader, repo
<1>3. Kept'
  BY <1>2, KeptStays DEF Inv
<1>4. ASSUME NEW q \in Players PROVE page'.program[q] \in Programs(Titles)
  <2>1. /\ page.program[q] \in Programs(Titles) /\ page \in Pages
        /\ q \in Owners
    BY DEF Inv, LoaderInv, TypeOK, Owners
  <2>2. \A r : page' = [page EXCEPT !.program[q] = r] => page'.program[q] = r
    BY <2>1 DEF Pages
  <2>3. ASSUME NEW p \in Owners, NEW t \in Titles, UpdateTitle(p, t)
        PROVE  page'.program[q] \in Programs(Titles)
    <3>1. Rewritten(t, IsTwo(p)) \in Programs(Titles)
      BY <2>1, <2>3, PageTypes, ProgramTypes
    <3>2. QED BY <2>1, <2>3, <3>1 DEF UpdateTitle, Pages
  <2>4. ASSUME NEW p \in Owners, NEW t \in Titles, AddPlayer(p, t)
        PROVE  page'.program[q] \in Programs(Titles)
    <3>1. Rewritten(t, FALSE) \in Programs(Titles)
      BY ProgramTypes
    <3>2. CASE p = q
      BY <2>1, <2>4, <3>1, <3>2 DEF AddPlayer, Pages
    <3>3. CASE p # q
      BY <2>1, <2>4, <3>3 DEF AddPlayer, Pages
    <3>4. QED BY <3>2, <3>3
  <2>5. ASSUME NEW p \in Owners, ChangedWType(p)
        PROVE  page'.program[q] \in Programs(Titles)
    <3>1. (~IsTwo(p)) \in BOOLEAN /\ page.program[p].title \in Titles
      BY <2>1, <2>5, PageTypes
    <3>2. Rewritten(page.program[p].title, ~IsTwo(p)) \in Programs(Titles)
      BY <3>1, ProgramTypes
    <3>3. \A r \in Programs(Titles) : page' = [page EXCEPT !.program[p] = r]
            => page'.program[q] \in Programs(Titles)
      BY <2>1 DEF Pages
    <3>4. page' = [page EXCEPT !.program[p] =
                     Rewritten(page.program[p].title, ~IsTwo(p))]
      BY <2>5 DEF ChangedWType
    <3>5. QED BY <3>2, <3>3, <3>4, Zenon
  <2>6. ASSUME NEW p \in Owners, RemovePlayer(p)
        PROVE  page'.program[q] \in Programs(Titles)
    BY <2>1, <2>6 DEF RemovePlayer, Pages
  <2>7. ASSUME NEW f \in Files, NEW a \in Slots \cup {Random, Unfit},
               LoadAddrChanged(f, a)
        PROVE  page'.program[q] \in Programs(Titles)
    BY <2>1, <2>7 DEF LoadAddrChanged, Pages
  <2>8. QED BY <2>3, <2>4, <2>5, <2>6, <2>7 DEF Edits
<1>5. QED BY <1>2, <1>3, <1>4 DEF LoaderInv

(* A start has nobody open, and nothing left from the last one.            *)
LEMMA LoaderStart ==
  ASSUME Inv, NEW debug \in BOOLEAN, Start(debug)
  PROVE  LoaderInv' /\ Kept'
<1>1. /\ page' = page /\ phase' = "players" /\ outcome' = "none"
      /\ scoring' = {} /\ left' = Active(Players) /\ handed' = Active(Owners)
      /\ current' = NoGroup /\ groups' = <<>>
  BY DEF Start, pageVars, comp, Idle
<1>2. /\ Active(Players)' = Active(Players) /\ Active(Owners)' = Active(Owners)
      /\ \A p \in Players : IsTwo(p)' = IsTwo(p)
  BY <1>1 DEF Active, IsTwo
<1>3. Seen' = {} /\ Open' = {}
  BY <1>1, <1>2 DEF Seen, Open
<1>4. Tidy'
  BY <1>1, <1>3 DEF Tidy, HandOpen, HandNamed, GroupsComplete, GroupsApart,
                    SeenGrouped, GroupsNamed
<1>5. \A p \in Players : <<p, 0>> \in left' /\ IsTwo(p) => <<p, 1>> \in left'
  <2>1. SUFFICES ASSUME NEW p \in Players, <<p, 0>> \in Active(Players), IsTwo(p)
                 PROVE  <<p, 1>> \in Active(Players)
    BY <1>1
  <2>2. QED BY <2>1, ActiveFacts
<1>6. QED
  BY <1>1, <1>2, <1>4, <1>5 DEF Inv, LoaderInv, Kept

(* A turn keeps the loader tidy or tangled; nothing is said of groups      *)
(* before it is done.                                                      *)
LEMMA LoaderTurn ==
  ASSUME Inv, NEW f \in Files, LoadSingle(f) \/ LoadFirst(f) \/ LoadSecond(f)
  PROVE  LoaderInv' /\ Kept'
<1>1. LoadPlayer(f) /\ Continue(f)
  BY DEF LoadSingle, LoadFirst, LoadSecond
<1>2. Tidy' \/ Tangled'
  BY SingleTurn, FirstTurn, SecondTurn
<1>3. /\ page' = page /\ Active(Players)' = Active(Players) /\ left' = left \ {f}
      /\ \A p \in Players : IsTwo(p)' = IsTwo(p)
  BY <1>1, TurnFacts
<1>4. /\ phase = "players" /\ phase' = "players" /\ outcome' = outcome
      /\ scoring' = scoring /\ handed' = handed
  BY <1>1 DEF LoadPlayer, Continue, comp
<1>5. Active(Owners)' = Active(Owners)
  BY <1>3 DEF Active, IsTwo
<1>6. ASSUME NEW p \in Players, <<p, 0>> \in left', IsTwo(p)
      PROVE  <<p, 1>> \in left'
  <2>1. <<p, 0>> \in left /\ <<p, 1>> \in left
    BY <1>3, <1>4, <1>6 DEF Inv, LoaderInv
  <2>2. f # <<p, 1>>
    BY <1>1, <1>6, <2>1, FirstBeforeSecond DEF LoadPlayer
  <2>3. QED BY <1>3, <2>1, <2>2
<1>7. QED
  BY <1>2, <1>3, <1>4, <1>5, <1>6 DEF Inv, LoaderInv, Kept

(* Nobody is left, so nobody is open, and nothing has come in between.     *)
LEMMA LoaderDone ==
  ASSUME Inv, PlayersLoaded
  PROVE  LoaderInv' /\ Kept'
<1>1. /\ phase = "players" /\ left = {} /\ handed = Active(Owners)
      /\ Open = {} /\ Seen = Active(Players)
  BY DEF PlayersLoaded, Inv, LoaderInv, Open, Seen
<1>2. Tidy
  BY <1>1 DEF Inv, LoaderInv, Tangled
<1>3. /\ groups' = groups /\ nameToGroup' = nameToGroup /\ handed' = handed
      /\ page' = page /\ phase' = "zombies" /\ outcome' = outcome
      /\ scoring' = scoring
  BY DEF PlayersLoaded, pageVars, comp
<1>4. LoaderInv'
  BY <1>1, <1>3 DEF Inv, LoaderInv
<1>5. \A p \in Players : HandedOf(p) = TeamOf(p)
  BY <1>1 DEF HandedOf, TeamOf, Active, Owners
<1>6. \A p : p \in HandedPlayers <=> p \in Players /\ <<p, 0>> \in Active(Players)
  <2>1. ASSUME NEW p \in HandedPlayers
        PROVE  p \in Players /\ <<p, 0>> \in Active(Players)
    <3>1. PICK h \in handed : h[1] = p /\ p \in Players
      BY DEF HandedPlayers
    <3>2. QED BY <1>1, <3>1 DEF Active, Owners
  <2>2. ASSUME NEW p \in Players, <<p, 0>> \in Active(Players)
        PROVE  p \in HandedPlayers
    <3>1. <<p, 0>> \in handed
      BY <1>1, <2>2 DEF Active, Owners
    <3>2. <<p, 0>>[1] = p
      OBVIOUS
    <3>3. QED BY <3>1, <3>2 DEF HandedPlayers
  <2>3. QED BY <2>1, <2>2
<1>7. ASSUME NEW g \in DOMAIN groups
      PROVE  FilesOf(groups[g]) \in {HandedOf(p) : p \in HandedPlayers}
  <2>1. PICK p \in Players : FilesOf(groups[g]) = TeamOf(p)
    BY <1>2 DEF Tidy, GroupsComplete, CompleteTeam
  <2>2. groups[g] \in Group
    BY DEF Inv, TypeOK
  <2>3. 1 \in DOMAIN groups[g]
    BY <2>2 DEF Group
  <2>4. groups[g][1].file \in TeamOf(p)
    BY <2>1, <2>3, FilesOfGroup
  <2>5. <<p, 0>> \in Active(Players)
    BY <2>4, ActiveFacts DEF TeamOf
  <2>6. QED BY <1>5, <1>6, <2>1, <2>5
<1>8. ASSUME NEW p \in HandedPlayers
      PROVE  HandedOf(p) \in {FilesOf(groups[g]) : g \in DOMAIN groups}
  <2>1. p \in Players /\ <<p, 0>> \in Seen
    BY <1>1, <1>6
  <2>2. PICK g \in DOMAIN groups : <<p, 0>> \in FilesOf(groups[g])
    BY <1>1, <1>2, <2>1 DEF Tidy, SeenGrouped
  <2>3. PICK q \in Players : FilesOf(groups[g]) = TeamOf(q)
    BY <1>2 DEF Tidy, GroupsComplete, CompleteTeam
  <2>4. p = q
    BY <2>2, <2>3 DEF TeamOf
  <2>5. QED BY <1>5, <2>1, <2>3, <2>4
<1>9. TeamsMade
  BY <1>2, <1>7, <1>8 DEF TeamsMade, Tidy
<1>10. ASSUME NEW g \in DOMAIN groups, NEW i \in DOMAIN groups[g]
       PROVE  /\ groups[g][i].file \in FilesOf(groups[g])
              /\ groups[g][i] \in Range(groups[g])
              /\ groups[g][i].name = Name(groups[g][i].file)
  BY <1>2, FilesOfGroup DEF Tidy, GroupsComplete, NamesKept, Range
<1>11. DistinctNames => DistinctHanded
  <2>1. SUFFICES ASSUME DistinctNames, NEW f \in Active(Players),
                        NEW h \in Active(Players), Name(f) = Name(h)
                 PROVE  f = h
    BY DEF DistinctHanded
  <2>2. ASSUME NEW k \in Active(Players)
        PROVE  \E g \in DOMAIN groups : \E m \in Range(groups[g]) :
                 m.file = k /\ m.name = Name(k)
    <3>1. PICK g \in DOMAIN groups : k \in FilesOf(groups[g])
      BY <1>1, <1>2 DEF Tidy, SeenGrouped
    <3>2. PICK i \in DOMAIN groups[g] : groups[g][i].file = k
      BY <3>1, FilesOfGroup
    <3>3. QED BY <1>10, <3>1, <3>2
  <2>3. QED BY <2>1, <2>2 DEF DistinctNames
<1>12. NamesMade
  <2>1. SUFFICES ASSUME DistinctNames, NEW g \in DOMAIN groups,
                        NEW m \in Range(groups[g])
                 PROVE  nameToGroup[m.name] = g
    BY DEF NamesMade
  <2>2. PICK i \in DOMAIN groups[g] : m = groups[g][i]
    BY DEF Range
  <2>3. QED BY <1>2, <1>11, <2>1, <2>2 DEF Tidy, GroupsNamed
<1>13. Kept'
  <2>1. UNCHANGED <<groups, nameToGroup, handed>>
    BY <1>3
  <2>2. (phase = "zombies" => TeamsMade /\ NamesMade) /\ TeamsMade /\ NamesMade
    BY <1>9, <1>12
  <2>3. TeamsMade' /\ NamesMade'
    BY <1>9, <1>12, <2>1, MadeStay
  <2>4. QED BY <2>3 DEF Kept
<1>14. QED BY <1>4, <1>13

(* No other step makes or changes a group.                                 *)
LEMMA LoaderRest ==
  ASSUME Inv,
         \/ \E f \in Files :
              \/ RefusePlayer(f) \/ LoadSecondThrows(f)
              \/ LoadZombie(f) \/ RefuseZombie(f) \/ LoadZombieThrows(f)
         \/ NoPlayers \/ LoadingDone \/ StartWar
         \/ \E survivors \in SUBSET war : EndWar(survivors)
         \/ \E w \in scoring : PassOver(w) \/ AddScore(w) \/ AddScoreThrows(w)
         \/ EndCompetition \/ StopDebug
  PROVE  LoaderInv' /\ Kept'
<1>1. page' = page
  BY DEF RefusePlayer, LoadSecondThrows, LoadZombie, RefuseZombie,
         LoadZombieThrows, NoPlayers, LoadingDone, StartWar, EndWar, PassOver,
         AddScore, AddScoreThrows, EndCompetition, StopDebug, Ends, Page, pageVars
<1>2. CASE \/ \E f \in Files : \/ RefusePlayer(f) \/ LoadSecondThrows(f)
                              \/ RefuseZombie(f) \/ LoadZombieThrows(f)
           \/ NoPlayers
  <2>1. phase' = "idle" /\ outcome' \in {"refused", "threw"}
    BY <1>2 DEF RefusePlayer, LoadSecondThrows, RefuseZombie, LoadZombieThrows,
                NoPlayers, Ends
  <2>2. QED BY <1>1, <2>1 DEF Inv, LoaderInv, Kept
<1>3. CASE \E f \in Files : LoadZombie(f)
  <2>1. /\ phase = "zombies" /\ phase' = "zombies" /\ outcome' = outcome
        /\ scoring' = scoring /\ UNCHANGED <<groups, nameToGroup, handed>>
    BY <1>3 DEF LoadZombie, comp
  <2>2. Kept'
    BY <2>1, KeptStays DEF Inv
  <2>3. QED BY <1>1, <2>1, <2>2 DEF Inv, LoaderInv
<1>4. CASE LoadingDone
  <2>1. /\ phase = "zombies" /\ phase' = "idle"
        /\ UNCHANGED <<groups, nameToGroup, handed>>
    BY <1>4 DEF LoadingDone, repo
  <2>2. Kept'
    BY <2>1, KeptStays DEF Inv
  <2>3. QED BY <1>1, <2>1, <2>2 DEF Inv, LoaderInv
<1>5. CASE \/ StartWar
           \/ \E survivors \in SUBSET war : EndWar(survivors)
           \/ \E w \in scoring : PassOver(w) \/ AddScore(w) \/ AddScoreThrows(w)
           \/ EndCompetition \/ StopDebug
  <2>1. UNCHANGED <<phase, outcome, groups, nameToGroup, handed>>
    BY <1>5 DEF StartWar, EndWar, PassOver, AddScore, AddScoreThrows,
                EndCompetition, StopDebug, Page, loader, repo
  <2>2. phase = "idle"
    <3>1. Idle \/ scoring # {}
      BY <1>5 DEF StartWar, EndWar, EndCompetition, StopDebug
    <3>2. QED BY <3>1 DEF Inv, LoaderInv, TypeOK, Idle
  <2>3. Kept'
    BY <2>1, KeptStays DEF Inv
  <2>4. QED BY <1>1, <2>1, <2>2, <2>3 DEF Inv, LoaderInv
<1>6. QED BY <1>2, <1>3, <1>4, <1>5

LEMMA InvNext == Inv /\ [Next]_vars => Inv'
<1>1. SUFFICES ASSUME Inv, [Next]_vars PROVE LoaderInv' /\ Kept'
  BY TypeNext DEF Inv
<1>2. CASE Edits
  BY <1>2, LoaderEdit, <1>1
<1>3. CASE \E debug \in BOOLEAN : Start(debug)
  BY <1>3, LoaderStart, <1>1
<1>4. CASE \E f \in Files : LoadSingle(f) \/ LoadFirst(f) \/ LoadSecond(f)
  BY <1>4, LoaderTurn, <1>1
<1>5. CASE PlayersLoaded
  BY <1>5, LoaderDone, <1>1
<1>6. CASE \/ \E f \in Files :
                \/ RefusePlayer(f) \/ LoadSecondThrows(f)
                \/ LoadZombie(f) \/ RefuseZombie(f) \/ LoadZombieThrows(f)
           \/ NoPlayers \/ LoadingDone \/ StartWar
           \/ \E survivors \in SUBSET war : EndWar(survivors)
           \/ \E w \in scoring : PassOver(w) \/ AddScore(w) \/ AddScoreThrows(w)
           \/ EndCompetition \/ StopDebug
  BY <1>6, LoaderRest, <1>1
<1>7. CASE UNCHANGED vars
  <2>1. UNCHANGED <<page, phase, left, handed, current, outcome, groups,
                    nameToGroup, scoring>>
    BY <1>7 DEF vars, pageVars, loader, repo, comp
  <2>2. Kept'
    BY <1>1, <2>1, KeptStays DEF Inv
  <2>3. Active(Players)' = Active(Players) /\ Active(Owners)' = Active(Owners)
    BY <2>1 DEF Active, IsTwo
  <2>4. Seen' = Seen /\ Open' = Open
    BY <2>1, <2>3 DEF Seen, Open
  <2>5. \A p : TeamOf(p)' = TeamOf(p)
    BY <2>3 DEF TeamOf
  <2>6. DistinctHanded' = DistinctHanded
    BY <2>1, <2>3 DEF DistinctHanded, Name
  <2>7. Tangled => Tangled'
    BY <2>1, <2>4 DEF Tangled
  <2>8. GroupsComplete => GroupsComplete'
    BY <2>1, <2>4, <2>5 DEF GroupsComplete, CompleteTeam, NamesKept, FilesOf, Name
  <2>9. HandOpen /\ HandNamed => HandOpen' /\ HandNamed'
    BY <2>1, <2>4, <2>6 DEF HandOpen, HandNamed, Name
  <2>10. /\ GroupsApart => GroupsApart'
         /\ SeenGrouped => SeenGrouped'
         /\ GroupsNamed => GroupsNamed'
    BY <2>1, <2>4, <2>6 DEF GroupsApart, SeenGrouped, GroupsNamed, FilesOf
  <2>11. Tidy => Tidy'
    BY <2>8, <2>9, <2>10 DEF Tidy
  <2>12. LoaderInv'
    BY <1>1, <2>1, <2>3, <2>7, <2>11 DEF Inv, LoaderInv, IsTwo
  <2>13. QED BY <2>2, <2>12
<1>8. QED
  BY <1>1, <1>2, <1>3, <1>4, <1>5, <1>6, <1>7 DEF Next, Edits

(* When a start goes through, the groups are the players, whatever they    *)
(* and their programs are called and however they sort: loadWarriors never *)
(* puts two players' programs into one group or tears a player's apart.    *)
THEOREM TeamsStayTogether == Spec => []TeamsTogether
<1>1. Inv => TeamsTogether
  BY DEF Inv, Kept, TeamsMade, GroupsApart, TeamsTogether
<1>2. QED BY <1>1, InvInit, InvNext, PTL DEF Spec

(* And if all programs of players differ in name, a name leads to the      *)
(* group of its program, so that points go where they were won.            *)
THEOREM NamesLeadToGroups == Spec => []NamesFindGroups
<1>1. Inv => NamesFindGroups
  BY DEF Inv, Kept, NamesMade, NamesFindGroups
<1>2. QED BY <1>1, InvInit, InvNext, PTL DEF Spec

-----------------------------------------------------------------------------
(***************************************************************************)
(* Fixed addresses.  Whatever the loader has accepted so far has a fixed   *)
(* address only if it is taken, and has it for itself.                     *)
(***************************************************************************)
Grouped == UNION {Range(groups[g]) : g \in DOMAIN groups}
Loaded == Grouped \cup Range(current)
            \cup (IF phase = "players" THEN {} ELSE Range(zombieGroup))

Apart(accepted) ==
  \A m, n \in accepted :
    m.file # n.file /\ m.address # Random => m.address # n.address

AddressesKept ==
  phase # "idle" \/ outcome = "loaded" =>
    /\ \A m \in Loaded : m.address # Random => m.address \in checker.taken
    /\ Apart(Loaded)

LEMMA RangeOfAppend ==
  ASSUME NEW S, NEW s \in Seq(S), NEW x \in S
  PROVE  Range(Append(s, x)) = Range(s) \cup {x}
<1>1. /\ DOMAIN s = 1 .. Len(s) /\ Len(s) \in Nat
      /\ DOMAIN Append(s, x) = 1 .. Len(s) + 1
      /\ \A i \in 1 .. Len(s) : Append(s, x)[i] = s[i]
      /\ Append(s, x)[Len(s) + 1] = x
  OBVIOUS
<1>2. ASSUME NEW y \in Range(Append(s, x)) PROVE y \in Range(s) \cup {x}
  <2>1. PICK i \in 1 .. Len(s) + 1 : y = Append(s, x)[i]
    BY <1>1 DEF Range
  <2>2. i \in 1 .. Len(s) \/ i = Len(s) + 1
    BY <1>1
  <2>3. QED BY <1>1, <2>1, <2>2 DEF Range
<1>3. ASSUME NEW y \in Range(s) \cup {x} PROVE y \in Range(Append(s, x))
  BY <1>1 DEF Range
<1>4. QED BY <1>2, <1>3

(* A group that is completed adds its members to those grouped.            *)
LEMMA GroupedAfter ==
  ASSUME groups \in Seq(Group), NEW g \in Group, groups' = Append(groups, g)
  PROVE  Grouped' = Grouped \cup Range(g)
<1>1. /\ DOMAIN groups = 1 .. Len(groups) /\ Len(groups) \in Nat
      /\ DOMAIN groups' = 1 .. Len(groups) + 1
      /\ \A h \in 1 .. Len(groups) : groups'[h] = groups[h]
      /\ groups'[Len(groups) + 1] = g
  OBVIOUS
<1>2. Grouped' = UNION {Range(groups'[h]) : h \in DOMAIN groups'}
  BY DEF Grouped, Range
<1>3. ASSUME NEW m \in Grouped' PROVE m \in Grouped \cup Range(g)
  <2>1. PICK h \in DOMAIN groups' : m \in Range(groups'[h])
    BY <1>2
  <2>2. h \in 1 .. Len(groups) \/ h = Len(groups) + 1
    BY <1>1
  <2>3. QED BY <1>1, <2>1, <2>2 DEF Grouped
<1>4. ASSUME NEW m \in Grouped \cup Range(g) PROVE m \in Grouped'
  <2>1. CASE m \in Grouped
    <3>1. PICK h \in DOMAIN groups : m \in Range(groups[h])
      BY <2>1 DEF Grouped
    <3>2. h \in DOMAIN groups' /\ groups'[h] = groups[h]
      BY <1>1
    <3>3. QED BY <1>2, <3>1, <3>2
  <2>2. CASE m \in Range(g)
    BY <1>1, <1>2, <2>2
  <2>3. QED BY <2>1, <2>2
<1>5. QED BY <1>3, <1>4

(* One more warrior is accepted, without a fixed address or at one that    *)
(* was not taken and is from now on.                                       *)
LEMMA OneMoreLoaded ==
  ASSUME AddressesKept, phase # "idle", NEW m, Loaded' \subseteq Loaded \cup {m},
         \/ m.address = Random /\ checker'.taken = checker.taken
         \/ /\ m.address \in Slots \ checker.taken
            /\ checker'.taken = checker.taken \cup {m.address}
  PROVE  AddressesKept'
<1>1. /\ \A n \in Loaded : n.address # Random => n.address \in checker.taken
      /\ Apart(Loaded)
  BY DEF AddressesKept
<1>2. checker.taken \subseteq checker'.taken
  OBVIOUS
<1>3. \A n \in Loaded' : n.address # Random => n.address \in checker'.taken
  BY <1>1, <1>2
<1>4. \A n \in Loaded : m.address # Random => n.address # m.address
  BY <1>1, RepositoryAssumption DEF RepositoryAssumption
<1>5. Apart(Loaded)'
  BY <1>1, <1>4 DEF Apart
<1>6. QED BY <1>3, <1>5 DEF AddressesKept

(* A turn of the loader adds one warrior, to the group in hand or to a     *)
(* complete one.                                                           *)
LEMMA TurnLoads ==
  ASSUME TypeOK, NEW f \in Files, LoadSingle(f) \/ LoadFirst(f) \/ LoadSecond(f)
  PROVE  Grouped' \cup Range(current')
           \subseteq Grouped \cup Range(current) \cup {PlayerMember(f)}
<1> DEFINE m == PlayerMember(f)
<1>1. LoadPlayer(f)
  BY DEF LoadSingle, LoadFirst, LoadSecond
<1>2. m \in Warrior /\ groups \in Seq(Group)
  BY <1>1, MemberTypes DEF LoadPlayer, TypeOK
<1> HIDE DEF m
<1>3. Range(NoGroup) = {} /\ Range(<<m>>) = {m}
  BY DEF NoGroup, Range
<1>4. CASE LoadSingle(f)
  <2>1. groups' = Append(groups, <<m>>) /\ current' = NoGroup
    BY <1>4 DEF LoadSingle, Complete, m
  <2>2. Grouped' = Grouped \cup {m}
    BY <1>2, <1>3, <2>1, GroupTypes, GroupedAfter
  <2>3. QED BY <1>3, <2>1, <2>2 DEF m
<1>5. CASE LoadFirst(f)
  <2>1. groups' = groups /\ current' = <<m>>
    BY <1>5 DEF LoadFirst, m
  <2>2. Grouped' = Grouped
    BY <2>1 DEF Grouped, Range
  <2>3. QED BY <1>3, <2>1, <2>2 DEF m
<1>6. CASE LoadSecond(f)
  <2>1. /\ groups' = Append(groups, Append(current, m)) /\ current' = NoGroup
        /\ current \in [1 .. 1 -> Warrior]
    BY <1>6 DEF LoadSecond, Complete, TypeOK, m
  <2>2. current \in Seq(Warrior) /\ Append(current, m) \in Group
    BY <1>2, <2>1, OneIsSeq, GroupTypes
  <2>3. Range(Append(current, m)) = Range(current) \cup {m}
    BY <1>2, <2>2, RangeOfAppend
  <2>4. Grouped' = Grouped \cup Range(Append(current, m))
    BY <1>2, <2>1, <2>2, GroupedAfter
  <2>5. QED BY <1>3, <2>1, <2>3, <2>4 DEF m
<1>7. QED BY <1>4, <1>5, <1>6

(* A player's program is checked before it is loaded.                      *)
LEMMA AddressesTurn ==
  ASSUME TypeOK, AddressesKept, NEW f \in Files,
         LoadSingle(f) \/ LoadFirst(f) \/ LoadSecond(f)
  PROVE  AddressesKept'
<1> DEFINE m == PlayerMember(f)
<1>1. LoadPlayer(f) /\ Continue(f) /\ phase = "players" /\ phase' = "players"
  BY DEF LoadSingle, LoadFirst, LoadSecond, LoadPlayer, Continue
<1>2. m \in Warrior /\ groups \in Seq(Group)
  BY <1>1, MemberTypes DEF LoadPlayer, TypeOK
<1>3. \/ m.address = Random /\ checker'.taken = checker.taken
      \/ /\ m.address \in Slots \ checker.taken
         /\ checker'.taken = checker.taken \cup {m.address}
  <2>1. m.address = IF IsFixed(f) THEN page.address[f] ELSE Random
    BY DEF PlayerMember, Member
  <2>2. CASE IsFixed(f)
    <3>1. page.address[f] \in Slots \ checker.taken
      BY <1>1, <2>2 DEF LoadPlayer, Refuses, Accepts
    <3>2. checker' = Checked(checker, page.address[f])
      BY <1>1, <2>2 DEF LoadPlayer, CheckerAfter
    <3>3. checker'.taken = checker.taken \cup {page.address[f]}
      BY <3>1, <3>2 DEF Checked
    <3>4. QED BY <2>1, <2>2, <3>1, <3>3
  <2>3. CASE ~IsFixed(f)
    BY <1>1, <2>1, <2>3 DEF LoadPlayer, CheckerAfter
  <2>4. QED BY <2>2, <2>3
<1>5. Loaded' \subseteq Loaded \cup {m}
  BY TurnLoads, <1>1 DEF Loaded
<1>6. QED BY <1>1, <1>3, <1>5, OneMoreLoaded

(* So is a zombie's.                                                       *)
LEMMA AddressesZombie ==
  ASSUME TypeOK, AddressesKept, NEW z \in Files, LoadZombie(z)
  PROVE  AddressesKept'
<1> DEFINE m == Member(z, page.address[z])
<1>1. /\ phase = "zombies" /\ phase' = "zombies"
      /\ groups' = groups /\ current' = current
      /\ zombieGroup' = Append(zombieGroup, m)
      /\ page.address[z] = Random \/ page.address[z] \in Slots \ checker.taken
      /\ checker' = IF page.address[z] = Random THEN checker
                    ELSE Checked(checker, page.address[z])
      /\ m.address = page.address[z]
  BY DEF LoadZombie, Accepts, Member
<1>2. m \in Warrior /\ zombieGroup \in Seq(Warrior)
  BY <1>1, MemberTypes DEF TypeOK
<1>3. \/ m.address = Random /\ checker'.taken = checker.taken
      \/ /\ m.address \in Slots \ checker.taken
         /\ checker'.taken = checker.taken \cup {m.address}
  <2>1. CASE page.address[z] = Random
    BY <1>1, <2>1
  <2>2. CASE page.address[z] # Random
    <3>1. checker' = Checked(checker, page.address[z])
      BY <1>1, <2>2
    <3>2. QED BY <1>1, <2>2, <3>1 DEF Checked
  <2>3. QED BY <2>1, <2>2
<1> HIDE DEF m
<1>4. Range(zombieGroup') = Range(zombieGroup) \cup {m}
  BY <1>1, <1>2, RangeOfAppend
<1>5. Grouped' = Grouped /\ Range(current') = Range(current)
  BY <1>1 DEF Grouped, Range
<1>6. Loaded' = Grouped' \cup Range(current') \cup Range(zombieGroup')
  BY <1>1 DEF Loaded, Range
<1>7. Loaded' \subseteq Loaded \cup {m}
  BY <1>1, <1>4, <1>5, <1>6 DEF Loaded
<1>8. QED BY <1>1, <1>3, <1>7, OneMoreLoaded

(* Nothing else is loaded, and no address is given back before the next    *)
(* start.                                                                  *)
LEMMA AddressesRest ==
  ASSUME AddressesKept,
         \/ Edits \/ \E debug \in BOOLEAN : Start(debug)
         \/ \E f \in Files :
              \/ RefusePlayer(f) \/ LoadSecondThrows(f)
              \/ RefuseZombie(f) \/ LoadZombieThrows(f)
         \/ NoPlayers \/ PlayersLoaded \/ LoadingDone \/ StartWar
         \/ \E survivors \in SUBSET war : EndWar(survivors)
         \/ \E w \in scoring : PassOver(w) \/ AddScore(w) \/ AddScoreThrows(w)
         \/ EndCompetition \/ StopDebug \/ UNCHANGED vars
  PROVE  AddressesKept'
<1>1. CASE \/ Edits \/ StartWar
           \/ \E survivors \in SUBSET war : EndWar(survivors)
           \/ \E w \in scoring : PassOver(w) \/ AddScore(w) \/ AddScoreThrows(w)
           \/ EndCompetition \/ StopDebug \/ UNCHANGED vars
  <2>1. UNCHANGED <<phase, outcome, checker, groups, current, zombieGroup>>
    <3>1. CASE Edits
      BY <3>1 DEF Edits, UpdateTitle, AddPlayer, ChangedWType, RemovePlayer,
                  LoadAddrChanged, Edit, loader, repo
    <3>2. CASE ~Edits
      BY <1>1, <3>2 DEF StartWar, EndWar, PassOver, AddScore, AddScoreThrows,
                        EndCompetition, StopDebug, vars, Page, loader, repo
    <3>3. QED BY <3>1, <3>2
  <2>2. Loaded' = Loaded
    BY <2>1 DEF Loaded, Grouped, Range
  <2>3. QED BY <2>1, <2>2 DEF AddressesKept, Apart
<1>2. CASE \E debug \in BOOLEAN : Start(debug)
  <2>1. groups' = <<>> /\ current' = NoGroup /\ phase' = "players"
    BY <1>2 DEF Start
  <2>2. Loaded' = {}
    BY <2>1 DEF Loaded, Grouped, Range, NoGroup
  <2>3. QED BY <2>2 DEF AddressesKept, Apart
<1>3. CASE \/ \E f \in Files : \/ RefusePlayer(f) \/ LoadSecondThrows(f)
                              \/ RefuseZombie(f) \/ LoadZombieThrows(f)
           \/ NoPlayers
  <2>1. phase' = "idle" /\ outcome' \in {"refused", "threw"}
    BY <1>3 DEF RefusePlayer, LoadSecondThrows, RefuseZombie, LoadZombieThrows,
                NoPlayers, Ends
  <2>2. QED BY <2>1 DEF AddressesKept
<1>4. CASE PlayersLoaded
  <2>1. /\ phase = "players" /\ phase' = "zombies" /\ zombieGroup' = NoGroup
        /\ UNCHANGED <<checker, groups, current>>
    BY <1>4 DEF PlayersLoaded
  <2>2. Loaded' = Loaded
    BY <2>1 DEF Loaded, Grouped, Range, NoGroup
  <2>3. QED BY <2>1, <2>2 DEF AddressesKept, Apart
<1>5. CASE LoadingDone
  <2>1. /\ phase = "zombies" /\ phase' = "idle"
        /\ UNCHANGED <<checker, groups, current, zombieGroup>>
    BY <1>5 DEF LoadingDone, repo
  <2>2. Loaded' = Loaded
    BY <2>1 DEF Loaded, Grouped, Range
  <2>3. QED BY <2>1, <2>2 DEF AddressesKept, Apart
<1>6. QED BY <1>1, <1>2, <1>3, <1>4, <1>5

LEMMA AddressesNext == Inv /\ AddressesKept /\ [Next]_vars => AddressesKept'
<1>1. SUFFICES ASSUME Inv, AddressesKept, [Next]_vars PROVE AddressesKept'
  OBVIOUS
<1>2. TypeOK
  BY <1>1 DEF Inv
<1>3. CASE \E f \in Files : LoadSingle(f) \/ LoadFirst(f) \/ LoadSecond(f)
  BY <1>1, <1>2, <1>3, AddressesTurn
<1>4. CASE \E f \in Files : LoadZombie(f)
  BY <1>1, <1>2, <1>4, AddressesZombie
<1>5. CASE ~ \E f \in Files : \/ LoadSingle(f) \/ LoadFirst(f) \/ LoadSecond(f)
                              \/ LoadZombie(f)
  BY <1>1, <1>5, AddressesRest DEF Next, Edits
<1>6. QED BY <1>3, <1>4, <1>5

(* When a start goes through, no two programs, zombies included, have the  *)
(* same fixed address, in whatever order they were checked: what a war     *)
(* takes for granted when it loads them.                                   *)
THEOREM FixedAddressesApart == Spec => []FixedApart
<1>1. Init => AddressesKept
  BY DEF Init, AddressesKept
<1>2. Inv /\ AddressesKept => FixedApart
  <2>1. SUFFICES ASSUME TypeOK, AddressesKept, LoaderInv, outcome = "loaded"
                 PROVE  Apart(GroupList(Len(groups)))
    BY DEF Inv, FixedApart, Apart
  <2>2. phase = "idle" /\ Apart(Loaded)
    BY <2>1 DEF LoaderInv, TypeOK, AddressesKept
  <2>3. DOMAIN groups = 1 .. Len(groups)
    BY <2>1 DEF TypeOK
  <2>4. GroupList(Len(groups)) \subseteq Loaded
    BY <2>2, <2>3 DEF GroupList, Loaded, Grouped
  <2>5. QED BY <2>2, <2>4 DEF Apart
<1>3. QED BY <1>1, <1>2, InvInit, InvNext, AddressesNext, PTL DEF Spec

-----------------------------------------------------------------------------
(***************************************************************************)
(* Who is enlisted.  Everyone in a group has a name that leads somewhere,  *)
(* and the zombies are the ones handed in, loaded or still to come.        *)
(***************************************************************************)
ZombieFiles == {f \in handed : f[1] \in Zombies}

Enlisted ==
  /\ \A m \in Grouped \cup Range(current) : nameToGroup[m.name] # 0
  /\ phase = "zombies" => FilesOf(zombieGroup) \cup left = ZombieFiles
  /\ outcome = "loaded" => FilesOf(zombieGroup) = ZombieFiles

LEMMA EnlistedTurn ==
  ASSUME Inv, Enlisted, NEW f \in Files,
         LoadSingle(f) \/ LoadFirst(f) \/ LoadSecond(f)
  PROVE  Enlisted'
<1>1. /\ LoadPlayer(f) /\ Continue(f) /\ PutName(f)
      /\ phase = "players" /\ phase' = "players" /\ outcome' = outcome
      /\ outcome = "none"
  BY DEF LoadSingle, LoadFirst, LoadSecond, LoadPlayer, Continue, Inv, LoaderInv
<1>2. /\ TypeOK /\ Name(f) \in Names /\ nameToGroup \in [Names -> Nat]
      /\ Len(groups) \in Nat
  BY PageTypes DEF Inv, TypeOK
<1>3. nameToGroup' = [nameToGroup EXCEPT ![Name(f)] = Len(groups) + 1]
  BY <1>1 DEF PutName
<1>4. PlayerMember(f).name = Name(f)
  BY DEF PlayerMember, Member
<1>5. Len(groups) + 1 # 0
  BY <1>2
<1>6. ASSUME NEW m \in (Grouped \cup Range(current))' PROVE nameToGroup'[m.name] # 0
  <2>1. m \in Grouped \cup Range(current) \/ m = PlayerMember(f)
    BY <1>2, <1>6, TurnLoads DEF Range
  <2>2. CASE m.name = Name(f)
    BY <1>2, <1>3, <1>5, <2>2
  <2>3. CASE m.name # Name(f)
    <3>1. nameToGroup[m.name] # 0
      BY <1>4, <2>1, <2>3 DEF Enlisted
    <3>2. nameToGroup'[m.name] = nameToGroup[m.name]
      BY <1>3, <2>3, <1>2
    <3>3. QED BY <3>1, <3>2
  <2>4. QED BY <2>2, <2>3
<1>7. QED BY <1>1, <1>6 DEF Enlisted

(* A zombie goes from those that are left to its group.                    *)
LEMMA EnlistedZombie ==
  ASSUME Inv, Enlisted, NEW z \in Files, LoadZombie(z)
  PROVE  Enlisted'
<1> DEFINE m == Member(z, page.address[z])
<1>1. /\ phase = "zombies" /\ phase' = "zombies" /\ outcome' = outcome
      /\ outcome = "none" /\ z \in left /\ left' = left \ {z}
      /\ zombieGroup' = Append(zombieGroup, m)
      /\ UNCHANGED <<groups, current, nameToGroup, handed>>
  BY DEF LoadZombie, IsNextZombie, Inv, LoaderInv
<1>2. m \in Warrior /\ zombieGroup \in Seq(Warrior) /\ m.file = z
  BY MemberTypes DEF LoadZombie, Accepts, Inv, TypeOK, Member
<1> HIDE DEF m
<1>3. Range(zombieGroup') = Range(zombieGroup) \cup {m}
  BY <1>1, <1>2, RangeOfAppend
<1>4. FilesOf(zombieGroup)' = FilesOf(zombieGroup) \cup {z}
  <2>1. FilesOf(zombieGroup)' = {n.file : n \in Range(zombieGroup')}
    BY DEF FilesOf, Range
  <2>2. QED BY <1>2, <1>3, <2>1 DEF FilesOf
<1>5. FilesOf(zombieGroup)' \cup left' = ZombieFiles'
  BY <1>1, <1>4 DEF Enlisted, ZombieFiles
<1>6. (Grouped \cup Range(current))' = Grouped \cup Range(current)
  BY <1>1 DEF Grouped, Range
<1>7. QED BY <1>1, <1>5, <1>6 DEF Enlisted

LEMMA EnlistedRest ==
  ASSUME Inv, Enlisted,
         \/ Edits \/ \E debug \in BOOLEAN : Start(debug)
         \/ \E f \in Files :
              \/ RefusePlayer(f) \/ LoadSecondThrows(f)
              \/ RefuseZombie(f) \/ LoadZombieThrows(f)
         \/ NoPlayers \/ PlayersLoaded \/ LoadingDone \/ StartWar
         \/ \E survivors \in SUBSET war : EndWar(survivors)
         \/ \E w \in scoring : PassOver(w) \/ AddScore(w) \/ AddScoreThrows(w)
         \/ EndCompetition \/ StopDebug \/ UNCHANGED vars
  PROVE  Enlisted'
<1>1. CASE \/ Edits \/ StartWar
           \/ \E survivors \in SUBSET war : EndWar(survivors)
           \/ \E w \in scoring : PassOver(w) \/ AddScore(w) \/ AddScoreThrows(w)
           \/ EndCompetition \/ StopDebug \/ UNCHANGED vars
  <2>1. UNCHANGED <<phase, outcome, left, handed, groups, current, zombieGroup,
                    nameToGroup>>
    <3>1. CASE Edits
      BY <3>1 DEF Edits, UpdateTitle, AddPlayer, ChangedWType, RemovePlayer,
                  LoadAddrChanged, Edit, loader, repo
    <3>2. CASE ~Edits
      BY <1>1, <3>2 DEF StartWar, EndWar, PassOver, AddScore, AddScoreThrows,
                        EndCompetition, StopDebug, vars, Page, loader, repo
    <3>3. QED BY <3>1, <3>2
  <2>2. /\ (Grouped \cup Range(current))' = Grouped \cup Range(current)
        /\ FilesOf(zombieGroup)' = FilesOf(zombieGroup)
        /\ ZombieFiles' = ZombieFiles
    BY <2>1 DEF Grouped, Range, FilesOf, ZombieFiles
  <2>3. QED BY <2>1, <2>2 DEF Enlisted
<1>2. CASE \E debug \in BOOLEAN : Start(debug)
  <2>1. /\ groups' = <<>> /\ current' = NoGroup
        /\ phase' = "players" /\ outcome' = "none"
    BY <1>2 DEF Start
  <2>2. (Grouped \cup Range(current))' = {}
    BY <2>1 DEF Grouped, Range, NoGroup
  <2>3. QED BY <2>1, <2>2 DEF Enlisted
<1>3. CASE \/ \E f \in Files : \/ RefusePlayer(f) \/ LoadSecondThrows(f)
                              \/ RefuseZombie(f) \/ LoadZombieThrows(f)
           \/ NoPlayers
  <2>1. /\ phase' = "idle" /\ outcome' \in {"refused", "threw"}
        /\ UNCHANGED <<groups, current, nameToGroup>>
    BY <1>3 DEF RefusePlayer, LoadSecondThrows, RefuseZombie, LoadZombieThrows,
                NoPlayers, Ends, repo
  <2>2. (Grouped \cup Range(current))' = Grouped \cup Range(current)
    BY <2>1 DEF Grouped, Range
  <2>3. QED BY <2>1, <2>2 DEF Enlisted
<1>4. CASE PlayersLoaded
  <2>1. /\ phase = "players" /\ phase' = "zombies" /\ zombieGroup' = <<>>
        /\ left' = handed \ Active(Players) /\ outcome' = "none"
        /\ UNCHANGED <<page, groups, current, nameToGroup, handed>>
    BY <1>4 DEF PlayersLoaded, NoGroup, pageVars, Inv, LoaderInv
  <2>2. handed = Active(Owners)
    BY <2>1 DEF Inv, LoaderInv
  <2>3. left' = ZombieFiles'
    BY <2>1, <2>2, RepositoryAssumption
       DEF ZombieFiles, Active, Owners, RepositoryAssumption
  <2>4. FilesOf(zombieGroup)' = {}
    BY <2>1 DEF FilesOf, Range
  <2>5. (Grouped \cup Range(current))' = Grouped \cup Range(current)
    BY <2>1 DEF Grouped, Range
  <2>6. QED BY <2>1, <2>3, <2>4, <2>5 DEF Enlisted
<1>5. CASE LoadingDone
  <2>1. /\ phase = "zombies" /\ phase' = "idle" /\ left = {}
        /\ UNCHANGED <<groups, current, zombieGroup, nameToGroup, handed>>
    BY <1>5 DEF LoadingDone, repo
  <2>2. /\ (Grouped \cup Range(current))' = Grouped \cup Range(current)
        /\ FilesOf(zombieGroup)' = FilesOf(zombieGroup)
        /\ ZombieFiles' = ZombieFiles
    BY <2>1 DEF Grouped, Range, FilesOf, ZombieFiles
  <2>3. QED BY <2>1, <2>2 DEF Enlisted
<1>6. QED BY <1>1, <1>2, <1>3, <1>4, <1>5

LEMMA EnlistedNext == Inv /\ Enlisted /\ [Next]_vars => Enlisted'
<1>1. SUFFICES ASSUME Inv, Enlisted, [Next]_vars PROVE Enlisted'
  OBVIOUS
<1>2. CASE \E f \in Files : LoadSingle(f) \/ LoadFirst(f) \/ LoadSecond(f)
  BY <1>1, <1>2, EnlistedTurn
<1>3. CASE \E f \in Files : LoadZombie(f)
  BY <1>1, <1>3, EnlistedZombie
<1>4. CASE ~ \E f \in Files : \/ LoadSingle(f) \/ LoadFirst(f) \/ LoadSecond(f)
                              \/ LoadZombie(f)
  BY <1>1, <1>4, EnlistedRest DEF Next, Edits
<1>5. QED BY <1>2, <1>3, <1>4

LEMMA EnlistedInit == Init => Enlisted
BY DEF Init, Enlisted, Grouped, Range, NoGroup

(* After a start that went through the zombies are the ones it was handed, *)
(* whatever earlier starts had loaded and however far they had come.       *)
THEOREM ZombiesAreThoseHanded == Spec => []ZombiesHandedIn
<1>1. Enlisted => ZombiesHandedIn
  BY DEF Enlisted, ZombiesHandedIn, ZombieFiles
<1>2. QED BY <1>1, InvInit, InvNext, EnlistedInit, EnlistedNext, PTL DEF Spec

-----------------------------------------------------------------------------
(***************************************************************************)
(* Why a start may throw.  Programs are seen in the order of their names,  *)
(* so whoever takes the loader's hand off an open player has a name in     *)
(* between; and there is a checker once a fixed address has been seen.     *)
(***************************************************************************)
InHandOrCut(p) ==
  (current # NoGroup /\ current[1].file = <<p, 0>>) \/ CutInTwo(p)

Foreseen ==
  /\ phase = "players" =>
       /\ \A f \in Seen, g \in left : Before(f, g)
       /\ \A p \in Open : InHandOrCut(p)
       /\ ~checker.made => \A f \in Seen : ~IsFixed(f)
  /\ phase = "zombies" =>
       /\ left \subseteq Active(Zombies)
       /\ ~checker.made => \A f \in Active(Players) : ~IsFixed(f)

LEMMA ForeseenTurn ==
  ASSUME Inv, Foreseen, NEW f \in Files,
         LoadSingle(f) \/ LoadFirst(f) \/ LoadSecond(f)
  PROVE  Foreseen'
<1>1. /\ LoadPlayer(f) /\ Continue(f)
      /\ phase = "players" /\ phase' = "players" /\ isInDebug' = isInDebug
      /\ checker' = CheckerAfter(f)
  BY DEF LoadSingle, LoadFirst, LoadSecond, LoadPlayer, Continue
<1>2. /\ f \in Active(Players) /\ f \notin Seen /\ page' = page
      /\ f \in left /\ left' = left \ {f} /\ Seen' = Seen \cup {f}
      /\ \A g \in left \ {f} : Before(f, g)
      /\ left \subseteq Active(Players)
  BY <1>1, TurnFacts DEF LoadPlayer, IsNext, Inv, LoaderInv
<1>3. /\ \A g, h : Before(g, h)' = Before(g, h)
      /\ \A p : CutInTwo(p)' = CutInTwo(p)
      /\ \A g : IsFixed(g)' = IsFixed(g)
  BY <1>1, <1>2 DEF Before, Name, CutInTwo, Active, IsTwo, IsFixed
<1>4. \A g \in Seen', h \in left' : Before(g, h)'
  BY <1>1, <1>2, <1>3 DEF Foreseen
<1>5. ASSUME NEW p \in Open' PROVE InHandOrCut(p)'
  <2>1. CASE p = f[1]
    <3>1. p \in Players /\ <<p, 0>> \in Seen' /\ <<p, 1>> \in left'
      BY <1>5 DEF Open
    <3>2. IsTwo(p)
      BY <1>2, <3>1, ActiveFacts
    <3>3. f # <<p, 1>>
      BY <1>2, <3>1
    <3>4. f[2] = 0
      BY <1>2, <2>1, <3>3, ActiveFacts
    <3>5. LoadFirst(f) /\ f = <<p, 0>>
      <4>1. f = <<f[1], f[2]>>
        BY <1>2, ActiveFacts
      <4>2. ~LoadSingle(f) /\ ~LoadSecond(f)
        BY <2>1, <3>2, <3>4 DEF LoadSingle, LoadSecond
      <4>3. QED BY <2>1, <3>4, <4>1, <4>2
    <3>6. current' = <<PlayerMember(f)>> /\ PlayerMember(f).file = f
      BY <3>5 DEF LoadFirst, PlayerMember, Member
    <3>7. current' # NoGroup /\ current'[1] = PlayerMember(f)
      BY <3>6 DEF NoGroup
    <3>8. (current # NoGroup)' /\ current'[1].file = <<p, 0>>
      BY <3>5, <3>6, <3>7 DEF NoGroup
    <3>9. QED BY <3>8 DEF InHandOrCut
  <2>2. CASE p # f[1]
    <3>1. p \in Open
      <4>1. p \in Players /\ <<p, 0>> \in Seen' /\ <<p, 1>> \in left'
        BY <1>5 DEF Open
      <4>2. <<p, 0>> # f
        BY <2>2
      <4>3. QED BY <1>2, <4>1, <4>2 DEF Open
    <3>2. Before(<<p, 0>>, f)
      BY <1>1, <1>2, <3>1 DEF Foreseen, Open
    <3>3. Before(f, <<p, 1>>)
      BY <1>2, <1>5, <2>2, <3>1, ActiveFacts DEF Open
    <3>4. CutInTwo(p)
      BY <1>2, <2>2, <3>2, <3>3 DEF CutInTwo
    <3>5. QED BY <1>3, <3>4 DEF InHandOrCut
  <2>3. QED BY <2>1, <2>2
<1>6. ASSUME ~checker'.made, NEW g \in Seen' PROVE ~IsFixed(g)'
  <2>1. ~checker.made /\ ~IsFixed(f)
    BY <1>1, <1>6 DEF CheckerAfter, Checked
  <2>2. QED BY <1>1, <1>2, <1>3, <2>1 DEF Foreseen
<1>7. QED BY <1>1, <1>4, <1>5, <1>6 DEF Foreseen

LEMMA ForeseenStart ==
  ASSUME NEW debug \in BOOLEAN, Start(debug)
  PROVE  Foreseen'
<1>1. /\ phase' = "players" /\ left' = Active(Players) /\ page' = page
  BY DEF Start, pageVars
<1>2. Seen' = {}
  BY <1>1 DEF Seen, Active, IsTwo
<1>3. Open' = {}
  BY <1>2 DEF Open
<1>4. QED BY <1>1, <1>2, <1>3 DEF Foreseen

LEMMA ForeseenLoaded ==
  ASSUME Inv, Foreseen, PlayersLoaded
  PROVE  Foreseen'
<1>1. /\ phase = "players" /\ phase' = "zombies" /\ left = {}
      /\ left' = handed \ Active(Players)
      /\ UNCHANGED <<page, isInDebug, checker>>
  BY DEF PlayersLoaded, pageVars
<1>2. handed = Active(Owners) /\ Seen = Active(Players)
  BY <1>1 DEF Inv, LoaderInv, Seen
<1>3. /\ Active(Players)' = Active(Players) /\ Active(Zombies)' = Active(Zombies)
      /\ \A g : IsFixed(g)' = IsFixed(g)
  BY <1>1 DEF Active, IsTwo, IsFixed
<1>4. left' \subseteq Active(Zombies)
  BY <1>1, <1>2 DEF Active, Owners
<1>5. QED BY <1>1, <1>2, <1>3, <1>4 DEF Foreseen

LEMMA ForeseenZombie ==
  ASSUME Foreseen, NEW z \in Files, LoadZombie(z)
  PROVE  Foreseen'
<1>1. /\ phase = "zombies" /\ phase' = "zombies" /\ left' = left \ {z}
      /\ UNCHANGED <<page, isInDebug>>
      /\ checker' = IF page.address[z] = Random THEN checker
                    ELSE Checked(checker, page.address[z])
  BY DEF LoadZombie, pageVars
<1>2. /\ Active(Players)' = Active(Players) /\ Active(Zombies)' = Active(Zombies)
      /\ \A g : IsFixed(g)' = IsFixed(g)
  BY <1>1 DEF Active, IsTwo, IsFixed
<1>3. ~checker'.made => ~checker.made
  BY <1>1 DEF Checked
<1>4. QED BY <1>1, <1>2, <1>3 DEF Foreseen

LEMMA ForeseenStays ==
  ASSUME Foreseen, UNCHANGED <<page, phase, left, isInDebug, checker, current>>
  PROVE  Foreseen'
<1>1. /\ Active(Players)' = Active(Players) /\ Active(Zombies)' = Active(Zombies)
      /\ \A g, h : Before(g, h)' = Before(g, h)
      /\ \A g : IsFixed(g)' = IsFixed(g)
  BY DEF Active, IsTwo, Before, Name, IsFixed
<1>2. /\ \A p : CutInTwo(p)' = CutInTwo(p)
      /\ Seen' = Seen
  BY <1>1 DEF CutInTwo, Seen
<1>3. \A p : InHandOrCut(p)' = InHandOrCut(p)
  BY <1>2 DEF InHandOrCut
<1>4. Open' = Open
  BY <1>2 DEF Open
<1>5. QED BY <1>1, <1>2, <1>3, <1>4 DEF Foreseen

LEMMA ForeseenRest ==
  ASSUME Foreseen,
         \/ Edits
         \/ \E f \in Files :
              \/ RefusePlayer(f) \/ LoadSecondThrows(f)
              \/ RefuseZombie(f) \/ LoadZombieThrows(f)
         \/ NoPlayers \/ LoadingDone \/ StartWar
         \/ \E survivors \in SUBSET war : EndWar(survivors)
         \/ \E w \in scoring : PassOver(w) \/ AddScore(w) \/ AddScoreThrows(w)
         \/ EndCompetition \/ StopDebug \/ UNCHANGED vars
  PROVE  Foreseen'
<1>1. CASE \E w \in scoring : PassOver(w) \/ AddScore(w) \/ AddScoreThrows(w)
  <2>1. UNCHANGED <<page, phase, left, isInDebug, checker, current>>
    BY <1>1 DEF PassOver, AddScore, AddScoreThrows, Page, pageVars, loader
  <2>2. QED BY <2>1, ForeseenStays
<1>2. CASE StopDebug \/ UNCHANGED vars
  <2>1. UNCHANGED <<page, phase, left, isInDebug, checker, current>>
    BY <1>2 DEF StopDebug, vars, pageVars, loader
  <2>2. QED BY <2>1, ForeseenStays
<1>3. CASE \/ Edits \/ StartWar \/ EndCompetition
           \/ \E survivors \in SUBSET war : EndWar(survivors)
  <2>1. Idle /\ phase' = phase
    <3>1. CASE Edits
      BY <3>1 DEF Edits, UpdateTitle, AddPlayer, ChangedWType, RemovePlayer,
                  LoadAddrChanged, Edit, loader
    <3>2. CASE ~Edits
      BY <1>3, <3>2 DEF StartWar, EndWar, EndCompetition, Page, loader
    <3>3. QED BY <3>1, <3>2
  <2>2. QED BY <2>1 DEF Idle, Foreseen
<1>4. CASE \/ \E f \in Files : \/ RefusePlayer(f) \/ LoadSecondThrows(f)
                              \/ RefuseZombie(f) \/ LoadZombieThrows(f)
           \/ NoPlayers \/ LoadingDone
  <2>1. phase' = "idle"
    BY <1>4 DEF RefusePlayer, LoadSecondThrows, RefuseZombie, LoadZombieThrows,
                NoPlayers, LoadingDone, Ends
  <2>2. QED BY <2>1 DEF Foreseen
<1>5. QED BY <1>1, <1>2, <1>3, <1>4

LEMMA ForeseenNext == Inv /\ Foreseen /\ [Next]_vars => Foreseen'
<1>1. SUFFICES ASSUME Inv, Foreseen, [Next]_vars PROVE Foreseen'
  OBVIOUS
<1>2. CASE \E f \in Files : LoadSingle(f) \/ LoadFirst(f) \/ LoadSecond(f)
  BY <1>1, <1>2, ForeseenTurn
<1>3. CASE \E f \in Files : LoadZombie(f)
  BY <1>1, <1>3, ForeseenZombie
<1>4. CASE PlayersLoaded \/ \E debug \in BOOLEAN : Start(debug)
  BY <1>1, <1>4, ForeseenLoaded, ForeseenStart
<1>5. CASE /\ ~ \E f \in Files : \/ LoadSingle(f) \/ LoadFirst(f) \/ LoadSecond(f)
                                 \/ LoadZombie(f)
           /\ ~PlayersLoaded /\ ~ \E debug \in BOOLEAN : Start(debug)
  BY <1>1, <1>5, ForeseenRest DEF Next, Edits
<1>6. QED BY <1>2, <1>3, <1>4, <1>5

(* Only two steps throw, and each finds what it needs on the page.         *)
LEMMA ThrowStep ==
  ASSUME Inv, Foreseen, [Next]_vars, outcome # "threw", outcome' = "threw"
  PROVE  \/ \E p \in Players \cap page.present : IsTwo(p) /\ CutInTwo(p)
         \/ /\ \A f \in Active(Players) : ~IsFixed(f)
            /\ \E z \in Active(Zombies) : page.address[z] # Random
<1>1. CASE \E f \in Files : LoadSecondThrows(f)
  <2>1. PICK f \in Files : LoadSecondThrows(f)
    BY <1>1
  <2> DEFINE p == f[1]
  <2>2. /\ phase = "players" /\ f \in left /\ left \subseteq Active(Players)
        /\ IsTwo(p) /\ f[2] = 1 /\ current = NoGroup /\ IsNext(f)
    BY <2>1 DEF LoadSecondThrows, LoadPlayer, IsNext, Inv, LoaderInv
  <2>3. /\ f = <<p, 1>> /\ p \in Players /\ <<p, 0>> \in Active(Players)
    BY <2>2, ActiveFacts
  <2>4. p \in page.present
    BY <2>2 DEF Active
  <2>5. <<p, 0>> \notin left
    BY <2>2, <2>3, FirstBeforeSecond
  <2>6. p \in Open
    BY <2>2, <2>3, <2>5 DEF Open, Seen
  <2>7. CutInTwo(p)
    BY <2>2, <2>6 DEF Foreseen, InHandOrCut
  <2>8. QED BY <2>2, <2>3, <2>4, <2>7
<1>2. CASE \E z \in Files : LoadZombieThrows(z)
  <2>1. PICK z \in Files : LoadZombieThrows(z)
    BY <1>2
  <2>2. /\ phase = "zombies" /\ z \in left /\ page.address[z] # Random
        /\ ~checker.made
    BY <2>1 DEF LoadZombieThrows, IsNextZombie, NoCheckerFor
  <2>3. QED BY <2>2 DEF Foreseen
<1>3. CASE ~ \E f \in Files : LoadSecondThrows(f) \/ LoadZombieThrows(f)
  <2>1. CASE \E w \in scoring : PassOver(w) \/ AddScore(w) \/ AddScoreThrows(w)
    BY <2>1 DEF PassOver, AddScore, AddScoreThrows, Page
  <2>2. CASE \E f \in Files : \/ LoadSingle(f) \/ LoadFirst(f) \/ LoadSecond(f)
                              \/ LoadZombie(f)
    BY <2>2 DEF LoadSingle, LoadFirst, LoadSecond, LoadZombie, Continue
  <2>3. CASE \/ \E f \in Files : RefusePlayer(f) \/ RefuseZombie(f)
             \/ NoPlayers \/ LoadingDone \/ \E debug \in BOOLEAN : Start(debug)
    BY <2>3 DEF RefusePlayer, RefuseZombie, NoPlayers, LoadingDone, Start, Ends
  <2>4. CASE Edits
    BY <2>4 DEF Edits, UpdateTitle, AddPlayer, ChangedWType, RemovePlayer,
                LoadAddrChanged, Edit
  <2>5. CASE \/ PlayersLoaded \/ StartWar \/ EndCompetition \/ StopDebug
             \/ \E survivors \in SUBSET war : EndWar(survivors)
             \/ UNCHANGED vars
    BY <2>5 DEF PlayersLoaded, StartWar, EndWar, EndCompetition, StopDebug, Page, vars
  <2>6. QED BY <1>3, <2>1, <2>2, <2>3, <2>4, <2>5 DEF Next, Edits
<1>4. QED BY <1>1, <1>2, <1>3

(* A start is ended by an exception only by a name that sorts in between   *)
(* the two of another player, or by a zombie whose fixed address finds no  *)
(* checker.                                                                *)
THEOREM ThrowsAsForeseen == Spec => ThrowsOnlyAsKnown
<1>1. Init => Foreseen
  BY DEF Init, Foreseen
<1>2. Inv /\ Foreseen /\ [Next]_vars =>
        [ outcome # "threw" /\ outcome' = "threw" =>
          \/ \E p \in Players \cap page.present : IsTwo(p) /\ CutInTwo(p)
          \/ /\ \A f \in Active(Players) : ~IsFixed(f)
             /\ \E z \in Active(Zombies) : page.address[z] # Random ]_vars
  BY ThrowStep
<1>3. QED
  BY <1>1, <1>2, InvInit, InvNext, ForeseenNext, PTL DEF Spec, ThrowsOnlyAsKnown

-----------------------------------------------------------------------------
(***************************************************************************)
(* Names and members.  A name that leads to a group leads to one that has  *)
(* a member of that name: a complete one, or the one in hand.  Two members *)
(* of a group are two programs.                                            *)
(***************************************************************************)
MembersApart ==
  \A g \in DOMAIN groups : \A i, j \in DOMAIN groups[g] :
    groups[g][i].file = groups[g][j].file => i = j

Has(g, name) == \E i \in DOMAIN g : g[i].name = name
InGroup(name) ==
  nameToGroup[name] \in DOMAIN groups /\ Has(groups[nameToGroup[name]], name)
InHand(name) ==
  current # NoGroup /\ nameToGroup[name] = Len(groups) + 1 /\ current[1].name = name
NamesThere ==
  \A name \in Names : nameToGroup[name] # 0 => InGroup(name) \/ InHand(name)

MembersMade ==
  /\ phase = "players" => Tangled \/ (MembersApart /\ NamesThere)
  /\ phase = "zombies" \/ outcome = "loaded" =>
       MembersApart /\ NamesThere /\ current = NoGroup

(* Who is left open by something that came in between stays so: more       *)
(* players are open than the loader can close.                             *)
LEMMA TangledStays ==
  ASSUME Inv, Tangled, NEW f \in Files, LoadSingle(f) \/ LoadFirst(f) \/ LoadSecond(f)
  PROVE  Tangled'
<1>1. LoadPlayer(f) /\ Continue(f)
  BY DEF LoadSingle, LoadFirst, LoadSecond
<1>2. CASE LoadSingle(f)
  <2>1. Open' = Open /\ current' = NoGroup
    BY <1>1, <1>2, OpenAfter DEF LoadSingle, Complete
  <2>2. QED BY <2>1 DEF Tangled
<1>3. CASE LoadFirst(f)
  <2>1. f[1] \notin Open /\ Open' = Open \cup {f[1]}
    BY <1>1, <1>3, OpenAfter DEF LoadFirst
  <2>2. PICK q \in Open : q # f[1]
    BY <2>1 DEF Tangled
  <2>3. f[1] \in Open' /\ q \in Open'
    BY <2>1
  <2>4. QED BY <2>2, <2>3 DEF Tangled
<1>4. CASE LoadSecond(f)
  <2>1. /\ Open' = Open \ {f[1]} /\ current # NoGroup /\ current' = NoGroup
    BY <1>1, <1>4, OpenAfter DEF LoadSecond, Complete
  <2>2. Open' # {}
    BY <2>1 DEF Tangled
  <2>3. QED BY <2>1, <2>2 DEF Tangled
<1>5. QED BY <1>2, <1>3, <1>4

(* A group is completed: its members' names lead to it or to where they    *)
(* led before.                                                             *)
LEMMA MembersCompleted ==
  ASSUME TypeOK, MembersApart, NamesThere, NEW f \in Files, PutName(f),
         NEW g \in Group, Complete(g),
         Has(g, Name(f)), current # NoGroup => Has(g, current[1].name),
         \A i, j \in DOMAIN g : g[i].file = g[j].file => i = j
  PROVE  MembersApart' /\ NamesThere'
<1>1. /\ groups \in Seq(Group) /\ groups' = Append(groups, g) /\ current' = NoGroup
      /\ nameToGroup \in [Names -> Nat] /\ Name(f) \in Names
      /\ nameToGroup' = [nameToGroup EXCEPT ![Name(f)] = Len(groups) + 1]
  BY PageTypes DEF Complete, PutName, TypeOK
<1>2. /\ DOMAIN groups = 1 .. Len(groups) /\ Len(groups) \in Nat
      /\ DOMAIN groups' = 1 .. Len(groups) + 1
      /\ \A h \in DOMAIN groups : groups'[h] = groups[h]
      /\ groups'[Len(groups) + 1] = g
  BY <1>1
<1>3. ASSUME NEW h \in DOMAIN groups'
      PROVE  \/ h \in DOMAIN groups /\ groups'[h] = groups[h]
             \/ groups'[h] = g
  BY <1>2
<1>4. MembersApart'
  <2>1. ASSUME NEW h \in DOMAIN groups',
               NEW i \in DOMAIN groups'[h], NEW j \in DOMAIN groups'[h],
               groups'[h][i].file = groups'[h][j].file
        PROVE  i = j
    <3>1. CASE h \in DOMAIN groups /\ groups'[h] = groups[h]
      BY <2>1, <3>1 DEF MembersApart
    <3>2. CASE groups'[h] = g
      BY <2>1, <3>2
    <3>3. QED BY <1>3, <3>1, <3>2
  <2>2. QED BY <2>1 DEF MembersApart
<1>5. ASSUME NEW name \in Names, nameToGroup'[name] # 0
      PROVE  nameToGroup'[name] \in DOMAIN groups' /\ Has(groups'[nameToGroup'[name]], name)
  <2>1. CASE name = Name(f)
    BY <1>1, <1>2, <2>1
  <2>2. CASE name # Name(f)
    <3>1. nameToGroup'[name] = nameToGroup[name]
      BY <1>1, <2>2
    <3>2. CASE InGroup(name)
      BY <1>2, <3>1, <3>2 DEF InGroup
    <3>3. CASE InHand(name)
      BY <1>2, <3>1, <3>3 DEF InHand
    <3>4. QED BY <1>5, <3>1, <3>2, <3>3 DEF NamesThere
  <2>3. QED BY <2>1, <2>2
<1>6. NamesThere'
  BY <1>5 DEF NamesThere, InGroup, Has
<1>7. QED BY <1>4, <1>6

(* A turn of the loader keeps names and groups together, or tangles.       *)
LEMMA MembersTurn ==
  ASSUME Inv, MembersMade, NEW f \in Files,
         LoadSingle(f) \/ LoadFirst(f) \/ LoadSecond(f)
  PROVE  MembersMade'
<1>1. LoadPlayer(f) /\ Continue(f) /\ PutName(f)
  BY DEF LoadSingle, LoadFirst, LoadSecond
<1>2. /\ phase = "players" /\ phase' = "players" /\ outcome' = outcome
      /\ outcome = "none"
  BY <1>1 DEF LoadPlayer, Continue, Inv, LoaderInv
<1>3. SUFFICES ASSUME ~Tangled PROVE Tangled' \/ (MembersApart' /\ NamesThere')
  BY <1>2, TangledStays DEF MembersMade
<1>4. Tidy /\ MembersApart /\ NamesThere /\ TypeOK
  BY <1>2, <1>3 DEF Inv, LoaderInv, MembersMade
<1>5. /\ PlayerMember(f) \in Warrior
      /\ PlayerMember(f).file = f /\ PlayerMember(f).name = Name(f)
      /\ f \in Active(Players)
  BY <1>1, TurnFacts
<1>6. CASE LoadSingle(f)
  <2> DEFINE g == <<PlayerMember(f)>>
  <2>1. Complete(g) /\ Open' = Open /\ current' = NoGroup
    BY <1>1, <1>6, OpenAfter DEF LoadSingle, Complete
  <2>2. CASE Open # {}
    BY <2>1, <2>2 DEF Tangled
  <2>3. CASE Open = {}
    <3>1. current = NoGroup
      BY <1>4, <2>3 DEF Tidy, HandOpen
    <3>2. g \in Group /\ DOMAIN g = {1} /\ g[1].name = Name(f)
      BY <1>5, GroupTypes
    <3> HIDE DEF g
    <3>3. Has(g, Name(f)) /\ \A i, j \in DOMAIN g : g[i].file = g[j].file => i = j
      BY <3>2 DEF Has
    <3>4. QED BY <1>1, <1>4, <2>1, <3>1, <3>2, <3>3, MembersCompleted
  <2>4. QED BY <2>2, <2>3
<1>7. CASE LoadSecond(f)
  <2> DEFINE g == Append(current, PlayerMember(f))
  <2>1. /\ Complete(g) /\ current # NoGroup /\ f[1] \in Open /\ f[2] = 1
    BY <1>1, <1>7, OpenAfter DEF LoadSecond
  <2>2. current[1].file = <<f[1], 0>> /\ f = <<f[1], 1>>
    BY <1>4, <1>5, <2>1, ActiveFacts DEF Tidy, HandOpen
  <2>3. current \in [1 .. 1 -> Warrior]
    BY <1>4, <2>1 DEF TypeOK
  <2>4. g \in Group /\ g \in [1 .. 2 -> Warrior]
    BY <1>5, <2>3, GroupTypes
  <2>5. g[1] = current[1] /\ g[2] = PlayerMember(f)
    <3>1. current \in Seq(Warrior) /\ Len(current) = 1
      BY <2>3, OneIsSeq
    <3>2. PlayerMember(f) \in Warrior
      BY <1>5
    <3>3. QED BY <3>1, <3>2, AppendToOne
  <2> HIDE DEF g
  <2>6. DOMAIN g = {1, 2}
    BY <2>4
  <2>7. \A i, j \in DOMAIN g : g[i].file = g[j].file => i = j
    BY <1>5, <2>2, <2>5, <2>6
  <2>8. Has(g, Name(f)) /\ Has(g, current[1].name)
    BY <1>5, <2>5, <2>6 DEF Has
  <2>9. QED BY <1>1, <1>4, <2>1, <2>4, <2>7, <2>8, MembersCompleted
<1>8. CASE LoadFirst(f)
  <2>1. /\ f[1] \notin Open /\ Open' = Open \cup {f[1]}
        /\ current' = <<PlayerMember(f)>> /\ groups' = groups
    BY <1>1, <1>8, OpenAfter DEF LoadFirst
  <2>2. CASE Open # {}
    <3>1. PICK q \in Open : q # f[1]
      BY <2>1, <2>2
    <3>2. q \in Open' /\ f[1] \in Open'
      BY <2>1
    <3>3. QED BY <3>1, <3>2 DEF Tangled
  <2>3. CASE Open = {}
    <3>1. current = NoGroup
      BY <1>4, <2>3 DEF Tidy, HandOpen
    <3>2. MembersApart'
      BY <1>4, <2>1 DEF MembersApart
    <3>3. /\ nameToGroup \in [Names -> Nat] /\ Name(f) \in Names
          /\ nameToGroup' = [nameToGroup EXCEPT ![Name(f)] = Len(groups) + 1]
          /\ current' # NoGroup /\ current'[1].name = Name(f)
      BY <1>1, <1>4, <1>5, <2>1, PageTypes DEF PutName, TypeOK, NoGroup
    <3>4. ASSUME NEW name \in Names, nameToGroup'[name] # 0
          PROVE  InGroup(name)' \/ InHand(name)'
      <4>1. CASE name = Name(f)
        BY <2>1, <3>3, <4>1 DEF InHand
      <4>2. CASE name # Name(f)
        <5>1. nameToGroup'[name] = nameToGroup[name]
          BY <3>3, <4>2
        <5>2. InGroup(name)
          BY <1>4, <3>1, <3>4, <5>1 DEF NamesThere, InHand
        <5>3. /\ groups' = groups /\ nameToGroup'[name] \in DOMAIN groups
              /\ \E i \in DOMAIN groups[nameToGroup'[name]] :
                   groups[nameToGroup'[name]][i].name = name
          BY <2>1, <5>1, <5>2 DEF InGroup, Has
        <5>4. QED BY <5>3 DEF InGroup, Has
      <4>3. QED BY <4>1, <4>2
    <3>5. QED BY <3>2, <3>4 DEF NamesThere
  <2>4. QED BY <2>2, <2>3
<1>9. QED BY <1>6, <1>7, <1>8

(* What MembersMade says depends on the groups, the one in hand and the    *)
(* names.                                                                  *)
LEMMA MembersStay ==
  ASSUME UNCHANGED <<groups, current, nameToGroup>>
  PROVE  (MembersApart => MembersApart') /\ (NamesThere => NamesThere')
BY DEF MembersApart, NamesThere, InGroup, InHand, Has

(* When the players are done the loader was tidy, so nobody is in hand;    *)
(* and no other step makes a group or gives a name.                        *)
LEMMA MembersRest ==
  ASSUME Inv, MembersMade,
         \/ Edits \/ \E debug \in BOOLEAN : Start(debug)
         \/ \E f \in Files :
              \/ RefusePlayer(f) \/ LoadSecondThrows(f)
              \/ LoadZombie(f) \/ RefuseZombie(f) \/ LoadZombieThrows(f)
         \/ NoPlayers \/ PlayersLoaded \/ LoadingDone \/ StartWar
         \/ \E survivors \in SUBSET war : EndWar(survivors)
         \/ \E w \in scoring : PassOver(w) \/ AddScore(w) \/ AddScoreThrows(w)
         \/ EndCompetition \/ StopDebug
  PROVE  MembersMade'
<1>1. CASE \/ Edits \/ StartWar
           \/ \E survivors \in SUBSET war : EndWar(survivors)
           \/ \E w \in scoring : PassOver(w) \/ AddScore(w) \/ AddScoreThrows(w)
           \/ EndCompetition \/ StopDebug
  <2>1. UNCHANGED <<phase, outcome, groups, current, nameToGroup>>
    <3>1. CASE Edits
      BY <3>1 DEF Edits, UpdateTitle, AddPlayer, ChangedWType, RemovePlayer,
                  LoadAddrChanged, Edit, loader, repo
    <3>2. CASE ~Edits
      BY <1>1, <3>2 DEF StartWar, EndWar, PassOver, AddScore, AddScoreThrows,
                        EndCompetition, StopDebug, Page, loader, repo
    <3>3. QED BY <3>1, <3>2
  <2>2. phase = "idle"
    <3>1. Idle \/ scoring # {}
      BY <1>1 DEF Edits, UpdateTitle, AddPlayer, ChangedWType, RemovePlayer,
                  LoadAddrChanged, Edit, StartWar, EndWar, EndCompetition, StopDebug
    <3>2. QED BY <3>1 DEF Inv, LoaderInv, TypeOK, Idle
  <2>3. QED BY <2>1, <2>2, MembersStay DEF MembersMade
<1>2. CASE \E debug \in BOOLEAN : Start(debug)
  <2>1. /\ groups' = <<>> /\ phase' = "players" /\ outcome' = "none"
        /\ nameToGroup' = [n \in Names |-> 0]
    BY <1>2 DEF Start
  <2>2. MembersApart' /\ NamesThere'
    BY <2>1 DEF MembersApart, NamesThere
  <2>3. QED BY <2>1, <2>2 DEF MembersMade
<1>3. CASE \/ \E f \in Files : \/ RefusePlayer(f) \/ LoadSecondThrows(f)
                              \/ RefuseZombie(f) \/ LoadZombieThrows(f)
           \/ NoPlayers
  <2>1. phase' = "idle" /\ outcome' \in {"refused", "threw"}
    BY <1>3 DEF RefusePlayer, LoadSecondThrows, RefuseZombie, LoadZombieThrows,
                NoPlayers, Ends
  <2>2. QED BY <2>1 DEF MembersMade
<1>4. CASE PlayersLoaded
  <2>1. /\ phase = "players" /\ left = {} /\ phase' = "zombies"
        /\ UNCHANGED <<groups, current, nameToGroup>>
    BY <1>4 DEF PlayersLoaded
  <2>2. Open = {} /\ ~Tangled
    BY <2>1 DEF Open, Tangled
  <2>3. Tidy /\ MembersApart /\ NamesThere
    BY <2>1, <2>2 DEF Inv, LoaderInv, MembersMade
  <2>4. current = NoGroup
    BY <2>2, <2>3 DEF Tidy, HandOpen
  <2>5. QED BY <2>1, <2>3, <2>4, MembersStay DEF MembersMade
<1>5. CASE LoadingDone \/ \E f \in Files : LoadZombie(f)
  <2>1. /\ phase = "zombies" /\ phase' # "players"
        /\ UNCHANGED <<groups, current, nameToGroup>>
    BY <1>5 DEF LoadingDone, LoadZombie, repo
  <2>2. QED BY <2>1, MembersStay DEF MembersMade
<1>6. QED BY <1>1, <1>2, <1>3, <1>4, <1>5

LEMMA MembersNext == Inv /\ MembersMade /\ [Next]_vars => MembersMade'
<1>1. SUFFICES ASSUME Inv, MembersMade, [Next]_vars PROVE MembersMade'
  OBVIOUS
<1>2. CASE \E f \in Files : LoadSingle(f) \/ LoadFirst(f) \/ LoadSecond(f)
  BY <1>1, <1>2, MembersTurn
<1>3. CASE Next /\ ~ \E f \in Files : LoadSingle(f) \/ LoadFirst(f) \/ LoadSecond(f)
  BY <1>1, <1>3, MembersRest DEF Next, Edits
<1>4. CASE UNCHANGED vars
  <2>1. UNCHANGED <<page, phase, left, current, outcome, groups, nameToGroup>>
    BY <1>4 DEF vars, pageVars, loader, repo
  <2>2. Active(Players)' = Active(Players)
    BY <2>1 DEF Active, IsTwo
  <2>3. Open' = Open
    BY <2>1, <2>2 DEF Open, Seen
  <2>4. Tangled => Tangled'
    BY <2>1, <2>3 DEF Tangled
  <2>5. QED BY <1>1, <2>1, <2>4, MembersStay DEF MembersMade
<1>5. QED BY <1>1, <1>2, <1>3, <1>4

-----------------------------------------------------------------------------
(***************************************************************************)
(* Sums of the points of one or two members.                               *)
(***************************************************************************)
(* The recursion of SumFunction has a solution.                            *)
Summed(f, g) ==
  [s \in SUBSET DOMAIN f |->
     IF s = {} THEN 0 ELSE LET x == CHOOSE x \in s : TRUE IN f[x] + g[s \ {x}]]

(* The sum over a function, as the fold that defines it, is one choice of  *)
(* an element after the other.                                             *)
LEMMA SumUnfolds ==
  ASSUME NEW f, NEW h, h = Summed(f, h)
  PROVE  \E g : g = Summed(f, g) /\ SumFunction(f) = g[DOMAIN f]
<1> DEFINE iter == CHOOSE g : g = Summed(f, g)
<1>1. SumFunction(f) = iter[DOMAIN f]
  BY DEF SumFunction, SumFunctionOnSet, FoldFunctionOnSet, MapThenFoldSet, Summed
<1>2. iter = Summed(f, iter)
  OBVIOUS
<1>3. QED BY <1>1, <1>2

(* Of one or two elements, which is what a group has, the choices can be   *)
(* followed.                                                               *)
LEMMA SumOfOne ==
  ASSUME NEW f, DOMAIN f = {1}, f[1] \in Int
  PROVE  SumFunction(f) = f[1]
<1> DEFINE h == [s \in SUBSET {1} |-> IF s = {} THEN 0 ELSE f[1]]
<1>1. \A s \in SUBSET {1} : s = {} \/ s = {1}
  OBVIOUS
<1>2. (CHOOSE x \in {1} : TRUE) = 1
  OBVIOUS
<1>3. {1} \ {1} = {} /\ h[{}] = 0 /\ h[{1}] = f[1]
  OBVIOUS
<1>4. h = Summed(f, h)
  <2>1. Summed(f, h)[{}] = 0
    BY DEF Summed
  <2>2. Summed(f, h)[{1}] = f[1] + h[{}]
    BY <1>2, <1>3 DEF Summed
  <2>3. f[1] + h[{}] = f[1]
    BY <1>3
  <2> HIDE DEF h
  <2>4. \A s \in SUBSET {1} : h[s] = Summed(f, h)[s]
    BY <1>1, <1>3, <2>1, <2>2, <2>3
  <2>5. QED BY <2>4 DEF Summed, h
<1>5. PICK g : g = Summed(f, g) /\ SumFunction(f) = g[{1}]
  BY <1>4, SumUnfolds
<1>6. g[{}] = 0 /\ g[{1}] = f[1] + g[{}]
  BY <1>2, <1>5 DEF Summed
<1>7. QED BY <1>5, <1>6

LEMMA SumOfTwo ==
  ASSUME NEW f, DOMAIN f = {1, 2}, f[1] \in Int, f[2] \in Int
  PROVE  SumFunction(f) = f[1] + f[2]
<1> DEFINE h == [s \in SUBSET {1, 2} |-> IF s = {} THEN 0 ELSE
                   IF s = {1} THEN f[1] ELSE IF s = {2} THEN f[2] ELSE f[1] + f[2]]
<1>1. \A s \in SUBSET {1, 2} : s = {} \/ s = {1} \/ s = {2} \/ s = {1, 2}
  OBVIOUS
<1>2. /\ (CHOOSE x \in {1} : TRUE) = 1 /\ (CHOOSE x \in {2} : TRUE) = 2
      /\ (CHOOSE x \in {1, 2} : TRUE) \in {1, 2}
  OBVIOUS
<1>3. /\ {1} \ {1} = {} /\ {2} \ {2} = {} /\ {1, 2} \ {1} = {2} /\ {1, 2} \ {2} = {1}
      /\ {1} # {2} /\ {1} # {1, 2} /\ {2} # {1, 2}
  OBVIOUS
<1>4. ASSUME NEW s \in SUBSET {1, 2} PROVE h[s] = Summed(f, h)[s]
  <2>1. CASE s = {} 
    BY <2>1 DEF Summed
  <2>2. CASE s = {1}
    BY <2>2, <1>2, <1>3 DEF Summed
  <2>3. CASE s = {2}
    BY <2>3, <1>2, <1>3 DEF Summed
  <2>4. CASE s = {1, 2}
    <3>1. Summed(f, h)[{1, 2}] = LET x == CHOOSE x \in {1, 2} : TRUE
                               IN f[x] + h[{1, 2} \ {x}]
      BY DEF Summed
    <3>2. PICK x \in {1, 2} : x = CHOOSE y \in {1, 2} : TRUE
      BY <1>2
    <3>3. Summed(f, h)[{1, 2}] = f[x] + h[{1, 2} \ {x}]
      BY <3>1, <3>2
    <3>4. h[{1}] = f[1] /\ h[{2}] = f[2] /\ h[{1, 2}] = f[1] + f[2]
      BY <1>3
    <3> HIDE DEF h
    <3>5. f[x] + h[{1, 2} \ {x}] = f[1] + f[2]
      BY <1>3, <3>4
    <3>6. QED BY <2>4, <3>3, <3>4, <3>5
  <2>5. QED BY <1>1, <2>1, <2>2, <2>3, <2>4
<1>5. h = Summed(f, h)
  BY <1>4 DEF Summed
<1>6. PICK g : g = Summed(f, g) /\ SumFunction(f) = g[{1, 2}]
  BY <1>5, SumUnfolds
<1>7. g[{}] = 0 /\ g[{1}] = f[1] + g[{}] /\ g[{2}] = f[2] + g[{}]
  BY <1>2, <1>3, <1>6 DEF Summed
<1>8. g[{1, 2}] = f[1] + g[{2}] \/ g[{1, 2}] = f[2] + g[{1}]
  <2>1. g[{1, 2}] = LET x == CHOOSE x \in {1, 2} : TRUE IN f[x] + g[{1, 2} \ {x}]
    BY <1>6 DEF Summed
  <2>2. PICK x \in {1, 2} : x = CHOOSE y \in {1, 2} : TRUE
    BY <1>2
  <2>3. g[{1, 2}] = f[x] + g[{1, 2} \ {x}]
    BY <2>1, <2>2
  <2>4. QED BY <1>3, <2>2, <2>3
<1>9. QED BY <1>6, <1>7, <1>8

Points == UNION {[1 .. n -> Nat] : n \in 1 .. 2}

LEMMA SumOfPoints ==
  ASSUME NEW p \in Points
  PROVE  /\ SumFunction(p) \in Nat
         /\ DOMAIN p = {1} \/ DOMAIN p = {1, 2}
         /\ DOMAIN p = {1} => SumFunction(p) = p[1]
         /\ DOMAIN p = {1, 2} => SumFunction(p) = p[1] + p[2]
<1>1. PICK n \in 1 .. 2 : p \in [1 .. n -> Nat]
  BY DEF Points
<1>2. CASE n = 1
  <2>1. DOMAIN p = {1} /\ p[1] \in Nat
    BY <1>1, <1>2
  <2>2. SumFunction(p) = p[1]
    BY <2>1, SumOfOne
  <2>3. 2 \notin DOMAIN p
    BY <2>1
  <2>4. QED BY <2>1, <2>2, <2>3
<1>3. CASE n = 2
  <2>1. DOMAIN p = {1, 2} /\ p[1] \in Nat /\ p[2] \in Nat
    BY <1>1, <1>3
  <2>2. SumFunction(p) = p[1] + p[2]
    BY <2>1, SumOfTwo
  <2>3. p[1] + p[2] \in Nat
    BY <2>1
  <2>4. DOMAIN p # {1}
    BY <2>1
  <2>5. QED BY <2>1, <2>2, <2>3, <2>4
<1>4. QED BY <1>1, <1>2, <1>3

(* A member's new points add to the sum.                                   *)
LEMMA SumAfter ==
  ASSUME NEW p \in Points, NEW i \in DOMAIN p, NEW v \in Nat,
         NEW q, q = [p EXCEPT ![i] = @ + v]
  PROVE  q \in Points /\ SumFunction(q) = SumFunction(p) + v
<1>1. q \in Points /\ DOMAIN q = DOMAIN p
  BY DEF Points
<1>2. CASE DOMAIN p = {1}
  <2>1. SumFunction(p) = p[1] /\ SumFunction(q) = q[1]
    BY <1>1, <1>2, SumOfPoints
  <2>2. q[1] = p[1] + v
    BY <1>2
  <2>3. QED BY <1>1, <2>1, <2>2
<1>3. CASE DOMAIN p = {1, 2}
  <2>1. SumFunction(p) = p[1] + p[2] /\ SumFunction(q) = q[1] + q[2]
    BY <1>1, <1>3, SumOfPoints
  <2>2. p[1] \in Nat /\ p[2] \in Nat
    BY <1>3 DEF Points
  <2>3. \/ q[1] = p[1] + v /\ q[2] = p[2]
        \/ q[1] = p[1] /\ q[2] = p[2] + v
    BY <1>3
  <2>4. QED BY <1>1, <2>1, <2>2, <2>3
<1>4. QED BY <1>2, <1>3, SumOfPoints

(* A group begins with no points.                                          *)
LEMMA SumOfNothing ==
  ASSUME NEW g \in Group
  PROVE  /\ Nothing(g) \in Points /\ DOMAIN Nothing(g) = DOMAIN g
         /\ SumFunction(Nothing(g)) = 0
<1>1. Nothing(g) \in Points /\ DOMAIN Nothing(g) = DOMAIN g
  BY DEF Nothing, Points, Group
<1>2. \A i \in DOMAIN g : Nothing(g)[i] = 0
  BY DEF Nothing
<1>3. CASE DOMAIN g = {1}
  BY <1>1, <1>2, <1>3, SumOfPoints
<1>4. CASE DOMAIN g = {1, 2}
  BY <1>1, <1>2, <1>4, SumOfPoints
<1>5. QED BY <1>1, <1>3, <1>4, SumOfPoints

-----------------------------------------------------------------------------
(***************************************************************************)
(* Where points go, and how many.                                          *)
(***************************************************************************)
LEMMA GroupShape ==
  ASSUME TypeOK, NEW g \in DOMAIN groups
  PROVE  /\ groups[g] \in Group
         /\ DOMAIN groups[g] = {1} \/ DOMAIN groups[g] = {1, 2}
         /\ Len(groups[g]) \in 1 .. 2 /\ DOMAIN groups[g] = 1 .. Len(groups[g])
<1>1. groups[g] \in Group
  BY DEF TypeOK
<1>2. PICK n \in 1 .. 2 : groups[g] \in [1 .. n -> Warrior]
  BY <1>1 DEF Group
<1>3. groups[g] \in Seq(Warrior) /\ Len(groups[g]) = n
  <2>1. groups[g] \in Seq(Warrior)
    BY <1>2, SeqDef
  <2>2. DOMAIN groups[g] = 1 .. Len(groups[g]) /\ Len(groups[g]) \in Nat
    BY <2>1, LenProperties
  <2>3. 1 .. n = 1 .. Len(groups[g])
    BY <1>2, <2>2
  <2>4. QED BY <2>1, <2>2, <2>3
<1>4. DOMAIN groups[g] = 1 .. n
  BY <1>2
<1>5. QED BY <1>1, <1>3, <1>4

(* The index that is found is that of the first member of the name.        *)
LEMMA SubIndexFound ==
  ASSUME TypeOK, NEW g \in DOMAIN groups, NEW name, Has(groups[g], name)
  PROVE  /\ SubIndex(g, name) \in DOMAIN groups[g]
         /\ groups[g][SubIndex(g, name)].name = name
<1> DEFINE n == Len(groups[g])
           Found(i) == /\ \A j \in 1 .. i - 1 : groups[g][j].name # name
                       /\ i <= n => groups[g][i].name = name
<1>1. n \in 1 .. 2 /\ DOMAIN groups[g] = 1 .. n
  BY GroupShape
<1>2. PICK k \in 1 .. n : groups[g][k].name = name
  BY <1>1 DEF Has
<1>3. \E i \in 1 .. n + 1 : Found(i)
  <2>1. CASE groups[g][1].name = name
    <3>1. Found(1)
      BY <2>1
    <3>2. QED BY <1>1, <3>1
  <2>2. CASE groups[g][1].name # name
    <3>1. n = 2 /\ k = 2
      BY <1>1, <1>2, <2>2
    <3>2. Found(2)
      BY <1>2, <2>2, <3>1
    <3>3. QED BY <1>1, <3>1, <3>2
  <2>3. QED BY <2>1, <2>2
<1>4. SubIndex(g, name) \in 1 .. n + 1 /\ Found(SubIndex(g, name))
  BY <1>3 DEF SubIndex
<1>5. SubIndex(g, name) # n + 1
  BY <1>1, <1>2, <1>4
<1>6. QED BY <1>1, <1>4, <1>5

(* Only so many warriors fight.                                            *)
LEMMA GroupListFinite ==
  ASSUME TypeOK
  PROVE  IsFiniteSet(GroupList(Len(groups)))
<1>1. ASSUME NEW s, NEW n \in Nat, DOMAIN s = 1 .. n
      PROVE  IsFiniteSet(Range(s))
  <2>1. IsFiniteSet(1 .. n)
    BY FS_Interval
  <2>2. [i \in 1 .. n |-> s[i]] \in Surjection(1 .. n, Range(s))
    BY <1>1 DEF Surjection, Range
  <2>3. QED BY <2>1, <2>2, FS_Surjection
<1>2. IsFiniteSet(Range(zombieGroup))
  <2>1. DOMAIN zombieGroup = 1 .. Len(zombieGroup) /\ Len(zombieGroup) \in Nat
    BY DEF TypeOK
  <2>2. QED BY <1>1, <2>1
<1> DEFINE n == Len(groups)
           r == [g \in 1 .. n |-> Range(groups[g])]
<1>3. n \in Nat /\ DOMAIN groups = 1 .. n
  BY DEF TypeOK
<1>4. ASSUME NEW g \in 1 .. n PROVE IsFiniteSet(r[g])
  <2>1. Len(groups[g]) \in Nat /\ DOMAIN groups[g] = 1 .. Len(groups[g])
    BY <1>3, GroupShape
  <2>2. QED BY <1>1, <2>1
<1> HIDE DEF n
<1>5. IsFiniteSet(Range(r))
  BY <1>1, <1>3
<1>6. \A T \in Range(r) : IsFiniteSet(T)
  BY <1>4 DEF Range
<1>7. IsFiniteSet(UNION Range(r))
  BY <1>5, <1>6, FS_UNION
<1>8. GroupList(n) = Range(zombieGroup) \cup UNION Range(r)
  BY DEF GroupList, Range
<1>9. QED BY <1>2, <1>7, <1>8, FS_Union DEF n

(* What a survivor earns is a natural number: there is a survivor.         *)
LEMMA ValueType ==
  ASSUME TypeOK, war \subseteq GroupList(Len(groups)), NEW w \in war
  PROVE  Value \in Nat
<1>1. IsFiniteSet(war)
  BY GroupListFinite, FS_Subset
<1>2. Cardinality(war) \in Nat /\ Cardinality(war) # 0
  BY <1>1, FS_CardinalityType, FS_EmptySet
<1>3. Whole \in Nat
  BY RepositoryAssumption DEF RepositoryAssumption
<1>4. \A a \in Nat, b \in Nat : b # 0 => a \div b \in Nat
  OBVIOUS
<1>5. QED BY <1>2, <1>3, <1>4 DEF Value

-----------------------------------------------------------------------------
(***************************************************************************)
(* Scores.  From the start on there is a score for every group and every   *)
(* member, and the group's is the sum; they are nothing until the first    *)
(* war.  While a competition is on, only warriors of the groups and        *)
(* zombies fight, all of the repository's groups take part, and the graph  *)
(* shows what the repository keeps.                                        *)
(***************************************************************************)
ScoresMade ==
  /\ points \in Seq(Points) /\ Len(points) = Len(groups)
  /\ groupScore \in Seq(Nat) /\ Len(groupScore) = Len(groups)
  /\ \A g \in DOMAIN groups :
       DOMAIN points[g] = DOMAIN groups[g] /\ groupScore[g] = SumFunction(points[g])
  /\ earned \in [Files -> Nat]
NothingScored ==
  /\ earned = [f \in Files |-> 0]
  /\ \A g \in DOMAIN groups : points[g] = Nothing(groups[g])

WarKept ==
  /\ ~crashed /\ numGroups \in {0, Len(groups)}
  /\ war \subseteq GroupList(Len(groups)) /\ scoring \subseteq war
GraphKept ==
  /\ columns \in [DOMAIN groups -> [{1, 2} -> Nat]]
  /\ \A g \in DOMAIN groups : \A i \in DOMAIN points[g] : columns[g][i] = points[g][i]
CreditKept ==
  \A g \in DOMAIN groups : \A i \in DOMAIN points[g] :
    Unshared(groups[g][i]) => points[g][i] = earned[groups[g][i].file]

ScoresKept ==
  /\ phase # "idle" \/ outcome = "loaded" => ScoresMade
  /\ phase # "idle" => NothingScored
  /\ outcome = "loaded" => WarKept /\ GraphKept /\ CreditKept

(* A group that is completed has not scored.                               *)
LEMMA ScoresCompleted ==
  ASSUME TypeOK, ScoresMade, NothingScored, NEW g \in Group, Complete(g),
         earned' = earned
  PROVE  ScoresMade' /\ NothingScored'
<1>1. /\ groups \in Seq(Group) /\ groups' = Append(groups, g)
      /\ points' = Append(points, Nothing(g)) /\ groupScore' = Append(groupScore, 0)
      /\ points \in Seq(Points) /\ Len(points) = Len(groups)
      /\ groupScore \in Seq(Nat) /\ Len(groupScore) = Len(groups)
  BY DEF Complete, TypeOK, ScoresMade
<1>2. /\ Nothing(g) \in Points /\ DOMAIN Nothing(g) = DOMAIN g
      /\ SumFunction(Nothing(g)) = 0
  BY SumOfNothing
<1>3. /\ points' \in Seq(Points) /\ Len(points') = Len(groups')
      /\ groupScore' \in Seq(Nat) /\ Len(groupScore') = Len(groups')
  BY <1>1, <1>2
<1>4. /\ DOMAIN groups = 1 .. Len(groups) /\ Len(groups) \in Nat
      /\ DOMAIN groups' = 1 .. Len(groups) + 1
      /\ \A h \in DOMAIN groups : /\ groups'[h] = groups[h]
                                  /\ points'[h] = points[h]
                                  /\ groupScore'[h] = groupScore[h]
      /\ groups'[Len(groups) + 1] = g
      /\ points'[Len(groups) + 1] = Nothing(g)
      /\ groupScore'[Len(groups) + 1] = 0
  BY <1>1, <1>2
<1>5. ASSUME NEW h \in DOMAIN groups'
      PROVE  /\ DOMAIN points'[h] = DOMAIN groups'[h]
             /\ groupScore'[h] = SumFunction(points'[h])
             /\ points'[h] = Nothing(groups'[h])
  <2>1. CASE h \in DOMAIN groups
    BY <1>4, <2>1 DEF ScoresMade, NothingScored
  <2>2. CASE h = Len(groups) + 1
    BY <1>2, <1>4, <2>2
  <2>3. QED BY <1>4, <2>1, <2>2
<1>6. NothingScored'
  BY <1>5 DEF NothingScored, Nothing
<1>7. QED BY <1>3, <1>5, <1>6 DEF ScoresMade

LEMMA ScoresMadeStay ==
  ASSUME UNCHANGED <<groups, points, groupScore, earned>>
  PROVE  /\ ScoresMade => ScoresMade'
         /\ NothingScored => NothingScored'
<1>1. \A g : groupScore[g] = SumFunction(points[g])
        => groupScore'[g] = SumFunction(points'[g])
  OBVIOUS
<1>2. ScoresMade => ScoresMade'
  BY <1>1 DEF ScoresMade
<1>3. QED BY <1>2 DEF NothingScored, Nothing

(* A group that is made while loading has no points.                       *)
LEMMA ScoresTurn ==
  ASSUME Inv, ScoresKept, NEW f \in Files,
         LoadSingle(f) \/ LoadFirst(f) \/ LoadSecond(f)
  PROVE  ScoresKept'
<1>1. LoadPlayer(f) /\ Continue(f)
  BY DEF LoadSingle, LoadFirst, LoadSecond
<1>2. /\ phase = "players" /\ phase' = "players" /\ outcome' # "loaded"
      /\ earned' = earned /\ TypeOK
  BY <1>1 DEF LoadPlayer, Continue, Inv, LoaderInv
<1>3. ScoresMade /\ NothingScored
  BY <1>2 DEF ScoresKept
<1>4. PlayerMember(f) \in Warrior
  BY <1>1, TurnFacts
<1>5. SUFFICES ScoresMade' /\ NothingScored'
  BY <1>2 DEF ScoresKept
<1>6. CASE LoadSingle(f)
  <2>1. <<PlayerMember(f)>> \in Group
    BY <1>4, GroupTypes
  <2>2. QED BY <1>2, <1>3, <1>6, <2>1, ScoresCompleted DEF LoadSingle
<1>7. CASE LoadSecond(f)
  <2>1. Append(current, PlayerMember(f)) \in Group
    BY <1>2, <1>4, <1>7, GroupTypes DEF LoadSecond, TypeOK
  <2>2. QED BY <1>2, <1>3, <1>7, <2>1, ScoresCompleted DEF LoadSecond
<1>8. CASE LoadFirst(f)
  <2>1. UNCHANGED <<groups, points, groupScore>>
    BY <1>8 DEF LoadFirst
  <2>2. QED BY <1>2, <1>3, <2>1, ScoresMadeStay
<1>9. QED BY <1>6, <1>7, <1>8

(* No other step of the loader gives points, and when it is done the graph *)
(* is made of the groups there are.                                        *)
LEMMA ScoresLoader ==
  ASSUME Inv, ScoresKept,
         \/ \E debug \in BOOLEAN : Start(debug)
         \/ \E f \in Files :
              \/ RefusePlayer(f) \/ LoadSecondThrows(f)
              \/ LoadZombie(f) \/ RefuseZombie(f) \/ LoadZombieThrows(f)
         \/ NoPlayers \/ PlayersLoaded \/ LoadingDone
  PROVE  ScoresKept'
<1>1. CASE \E debug \in BOOLEAN : Start(debug)
  <2>1. /\ phase' = "players" /\ outcome' = "none" /\ groups' = <<>>
        /\ points' = <<>> /\ groupScore' = <<>> /\ earned' = [f \in Files |-> 0]
    BY <1>1 DEF Start
  <2>2. ScoresMade' /\ NothingScored'
    BY <2>1 DEF ScoresMade, NothingScored
  <2>3. QED BY <2>1, <2>2 DEF ScoresKept
<1>2. CASE \/ \E f \in Files : \/ RefusePlayer(f) \/ LoadSecondThrows(f)
                              \/ RefuseZombie(f) \/ LoadZombieThrows(f)
           \/ NoPlayers
  <2>1. phase' = "idle" /\ outcome' \in {"refused", "threw"}
    BY <1>2 DEF RefusePlayer, LoadSecondThrows, RefuseZombie, LoadZombieThrows,
                NoPlayers, Ends
  <2>2. QED BY <2>1 DEF ScoresKept
<1>3. CASE PlayersLoaded \/ \E f \in Files : LoadZombie(f)
  <2>1. /\ phase # "idle" /\ phase' # "idle" /\ outcome' = outcome
        /\ outcome = "none"
        /\ UNCHANGED <<groups, points, groupScore, earned>>
    BY <1>3 DEF PlayersLoaded, LoadZombie, score, Inv, LoaderInv
  <2>2. ScoresMade' /\ NothingScored'
    BY <2>1, ScoresMadeStay DEF ScoresKept
  <2>3. QED BY <2>1, <2>2 DEF ScoresKept
<1>4. CASE LoadingDone
  <2>1. /\ phase = "zombies" /\ phase' = "idle" /\ scoring' = {} /\ crashed' = FALSE
        /\ numGroups' = Len(groups) /\ war' = GroupList(Len(groups))
        /\ columns' = [g \in DOMAIN groups |-> [i \in {1, 2} |-> 0]]
        /\ UNCHANGED <<groups, points, groupScore, earned, zombieGroup>>
    BY <1>4 DEF LoadingDone, Inv, LoaderInv, repo
  <2>2. ScoresMade /\ NothingScored /\ TypeOK
    BY <2>1 DEF ScoresKept, Inv
  <2>3. ScoresMade'
    BY <2>1, <2>2, ScoresMadeStay
  <2>4. WarKept'
    BY <2>1 DEF WarKept, GroupList, Range
  <2>5. ASSUME NEW g \in DOMAIN groups, NEW i \in DOMAIN points[g]
        PROVE  /\ points[g][i] = 0 /\ i \in {1, 2}
               /\ groups[g][i].file \in Files
    <3>1. i \in DOMAIN groups[g] /\ points[g][i] = 0
      BY <2>2, <2>5 DEF ScoresMade, NothingScored, Nothing
    <3>2. groups[g] \in Group /\ i \in {1, 2}
      BY <2>2, <3>1, GroupShape
    <3>3. groups[g][i] \in Warrior
      BY <3>1, <3>2 DEF Group
    <3>4. QED BY <3>1, <3>2, <3>3 DEF Warrior
  <2>6. columns' \in [DOMAIN groups' -> [{1, 2} -> Nat]]
    BY <2>1
  <2>7. GraphKept'
    BY <2>1, <2>5, <2>6 DEF GraphKept
  <2>8. CreditKept'
    BY <2>1, <2>2, <2>5 DEF CreditKept, NothingScored
  <2>9. QED BY <2>1, <2>3, <2>4, <2>7, <2>8 DEF ScoresKept
<1>5. QED BY <1>1, <1>2, <1>3, <1>4

(* Where the points of a survivor go: always to a member of his name.      *)
LEMMA AddScoreFacts ==
  ASSUME Inv, MembersMade, ScoresKept, outcome = "loaded", NEW w \in scoring
  PROVE  /\ w \in Warrior /\ w \in GroupList(Len(groups)) /\ Value \in Nat
         /\ ~AddScoreThrows(w)
         /\ AddScore(w) =>
              LET g == nameToGroup[w.name]
                  i == SubIndex(g, w.name)
              IN /\ g \in DOMAIN groups /\ i \in DOMAIN groups[g] /\ i \in {1, 2}
                 /\ groups[g][i].name = w.name /\ groups[g][i] \in Range(groups[g])
                 /\ points' = [points EXCEPT ![g][i] = @ + Value]
                 /\ columns' = [columns EXCEPT ![g][i] = @ + Value]
                 /\ scoring' = scoring \ {w} /\ crashed' = FALSE
<1>1. TypeOK /\ WarKept /\ GraphKept /\ ScoresMade /\ NamesThere /\ current = NoGroup
  BY DEF Inv, ScoresKept, MembersMade
<1>2. w \in Warrior /\ w \in war /\ w \in GroupList(Len(groups))
  BY <1>1 DEF TypeOK, WarKept
<1>3. Value \in Nat
  BY <1>1, <1>2, ValueType DEF WarKept
<1>4. w.name \in Names /\ nameToGroup[w.name] \in Nat /\ Len(groups) \in Nat
      /\ DOMAIN groups = 1 .. Len(groups)
  BY <1>1, <1>2 DEF Warrior, TypeOK
<1>5. nameToGroup[w.name] # 0 => InGroup(w.name)
  BY <1>1, <1>4 DEF NamesThere, InHand
<1>6. ~AddScoreThrows(w)
  BY <1>4, <1>5 DEF AddScoreThrows, InGroup
<1>7. ASSUME AddScore(w)
      PROVE  LET g == nameToGroup[w.name]
                 i == SubIndex(g, w.name)
             IN /\ g \in DOMAIN groups /\ i \in DOMAIN groups[g] /\ i \in {1, 2}
                /\ groups[g][i].name = w.name /\ groups[g][i] \in Range(groups[g])
                /\ points' = [points EXCEPT ![g][i] = @ + Value]
                /\ columns' = [columns EXCEPT ![g][i] = @ + Value]
                /\ scoring' = scoring \ {w} /\ crashed' = FALSE
  <2> DEFINE g == nameToGroup[w.name]
             i == SubIndex(g, w.name)
  <2>1. g \in DOMAIN groups
    BY <1>7 DEF AddScore
  <2>2. Has(groups[g], w.name)
    BY <1>4, <1>5, <2>1 DEF InGroup
  <2>3. i \in DOMAIN groups[g] /\ groups[g][i].name = w.name
    BY <1>1, <2>1, <2>2, SubIndexFound
  <2>4. i \in {1, 2} /\ i \in DOMAIN points[g] /\ g \in DOMAIN columns
    <3> HIDE DEF g, i
    <3>1. i \in {1, 2}
      BY <1>1, <2>1, <2>3, GroupShape
    <3>2. i \in DOMAIN points[g]
      BY <1>1, <2>1, <2>3 DEF ScoresMade
    <3>3. g \in DOMAIN columns
      BY <1>1, <2>1 DEF GraphKept
    <3>4. QED BY <3>1, <3>2, <3>3
  <2>5. groups[g][i] \in Range(groups[g])
    BY <2>3 DEF Range
  <2>6. /\ points' = [points EXCEPT ![g][i] = @ + Value]
        /\ columns' = [columns EXCEPT ![g][i] = @ + Value]
        /\ scoring' = scoring \ {w} /\ crashed' = FALSE
    BY <1>7, <2>4 DEF AddScore
  <2>7. QED BY <2>1, <2>3, <2>4, <2>5, <2>6
<1>8. QED BY <1>2, <1>3, <1>6, <1>7

(* A program fights once: whoever in the war is a member's program is that *)
(* member.                                                                 *)
LEMMA FightsOnce ==
  ASSUME Inv, MembersMade, Enlisted, outcome = "loaded",
         NEW h \in DOMAIN groups, NEW j \in DOMAIN groups[h],
         NEW w \in GroupList(Len(groups)), w.file = groups[h][j].file
  PROVE  w = groups[h][j]
<1>1. /\ TypeOK /\ TeamsMade /\ MembersApart
      /\ FilesOf(zombieGroup) = ZombieFiles
      /\ DOMAIN groups = 1 .. Len(groups)
  BY DEF Inv, Kept, MembersMade, Enlisted, TypeOK
<1>2. groups[h][j].file \in FilesOf(groups[h])
  BY FilesOfGroup
<1>3. CASE w \in Range(zombieGroup)
  <2>1. w.file \in FilesOf(zombieGroup)
    BY <1>3 DEF FilesOf
  <2>2. w.file[1] \in Zombies
    BY <1>1, <2>1 DEF ZombieFiles
  <2>3. PICK p \in HandedPlayers : FilesOf(groups[h]) = HandedOf(p)
    BY <1>1 DEF TeamsMade
  <2>4. p \in Players /\ w.file[1] = p
    BY <1>2, <2>3 DEF HandedPlayers, HandedOf
  <2>5. QED BY <2>2, <2>4, RepositoryAssumption DEF RepositoryAssumption
<1>4. CASE w \notin Range(zombieGroup)
  <2>1. PICK k \in DOMAIN groups : w \in Range(groups[k])
    BY <1>1, <1>4 DEF GroupList
  <2>2. PICK l \in DOMAIN groups[k] : w = groups[k][l]
    BY <2>1 DEF Range
  <2>3. w.file \in FilesOf(groups[k])
    BY <2>1 DEF FilesOf
  <2>4. k = h
    BY <1>1, <1>2, <2>3 DEF TeamsMade, GroupsApart
  <2>5. QED BY <1>1, <2>2, <2>4 DEF MembersApart
<1>5. QED BY <1>3, <1>4

LEMMA UnsharedStays ==
  ASSUME UNCHANGED <<groups, zombieGroup>>, NEW m
  PROVE  Unshared(m)' = Unshared(m)
BY DEF Unshared, GroupList, Range

(* Whoever is passed over is no member who has a name for himself.         *)
LEMMA ScoresPassed ==
  ASSUME Inv, MembersMade, Enlisted, ScoresKept, outcome = "loaded",
         NEW w \in scoring, PassOver(w)
  PROVE  CreditKept' /\ ScoresMade'
<1>1. /\ nameToGroup[w.name] = 0 /\ earned' = [earned EXCEPT ![w.file] = @ + Value]
      /\ UNCHANGED <<groups, zombieGroup, points, groupScore>>
  BY DEF PassOver, repo
<1>2. /\ w \in Warrior /\ w \in GroupList(Len(groups)) /\ Value \in Nat
      /\ TypeOK /\ ScoresMade /\ CreditKept
  BY AddScoreFacts DEF Inv, ScoresKept
<1>3. earned' \in [Files -> Nat]
  BY <1>1, <1>2 DEF ScoresMade, Warrior
<1>4. ScoresMade'
  <2>1. \A g \in DOMAIN groups' :
          DOMAIN points'[g] = DOMAIN groups'[g] /\ groupScore'[g] = SumFunction(points'[g])
    BY <1>1, <1>2 DEF ScoresMade
  <2>2. QED BY <1>1, <1>2, <1>3, <2>1 DEF ScoresMade
<1>5. ASSUME NEW h \in DOMAIN groups, NEW j \in DOMAIN points[h],
             Unshared(groups[h][j])
      PROVE  points[h][j] = earned'[groups[h][j].file]
  <2>1. j \in DOMAIN groups[h] /\ groups[h] \in Group
    BY <1>2, <1>5, GroupShape DEF ScoresMade
  <2>2. groups[h][j] \in Warrior /\ groups[h][j] \in Grouped
    BY <2>1 DEF Group, Grouped, Range
  <2>3. nameToGroup[groups[h][j].name] # 0
    BY <2>2 DEF Enlisted
  <2>4. groups[h][j].file # w.file
    BY <1>1, <1>2, <2>1, <2>3, FightsOnce
  <2>5. earned'[groups[h][j].file] = earned[groups[h][j].file]
    BY <1>1, <1>2, <2>2, <2>4 DEF Warrior, ScoresMade
  <2>6. QED BY <1>2, <1>5, <2>5 DEF CreditKept
<1>6. CreditKept'
  BY <1>1, <1>5, UnsharedStays DEF CreditKept
<1>7. QED BY <1>4, <1>6

(* Points are added to the same member of the same group in the repository *)
(* and in the graph, and it is the one who survived if he has the name for *)
(* himself.                                                                *)
LEMMA ScoresCredited ==
  ASSUME Inv, MembersMade, Enlisted, ScoresKept, outcome = "loaded",
         NEW w \in scoring, AddScore(w)
  PROVE  ScoresKept'
<1> DEFINE g == nameToGroup[w.name]
           i == SubIndex(g, w.name)
           v == Value
           q == [points[g] EXCEPT ![i] = @ + v]
<1>1. /\ TypeOK /\ WarKept /\ GraphKept /\ ScoresMade /\ CreditKept
      /\ MembersApart /\ GroupsApart /\ phase = "idle"
  BY DEF Inv, ScoresKept, MembersMade, Kept, TeamsMade, LoaderInv, TypeOK
<1>2. w \in Warrior /\ w \in GroupList(Len(groups)) /\ v \in Nat
  BY AddScoreFacts
<1>3. /\ g \in DOMAIN groups /\ i \in DOMAIN groups[g] /\ i \in {1, 2}
      /\ groups[g][i].name = w.name /\ groups[g][i] \in Range(groups[g])
      /\ points' = [points EXCEPT ![g][i] = @ + v]
      /\ columns' = [columns EXCEPT ![g][i] = @ + v]
      /\ scoring' = scoring \ {w} /\ crashed' = FALSE
  BY AddScoreFacts
<1>4. /\ groupScore' = [groupScore EXCEPT ![g] = @ + v]
      /\ earned' = [earned EXCEPT ![w.file] = @ + v]
      /\ war' = IF scoring' = {} THEN {} ELSE war
      /\ UNCHANGED <<phase, outcome, groups, zombieGroup, nameToGroup, numGroups>>
  BY DEF AddScore, Page, repo, loader
<1> HIDE DEF g, i, v
<1>5. /\ DOMAIN groups = 1 .. Len(groups) /\ Len(groups) \in Nat
      /\ points \in Seq(Points) /\ DOMAIN points = DOMAIN groups
      /\ groupScore \in Seq(Nat) /\ DOMAIN groupScore = DOMAIN groups
      /\ points[g] \in Points /\ i \in DOMAIN points[g]
      /\ groupScore[g] = SumFunction(points[g]) /\ groupScore[g] \in Nat
  BY <1>1, <1>3 DEF TypeOK, ScoresMade
<1>6. q \in Points /\ SumFunction(q) = SumFunction(points[g]) + v
  BY <1>2, <1>5, SumAfter
<1>7. points' = [points EXCEPT ![g] = q]
  BY <1>3
<1>8. DOMAIN q = DOMAIN points[g] /\ q[i] = points[g][i] + v
      /\ \A j \in DOMAIN points[g] : j # i => q[j] = points[g][j]
  BY <1>5
<1> HIDE DEF q
<1>9. /\ DOMAIN points' = DOMAIN groups /\ points'[g] = q
      /\ \A h \in DOMAIN groups : h # g => points'[h] = points[h]
      /\ \A h \in DOMAIN groups : DOMAIN points'[h] = DOMAIN points[h]
  BY <1>3, <1>5, <1>7, <1>8
<1>10. ScoresMade'
  <2>1. points' \in Seq(Points) /\ Len(points') = Len(points)
    <3>1. g \in 1 .. Len(points)
      BY <1>3, <1>5
    <3>2. points \in Seq(Points) /\ q \in Points
      BY <1>5, <1>6
    <3>3. QED BY <1>7, <3>1, <3>2, ExceptSeq
  <2>2. groupScore[g] + v \in Nat
    BY <1>2, <1>5
  <2>3. groupScore' \in Seq(Nat) /\ Len(groupScore') = Len(groupScore)
    BY <1>3, <1>4, <1>5, <2>2, ExceptSeq
  <2>4. ASSUME NEW h \in DOMAIN groups
        PROVE  groupScore'[h] = SumFunction(points'[h])
    <3>1. CASE h = g
      BY <1>4, <1>5, <1>6, <1>9, <3>1
    <3>2. CASE h # g
      BY <1>1, <1>4, <1>5, <1>9, <3>2 DEF ScoresMade
    <3>3. QED BY <3>1, <3>2
  <2>5. earned' \in [Files -> Nat]
    BY <1>1, <1>2, <1>4 DEF ScoresMade, Warrior
  <2>6. QED BY <1>1, <1>4, <1>9, <2>1, <2>3, <2>4, <2>5 DEF ScoresMade
<1>11. WarKept'
  <2>1. GroupList(Len(groups))' = GroupList(Len(groups))
    BY <1>4 DEF GroupList, Range
  <2>2. QED BY <1>1, <1>3, <1>4, <2>1 DEF WarKept
<1>12. GraphKept'
  <2>1. columns' \in [DOMAIN groups -> [{1, 2} -> Nat]]
    BY <1>1, <1>2, <1>3 DEF GraphKept
  <2>2. ASSUME NEW h \in DOMAIN groups, NEW j \in DOMAIN points'[h]
        PROVE  columns'[h][j] = points'[h][j]
    <3>1. columns[h][j] = points[h][j] /\ j \in DOMAIN points[h]
      BY <1>1, <1>9 DEF GraphKept
    <3>2. CASE h = g /\ j = i
      BY <1>1, <1>3, <1>8, <1>9, <3>1, <3>2 DEF GraphKept
    <3>3. CASE h = g /\ j # i
      BY <1>1, <1>3, <1>8, <1>9, <3>1, <3>3 DEF GraphKept
    <3>4. CASE h # g
      BY <1>1, <1>3, <1>9, <3>1, <3>4 DEF GraphKept
    <3>5. QED BY <3>2, <3>3, <3>4
  <2>3. QED BY <1>4, <2>1, <2>2 DEF GraphKept
<1>13. CreditKept'
  <2>1. SUFFICES ASSUME NEW h \in DOMAIN groups, NEW j \in DOMAIN points'[h],
                        Unshared(groups[h][j])
                 PROVE  points'[h][j] = earned'[groups[h][j].file]
    BY <1>4, UnsharedStays DEF CreditKept
  <2>2. /\ j \in DOMAIN points[h] /\ j \in DOMAIN groups[h]
        /\ points[h][j] = earned[groups[h][j].file]
    BY <1>1, <1>9, <2>1 DEF CreditKept, ScoresMade
  <2>3. /\ groups[h][j] \in Warrior /\ groups[h][j].file \in Files
        /\ w.file \in Files /\ earned \in [Files -> Nat]
    <3>1. groups[h] \in Group
      BY <1>1, GroupShape
    <3>2. groups[h][j] \in Warrior
      BY <2>2, <3>1 DEF Group
    <3>3. QED BY <1>1, <1>2, <3>2 DEF Warrior, ScoresMade
  <2>4. CASE h = g /\ j = i
    <3>1. w.file = groups[h][j].file
      BY <1>2, <1>3, <2>1, <2>4 DEF Unshared
    <3>2. QED BY <1>4, <1>8, <1>9, <2>2, <2>3, <2>4, <3>1
  <2>5. CASE ~(h = g /\ j = i)
    <3>1. groups[h][j].file # w.file
      <4>1. SUFFICES ASSUME w.file = groups[h][j].file PROVE FALSE
        OBVIOUS
      <4>2. groups[g][i].name = groups[h][j].name
        BY <1>2, <1>3, <2>2, <4>1, FightsOnce
      <4>3. groups[g][i] \in GroupList(Len(groups))
        BY <1>3, <1>5 DEF GroupList
      <4>4. groups[g][i].file = groups[h][j].file
        BY <2>1, <4>2, <4>3 DEF Unshared
      <4>5. /\ groups[h][j].file \in FilesOf(groups[h])
            /\ groups[g][i].file \in FilesOf(groups[g])
        BY <1>3, <2>2, FilesOfGroup
      <4>6. h = g
        BY <1>1, <1>3, <4>4, <4>5 DEF GroupsApart
      <4>7. QED BY <1>1, <1>3, <2>2, <2>5, <4>4, <4>6 DEF MembersApart
    <3>2. earned'[groups[h][j].file] = earned[groups[h][j].file]
      BY <1>4, <2>3, <3>1
    <3>3. points'[h][j] = points[h][j]
      BY <1>8, <1>9, <2>2, <2>5
    <3>4. QED BY <2>2, <3>2, <3>3
  <2>6. QED BY <2>4, <2>5
<1>14. QED BY <1>1, <1>4, <1>10, <1>11, <1>12, <1>13 DEF ScoresKept

(* A survivor's points are added to the member, its group, and the graph's *)
(* column, all of the same name; no other step of the competition changes  *)
(* any of them.                                                            *)
LEMMA ScoresCompetition ==
  ASSUME Inv, MembersMade, Enlisted, ScoresKept,
         \/ Edits \/ StartWar
         \/ \E survivors \in SUBSET war : EndWar(survivors)
         \/ \E w \in scoring : PassOver(w) \/ AddScore(w) \/ AddScoreThrows(w)
         \/ EndCompetition \/ StopDebug \/ UNCHANGED vars
  PROVE  ScoresKept'
<1>1. CASE \E w \in scoring : AddScore(w)
  <2>1. PICK w \in scoring : AddScore(w)
    BY <1>1
  <2>2. CASE outcome = "loaded"
    BY <2>1, <2>2, ScoresCredited
  <2>3. CASE outcome # "loaded"
    <3>1. phase = "idle" /\ phase' = phase /\ outcome' = outcome
      BY <2>1 DEF AddScore, Page, loader, Inv, LoaderInv, TypeOK
    <3>2. QED BY <2>3, <3>1 DEF ScoresKept
  <2>4. QED BY <2>2, <2>3
<1>2. CASE ~ \E w \in scoring : AddScore(w)
  <2>1. UNCHANGED <<phase, outcome, groups, zombieGroup, nameToGroup,
                    points, groupScore, columns>>
    <3>1. CASE Edits
      BY <3>1 DEF Edits, UpdateTitle, AddPlayer, ChangedWType, RemovePlayer,
                  LoadAddrChanged, Edit, loader, repo, score
    <3>2. CASE ~Edits
      BY <1>2, <3>2 DEF StartWar, EndWar, PassOver, AddScoreThrows,
                        EndCompetition, StopDebug, vars, Page, loader, repo, score
    <3>3. QED BY <3>1, <3>2
  <2>2. /\ phase # "idle" => ScoresMade' /\ NothingScored'
        /\ outcome = "loaded" => ScoresMade' /\ CreditKept'
    <3>1. CASE \E w \in scoring : PassOver(w)
      <4>1. phase = "idle"
        BY <3>1 DEF PassOver, Inv, LoaderInv, TypeOK
      <4>2. QED BY <3>1, <4>1, ScoresPassed
    <3>2. CASE ~ \E w \in scoring : PassOver(w)
      <4>1. earned' = earned
        <5>1. CASE Edits
          BY <5>1 DEF Edits, UpdateTitle, AddPlayer, ChangedWType, RemovePlayer,
                      LoadAddrChanged, Edit, score
        <5>2. CASE ~Edits
          BY <1>2, <3>2, <5>2 DEF StartWar, EndWar, AddScoreThrows,
                                  EndCompetition, StopDebug, vars, score
        <5>3. QED BY <5>1, <5>2
      <4>2. /\ ScoresMade => ScoresMade'
            /\ NothingScored => NothingScored'
        BY <2>1, <4>1, ScoresMadeStay
      <4>3. CreditKept => CreditKept'
        BY <2>1, <4>1, UnsharedStays DEF CreditKept
      <4>4. QED BY <4>2, <4>3 DEF ScoresKept
    <3>3. QED BY <3>1, <3>2
  <2>3. GraphKept => GraphKept'
    BY <2>1 DEF GraphKept
  <2>4. ASSUME outcome = "loaded" PROVE WarKept'
    <3>1. WarKept /\ Len(groups)' = Len(groups) /\ Len(groups) \in Nat
          /\ GroupList(Len(groups))' = GroupList(Len(groups))
      BY <2>1, <2>4 DEF ScoresKept, GroupList, Range, Inv, TypeOK
    <3>2. CASE Edits
      <4>1. UNCHANGED <<numGroups, war, scoring, crashed>>
        BY <3>2 DEF Edits, UpdateTitle, AddPlayer, ChangedWType, RemovePlayer,
                    LoadAddrChanged, Edit, comp
      <4>2. QED BY <3>1, <4>1 DEF WarKept
    <3>3. CASE StartWar
      <4>1. numGroups = Len(groups) /\ scoring = {}
        BY <3>1, <3>3 DEF StartWar, WarKept, Idle
      <4>2. /\ war' = GroupList(Len(groups)) /\ crashed' = FALSE
            /\ UNCHANGED <<numGroups, scoring>>
        BY <3>1, <3>3, <4>1 DEF StartWar
      <4>3. QED BY <3>1, <4>1, <4>2 DEF WarKept
    <3>4. CASE \E survivors \in SUBSET war : EndWar(survivors)
      BY <3>1, <3>4 DEF EndWar, WarKept
    <3>5. CASE \E w \in scoring : PassOver(w)
      BY <3>1, <3>5 DEF PassOver, WarKept
    <3>6. CASE \E w \in scoring : AddScoreThrows(w)
      BY <2>4, <3>6, AddScoreFacts
    <3>7. CASE EndCompetition
      BY <3>1, <3>7 DEF EndCompetition, WarKept, Idle
    <3>8. CASE StopDebug \/ UNCHANGED vars
      BY <3>1, <3>8 DEF StopDebug, WarKept, comp, vars
    <3>9. QED BY <1>2, <3>2, <3>3, <3>4, <3>5, <3>6, <3>7, <3>8
  <2>5. QED BY <2>1, <2>2, <2>3, <2>4 DEF ScoresKept
<1>3. QED BY <1>1, <1>2

LEMMA ScoresNext ==
  Inv /\ MembersMade /\ Enlisted /\ ScoresKept /\ [Next]_vars => ScoresKept'
<1>1. SUFFICES ASSUME Inv, MembersMade, Enlisted, ScoresKept, [Next]_vars
               PROVE  ScoresKept'
  OBVIOUS
<1>2. CASE \E f \in Files : LoadSingle(f) \/ LoadFirst(f) \/ LoadSecond(f)
  BY <1>1, <1>2, ScoresTurn
<1>3. CASE \/ \E debug \in BOOLEAN : Start(debug)
           \/ \E f \in Files :
                \/ RefusePlayer(f) \/ LoadSecondThrows(f)
                \/ LoadZombie(f) \/ RefuseZombie(f) \/ LoadZombieThrows(f)
           \/ NoPlayers \/ PlayersLoaded \/ LoadingDone
  BY <1>1, <1>3, ScoresLoader
<1>4. CASE \/ Edits \/ StartWar
           \/ \E survivors \in SUBSET war : EndWar(survivors)
           \/ \E w \in scoring : PassOver(w) \/ AddScore(w) \/ AddScoreThrows(w)
           \/ EndCompetition \/ StopDebug \/ UNCHANGED vars
  BY <1>1, <1>4, ScoresCompetition
<1>5. QED BY <1>1, <1>2, <1>3, <1>4 DEF Next, Edits

(* At first there are no groups.                                           *)
LEMMA ScoresInit == Init => MembersMade /\ ScoresKept
BY DEF Init, MembersMade, ScoresKept

(* After a start that went through no frame of the competition is thrown   *)
(* out by the repository: groups are there for all that are asked for, a   *)
(* survivor's name leads to one of them, and it has a member of that name, *)
(* whatever is edited, debugged or started over meanwhile.                 *)
THEOREM CompetitionRuns == Spec => []NoCrash
<1>1. ScoresKept => NoCrash
  BY DEF ScoresKept, WarKept, NoCrash
<1>2. QED BY <1>1, ScoresInit, InvInit, InvNext, MembersNext, EnlistedInit,
             EnlistedNext, ScoresNext, PTL DEF Spec

(* The graph, the members' scores and the groups' totals agree, and whoever *)
(* shares a name with nobody has exactly the points of the wars survived,  *)
(* over any number of wars, edits and starts.                              *)
THEOREM GraphShowsScores == Spec => []ScoresAgree
<1>1. ScoresKept => ScoresAgree
  BY DEF ScoresKept, ScoresMade, GraphKept, CreditKept, ScoresAgree
<1>2. QED BY <1>1, ScoresInit, InvInit, InvNext, MembersNext, EnlistedInit,
             EnlistedNext, ScoresNext, PTL DEF Spec
=============================================================================
