----------------------------- MODULE Repository -----------------------------
(***************************************************************************)
(* WarriorRepository: the programs of the players page are grouped into    *)
(* teams by sorting them by name, wars are fought by the groups, and the   *)
(* survivors are credited by name, in the repository and in the graph.     *)
(*                                                                         *)
(* loadWarriors is one synchronous call; LoadPlayer and LoadZombie are the *)
(* turns of its loops, and nothing else happens while it runs (Idle).  The *)
(* page may be edited between two frames of a running competition, and a   *)
(* debugging session may be started over it.                               *)
(***************************************************************************)
EXTENDS Integers, Sequences, FiniteSets, Functions

CONSTANTS
  Players,        (* numbered in the order of m_players                    *)
  Zombies,        (* likewise, after the players                           *)
  Titles,         (* what may be typed as a title                          *)
  Names,          (* the names of programs that come of it                 *)
  Plain, First, Second, (* title, title + "1", title + "2"                 *)
  Nameless,       (* the empty name                                        *)
  Rank,           (* place of a name in the order compareToIgnoreCase      *)
  Slots,          (* fixed load addresses, so far apart that code overlaps *)
                  (* only at the same one                                  *)
  Random, Unfit,  (* no fixed address, and one that is not acceptable      *)
  Whole,          (* units of a point, enough to share it out evenly       *)
  MaxEdits, MaxStarts, MaxWars  (* bounds: edits, starts and wars          *)

ASSUME RepositoryAssumption ==
  /\ Players \subseteq Nat /\ Zombies \subseteq Nat
  /\ \A p \in Players, z \in Zombies : p < z
  /\ Plain \in [Titles -> Names]
  /\ First \in [Titles -> Names] /\ Second \in [Titles -> Names]
  /\ Rank \in [Names -> Nat]
  /\ \A t \in Titles : Rank[First[t]] < Rank[Second[t]]
  /\ Random \notin Slots /\ Unfit \notin Slots /\ Random # Unfit
  /\ Whole \in Nat \ {0}
  /\ MaxEdits \in Nat /\ MaxStarts \in Nat /\ MaxWars \in Nat

Owners == Players \cup Zombies
Files == Owners \X {0, 1}       (* PlayerInfo.code[0] and code[1]          *)
NoGroup == <<>>
NoChecker == [made |-> FALSE, taken |-> {}]

VARIABLES
  page,           (* the players page: title, name and address of everyone *)
  debugging,      (* the debugger is open: the page cannot be edited       *)
  edits, starts,  (* edits and starts so far                               *)
  phase,          (* "idle", or the loop of loadWarriors that runs         *)
  left,           (* files that loop has still to visit                    *)
  handed,         (* the files it was handed: players and zombies          *)
  isInDebug,      (* its argument                                          *)
  checker,        (* m_Fixed_loadAddressChecker: whether there is one, and *)
                  (* the slots that are taken                              *)
  current,        (* currentGroup of the loader; NoGroup for null          *)
  outcome,        (* how the last start ended; "none" before and during    *)
  groups,         (* warriorGroups                                         *)
  zombieGroup,    (* NoGroup for null                                      *)
  nameToGroup,    (* warriorNameToGroup; 0 for no entry                    *)
  points,         (* scores of the members of each group                   *)
  groupScore,     (* groupScore of each group                              *)
  columns,        (* the graph: points of both members of each column      *)
  numGroups,      (* groups of the running competition, 0 when none runs   *)
  war,            (* the warriors of the current war                       *)
  wars,           (* wars started                                          *)
  scoring,        (* survivors whose points are still to be added          *)
  crashed,        (* a frame of the competition threw                      *)
  earned          (* history: what each program, zombies included,         *)
                  (* survived for since the groups were made               *)

pageVars == <<page, debugging, edits>>
loader == <<phase, left, handed, isInDebug, checker, current>>
repo == <<groups, zombieGroup, nameToGroup>>
score == <<points, groupScore, columns, earned>>
comp == <<numGroups, war, wars, scoring, crashed>>
vars == <<pageVars, starts, outcome, loader, repo, score, comp>>

Idle == phase = "idle" /\ scoring = {}

(***************************************************************************)
(* The page.  A title is edited by updateTitle, one against two warriors   *)
(* chosen by changedWType; both rewrite the names.  A zombie keeps the     *)
(* name of j_addPlayer, which has a digit too many, until it is renamed.   *)
(* Two identical warriors, a third type, cannot be chosen on the page.     *)
(***************************************************************************)
Rewritten(title, two) ==
  [title |-> title, two |-> two,
   name |-> IF two THEN [i \in {0, 1} |-> IF i = 0 THEN First[title]
                                                     ELSE Second[title]]
            ELSE [i \in {0, 1} |-> IF i = 0 THEN Plain[title]
                                              ELSE Second[title]]]

FreshZombie(title) ==
  [title |-> title, two |-> FALSE,
   name |-> [i \in {0, 1} |-> IF i = 0 THEN First[title] ELSE Second[title]]]

Programs(titles) == {Rewritten(t, two) : t \in titles, two \in BOOLEAN}
ZombiePrograms(titles) ==
  {Rewritten(t, FALSE) : t \in titles} \cup {FreshZombie(t) : t \in titles}

Unused == Rewritten(CHOOSE t \in Titles : TRUE, FALSE)

Pages ==
  [present : SUBSET Owners,
   program : [Owners -> Programs(Titles) \cup ZombiePrograms(Titles)],
   address : [Files -> Slots \cup {Random, Unfit}]]

Name(f) == page.program[f[1]].name[f[2]]
IsTwo(p) == page.program[p].two

(* getFiles: the programs in use.                                          *)
Active(owners) ==
  {f \in (owners \cap page.present) \X {0, 1} : f[2] = 0 \/ IsTwo(f[1])}

(* m_players: files come in the order of their owners.                     *)
Precedes(f, g) == f[1] < g[1] \/ (f[1] = g[1] /\ f[2] < g[2])

(* Arrays.sort by name, ignoring case; it is stable.                       *)
Before(f, g) == \/ Rank[Name(f)] < Rank[Name(g)]
                \/ Rank[Name(f)] = Rank[Name(g)] /\ Precedes(f, g)

(* The initial page is any that edits of players and names can lead to     *)
(* before the first start; no address is fixed yet.                        *)
Init ==
  /\ page \in [present : SUBSET Owners,
               program : [Owners -> Programs(Titles) \cup
                                    ZombiePrograms(Titles)],
               address : {[f \in Files |-> Random]}]
  /\ \A p \in Players : page.program[p] \in Programs(Titles)
  /\ \A z \in Zombies : page.program[z] \in ZombiePrograms(Titles)
  /\ \A p \in Owners \ page.present : page.program[p] = Unused
  /\ debugging = FALSE /\ edits = 0 /\ starts = 0
  /\ phase = "idle" /\ left = {} /\ handed = {} /\ isInDebug = FALSE
  /\ checker = NoChecker /\ current = NoGroup /\ outcome = "none"
  /\ groups = <<>> /\ zombieGroup = NoGroup
  /\ nameToGroup = [n \in Names |-> 0]
  /\ points = <<>> /\ groupScore = <<>> /\ columns = <<>>
  /\ numGroups = 0 /\ war = {} /\ wars = 0 /\ scoring = {}
  /\ crashed = FALSE
  /\ earned = [f \in Files |-> 0]

-----------------------------------------------------------------------------
(***************************************************************************)
(* Edits.                                                                  *)
(***************************************************************************)
Edit ==
  /\ Idle /\ ~debugging /\ edits < MaxEdits
  /\ edits' = edits + 1
  /\ UNCHANGED <<debugging, starts, outcome, loader, repo, score, comp>>

UpdateTitle(p, title) ==
  /\ Edit /\ p \in page.present
  /\ page' = [page EXCEPT !.program[p] = Rewritten(title, IsTwo(p))]

ChangedWType(p) ==
  /\ Edit /\ p \in page.present \cap Players
  /\ page' = [page EXCEPT !.program[p] =
                Rewritten(page.program[p].title, ~IsTwo(p))]

LoadAddrChanged(f, address) ==
  /\ Edit /\ f \in Active(Owners)
  /\ page' = [page EXCEPT !.address[f] = address]

(* New players and zombies come at the end of m_players.                   *)
AddPlayer(p, title) ==
  /\ Edit /\ p \in Owners \ page.present
  /\ \A q \in page.present : (q \in Players <=> p \in Players) => q < p
  /\ page' = [page EXCEPT !.present = @ \cup {p},
                          !.program[p] = IF p \in Players
                                         THEN Rewritten(title, FALSE)
                                         ELSE FreshZombie(title)]

RemovePlayer(p) ==
  /\ Edit /\ p \in page.present
  /\ page' = [page EXCEPT !.present = @ \ {p}]

-----------------------------------------------------------------------------
(***************************************************************************)
(* loadWarriors.  checkPlayersReady has let the start through: everyone    *)
(* has code.  The old groups are dropped before anything is looked at; the *)
(* zombies are dropped only when the players are loaded.                   *)
(***************************************************************************)
(* Mutant: the names of the groups of an earlier start are kept.           *)
Start_KeepsNames(debug) ==
  /\ Idle /\ ~debugging /\ starts < MaxStarts
  /\ page.present # {}
  /\ starts' = starts + 1
  /\ phase' = "players" /\ outcome' = "none"
  /\ isInDebug' = debug
  /\ left' = Active(Players) /\ handed' = Active(Owners)
  /\ checker' = NoChecker /\ current' = NoGroup
  /\ groups' = <<>>
  /\ points' = <<>> /\ groupScore' = <<>>
  /\ earned' = [f \in Files |-> 0]
  /\ UNCHANGED <<nameToGroup, pageVars, zombieGroup, columns, comp>>

Start(debug) ==
  /\ Idle /\ ~debugging /\ starts < MaxStarts
  /\ page.present # {}
  /\ starts' = starts + 1
  /\ phase' = "players" /\ outcome' = "none"
  /\ isInDebug' = debug
  /\ left' = Active(Players) /\ handed' = Active(Owners)
  /\ checker' = NoChecker /\ current' = NoGroup
  /\ groups' = <<>> /\ nameToGroup' = [n \in Names |-> 0]
  /\ points' = <<>> /\ groupScore' = <<>>
  /\ earned' = [f \in Files |-> 0]
  /\ UNCHANGED <<pageVars, zombieGroup, columns, comp>>

(* loadWarriors and runWar are left: refused, or by an exception.          *)
Ends(how) ==
  /\ phase' = "idle" /\ left' = {} /\ outcome' = how
  /\ UNCHANGED <<pageVars, starts, handed, isInDebug, comp, columns, earned>>

(* addCheck: whether it takes the address, and what it remembers.          *)
Accepts(c, address) == address \in Slots \ c.taken
(* Mutant: an accepted address is not remembered.                          *)
Checked_Only(c, address) == [made |-> TRUE, taken |-> c.taken]

(* Mutant: the checker is made for the second fixed player only.           *)
Checked_LateMade(c, address) ==
  [made |-> c.taken # {}, taken |-> c.taken \cup ({address} \cap Slots)]

Checked(c, address) == [made |-> TRUE,
                        taken |-> c.taken \cup ({address} \cap Slots)]

(* getStartAddress: players are fixed in debug mode only.                  *)
IsFixed(f) == page.address[f] # Random /\ isInDebug
CheckerAfter(f) == IF IsFixed(f) THEN Checked(checker, page.address[f])
                   ELSE checker
Refuses(f) == \/ Name(f) = Nameless
              \/ IsFixed(f) /\ ~Accepts(checker, page.address[f])

(* What WarriorData keeps of a program.                                    *)
Member(f, address) == [file |-> f, name |-> Name(f), address |-> address]
PlayerMember(f) == Member(f, IF IsFixed(f) THEN page.address[f] ELSE Random)
Nothing(g) == [i \in DOMAIN g |-> 0]

(* Mutant: currentGroup is not set back to null.                           *)
Complete_KeepsCurrent(g) ==
  /\ groups' = Append(groups, g)
  /\ points' = Append(points, Nothing(g))
  /\ groupScore' = Append(groupScore, 0)
  /\ current' = g

(* The group is complete: it goes to the end of warriorGroups.             *)
Complete(g) ==
  /\ groups' = Append(groups, g)
  /\ points' = Append(points, Nothing(g))
  /\ groupScore' = Append(groupScore, 0)
  /\ current' = NoGroup

(* Mutant: the index of the last complete group.                           *)
PutName_OfLast(f) == nameToGroup' = [nameToGroup EXCEPT ![Name(f)] = Len(groups)]

PutName(f) == nameToGroup' = [nameToGroup EXCEPT ![Name(f)] = Len(groups) + 1]

IsNext(f) == f \in left /\ \A g \in left \ {f} : Before(f, g)

RefusePlayer(f) ==
  /\ phase = "players" /\ IsNext(f) /\ Refuses(f)
  /\ checker' = IF Name(f) = Nameless THEN checker ELSE CheckerAfter(f)
  /\ Ends("refused")
  /\ UNCHANGED <<current, repo, points, groupScore>>

(* What every way through loadWarrior has in common.                       *)
LoadPlayer(f) ==
  /\ phase = "players" /\ IsNext(f) /\ ~Refuses(f)
  /\ checker' = CheckerAfter(f)

Continue(f) ==
  /\ left' = left \ {f}
  /\ UNCHANGED <<pageVars, starts, outcome, phase, handed, isInDebug,
                 zombieGroup, columns, earned, comp>>

LoadSingle(f) ==
  /\ LoadPlayer(f) /\ ~IsTwo(f[1])
  /\ Complete(<<PlayerMember(f)>>) /\ PutName(f)
  /\ Continue(f)

(* Mutant: no new group is started.                                        *)
LoadFirst_Appends(f) ==
  /\ LoadPlayer(f) /\ IsTwo(f[1]) /\ f[2] = 0
  /\ current' = Append(current, PlayerMember(f)) /\ PutName(f)
  /\ Continue(f)
  /\ UNCHANGED <<groups, points, groupScore>>

LoadFirst(f) ==
  /\ LoadPlayer(f) /\ IsTwo(f[1]) /\ f[2] = 0
  /\ current' = <<PlayerMember(f)>> /\ PutName(f)
  /\ Continue(f)
  /\ UNCHANGED <<groups, points, groupScore>>

LoadSecond(f) ==
  /\ LoadPlayer(f) /\ IsTwo(f[1]) /\ f[2] = 1 /\ current # NoGroup
  /\ Complete(Append(current, PlayerMember(f))) /\ PutName(f)
  /\ Continue(f)

(* currentGroup is null: somebody else's name came in between.             *)
LoadSecondThrows(f) ==
  /\ LoadPlayer(f) /\ IsTwo(f[1]) /\ f[2] = 1 /\ current = NoGroup
  /\ Ends("threw")
  /\ UNCHANGED <<current, repo, points, groupScore>>

NoPlayers ==
  /\ phase = "players" /\ left = {} /\ groups = <<>>
  /\ Ends("refused")
  /\ UNCHANGED <<checker, current, repo, points, groupScore>>

(* Mutant: the zombies of an earlier start are kept.                       *)
PlayersLoaded_KeepsZombies ==
  /\ phase = "players" /\ left = {} /\ groups # <<>>
  /\ phase' = "zombies"
  /\ left' = handed \ Active(Players)
  /\ UNCHANGED <<pageVars, starts, outcome, handed, isInDebug, checker,
                 current, groups, zombieGroup, nameToGroup, score, comp>>

(* readZombiesFromUI starts.                                               *)
PlayersLoaded ==
  /\ phase = "players" /\ left = {} /\ groups # <<>>
  /\ phase' = "zombies"
  /\ left' = handed \ Active(Players)
  /\ zombieGroup' = NoGroup
  /\ UNCHANGED <<pageVars, starts, outcome, handed, isInDebug, checker,
                 current, groups, nameToGroup, score, comp>>

IsNextZombie(z) == z \in left /\ \A g \in left \ {z} : Precedes(z, g)

(* A zombie's fixed address counts in every mode, but only a player's has  *)
(* made the checker.                                                       *)
NoCheckerFor(z) == page.address[z] # Random /\ ~checker.made

LoadZombie(z) ==
  /\ phase = "zombies" /\ IsNextZombie(z)
  /\ Name(z) # Nameless /\ ~NoCheckerFor(z)
  /\ page.address[z] = Random \/ Accepts(checker, page.address[z])
  /\ checker' = IF page.address[z] = Random THEN checker
                ELSE Checked(checker, page.address[z])
  /\ zombieGroup' = Append(zombieGroup, Member(z, page.address[z]))
  /\ left' = left \ {z}
  /\ UNCHANGED <<pageVars, starts, outcome, phase, handed, isInDebug, current,
                 groups, nameToGroup, score, comp>>

RefuseZombie(z) ==
  /\ phase = "zombies" /\ IsNextZombie(z)
  /\ \/ Name(z) = Nameless
     \/ /\ page.address[z] # Random /\ checker.made
        /\ ~Accepts(checker, page.address[z])
  /\ Ends("refused")
  /\ UNCHANGED <<checker, current, repo, points, groupScore>>

LoadZombieThrows(z) ==
  /\ phase = "zombies" /\ IsNextZombie(z)
  /\ Name(z) # Nameless /\ NoCheckerFor(z)
  /\ Ends("threw")
  /\ UNCHANGED <<checker, current, repo, points, groupScore>>

(* createGroupList for a permutation of the first n groups.                *)
GroupList(n) == Range(zombieGroup) \cup
                UNION {Range(groups[g]) : g \in 1 .. n}

(* Mutant: the graph is cleared only when it needs other columns.          *)
LoadingDone_KeepsGraph ==
  /\ phase = "zombies" /\ left = {}
  /\ phase' = "idle" /\ outcome' = "loaded"
  /\ columns' = IF DOMAIN columns = DOMAIN groups THEN columns
                ELSE [g \in DOMAIN groups |-> [i \in {1, 2} |-> 0]]
  /\ numGroups' = Len(groups) /\ war' = GroupList(Len(groups))
  /\ crashed' = FALSE
  /\ debugging' = isInDebug
  /\ UNCHANGED <<page, edits, starts, left, handed, isInDebug, checker,
                 current, repo, points, groupScore, earned, wars, scoring>>

(* runWar goes on: the graph is cleared, the competition started, and its  *)
(* first war loaded.                                                       *)
LoadingDone ==
  /\ phase = "zombies" /\ left = {}
  /\ phase' = "idle" /\ outcome' = "loaded"
  /\ columns' = [g \in DOMAIN groups |-> [i \in {1, 2} |-> 0]]
  /\ numGroups' = Len(groups) /\ war' = GroupList(Len(groups))
  /\ crashed' = FALSE
  /\ debugging' = isInDebug
  /\ UNCHANGED <<page, edits, starts, left, handed, isInDebug, checker,
                 current, repo, points, groupScore, earned, wars, scoring>>

-----------------------------------------------------------------------------
(***************************************************************************)
(* The competition, as far as it uses the repository.                      *)
(***************************************************************************)
Page == <<pageVars, starts, outcome, loader>>

StartWar ==
  /\ Idle /\ numGroups > 0 /\ wars < MaxWars /\ ~crashed
  /\ wars' = wars + 1
  /\ IF numGroups <= Len(groups)
     THEN war' = GroupList(numGroups) /\ crashed' = FALSE
     ELSE war' = war /\ crashed' = TRUE
  /\ UNCHANGED <<Page, repo, score, numGroups, scoring>>

(* updateScores: those who survived share a point.                         *)
EndWar(survivors) ==
  /\ Idle /\ ~crashed
  /\ survivors \subseteq war /\ survivors # {}
  /\ scoring' = survivors /\ war' = survivors
  /\ UNCHANGED <<Page, repo, score, numGroups, wars, crashed>>

Value == Whole \div Cardinality(war)

(* addScoreToWarrior: the first member of that name, or one past the last. *)
SubIndex(g, name) ==
  CHOOSE i \in 1 .. Len(groups[g]) + 1 :
    /\ \A j \in 1 .. i - 1 : groups[g][j].name # name
    /\ i <= Len(groups[g]) => groups[g][i].name = name

(* Not a group: taken for a zombie.                                        *)
PassOver(w) ==
  /\ w \in scoring /\ nameToGroup[w.name] = 0
  /\ earned' = [earned EXCEPT ![w.file] = @ + Value]
  /\ scoring' = scoring \ {w}
  /\ war' = IF scoring' = {} THEN {} ELSE war
  /\ UNCHANGED <<Page, repo, points, groupScore, columns, numGroups, wars,
                 crashed>>

AddScore(w) ==
  LET g == nameToGroup[w.name]
      i == SubIndex(g, w.name)
  IN
  /\ w \in scoring /\ g \in DOMAIN groups
  /\ points' = IF i \in DOMAIN points[g]
               THEN [points EXCEPT ![g][i] = @ + Value] ELSE points
  /\ groupScore' = [groupScore EXCEPT ![g] = @ + Value]
  /\ earned' = [earned EXCEPT ![w.file] = @ + Value]
  /\ IF g \in DOMAIN columns /\ i \in {1, 2}
     THEN /\ columns' = [columns EXCEPT ![g][i] = @ + Value]
          /\ scoring' = scoring \ {w}
          /\ crashed' = FALSE
     ELSE /\ columns' = columns
          /\ scoring' = {}
          /\ crashed' = TRUE
  /\ war' = IF scoring' = {} THEN {} ELSE war
  /\ UNCHANGED <<Page, repo, numGroups, wars>>

(* warriorGroups.get is out of bounds: the name was put for a group that   *)
(* was never completed.                                                    *)
AddScoreThrows(w) ==
  /\ w \in scoring /\ nameToGroup[w.name] > Len(groups)
  /\ scoring' = {} /\ war' = {} /\ crashed' = TRUE
  /\ UNCHANGED <<Page, repo, score, numGroups, wars>>

EndCompetition ==
  /\ Idle /\ numGroups > 0 /\ ~crashed
  /\ numGroups' = 0 /\ war' = {}
  /\ UNCHANGED <<Page, repo, score, wars, scoring, crashed>>

StopDebug ==
  /\ Idle /\ debugging
  /\ debugging' = FALSE
  /\ UNCHANGED <<page, edits, starts, outcome, loader, repo, score, comp>>

Next ==
  \/ \E p \in Owners :
       \/ \E t \in Titles : UpdateTitle(p, t) \/ AddPlayer(p, t)
       \/ ChangedWType(p)
       \/ RemovePlayer(p)
  \/ \E f \in Files, a \in Slots \cup {Random, Unfit} : LoadAddrChanged(f, a)
  \/ \E debug \in BOOLEAN : Start(debug)
  \/ \E f \in Files :
       \/ RefusePlayer(f) \/ LoadSingle(f) \/ LoadFirst(f) \/ LoadSecond(f)
       \/ LoadSecondThrows(f)
       \/ LoadZombie(f) \/ RefuseZombie(f) \/ LoadZombieThrows(f)
  \/ NoPlayers \/ PlayersLoaded \/ LoadingDone
  \/ StartWar
  \/ \E survivors \in SUBSET war : EndWar(survivors)
  \/ \E w \in scoring : PassOver(w) \/ AddScore(w) \/ AddScoreThrows(w)
  \/ EndCompetition \/ StopDebug

Spec == Init /\ [][Next]_vars

-----------------------------------------------------------------------------
Warrior == [file : Files, name : Names, address : Slots \cup {Random}]
Group == UNION {[1 .. n -> Warrior] : n \in 1 .. 2}

TypeOK ==
  /\ page \in Pages /\ debugging \in BOOLEAN
  /\ edits \in 0 .. MaxEdits /\ starts \in 0 .. MaxStarts
  /\ phase \in {"idle", "players", "zombies"}
  /\ left \subseteq Files /\ handed \subseteq Files
  /\ isInDebug \in BOOLEAN
  /\ checker \in [made : BOOLEAN, taken : SUBSET Slots]
  /\ current \in [1 .. 1 -> Warrior] \cup {NoGroup}
  /\ outcome \in {"none", "loaded", "refused", "threw"}
  /\ groups \in Seq(Group)
  /\ zombieGroup \in Seq(Warrior)
  /\ nameToGroup \in [Names -> Nat]
  /\ numGroups \in Nat /\ wars \in 0 .. MaxWars
  /\ war \subseteq Warrior /\ scoring \subseteq Warrior
  /\ crashed \in BOOLEAN

FilesOf(g) == {m.file : m \in Range(g)}
HandedOf(p) == {f \in handed : f[1] = p}
HandedPlayers == {f[1] : f \in {h \in handed : h[1] \in Players}}

(* When a start has gone through, whatever the names, the groups are the   *)
(* players: each with all the programs it handed in and nobody else's.     *)
(* loadWarriors only sees one program after the other, in the order of     *)
(* their names, and pairs them by the last one it saw.                     *)
TeamsTogether ==
  outcome = "loaded" =>
    /\ {FilesOf(groups[g]) : g \in DOMAIN groups}
         = {HandedOf(p) : p \in HandedPlayers}
    /\ \A g, h \in DOMAIN groups :
         g # h => FilesOf(groups[g]) \cap FilesOf(groups[h]) = {}

DistinctNames ==
  \A g, h \in DOMAIN groups : \A m \in Range(groups[g]), n \in Range(groups[h]) :
    m.name = n.name => m.file = n.file

(* With no two players' programs of the same name, a name leads to the     *)
(* group that has the program: warriorNameToGroup is filled before the     *)
(* group it counts on is there.                                            *)
NamesFindGroups ==
  outcome = "loaded" /\ DistinctNames =>
    \A g \in DOMAIN groups : \A m \in Range(groups[g]) : nameToGroup[m.name] = g

(* Nobody else who fights has the name.                                    *)
Unshared(m) == \A n \in GroupList(Len(groups)) : n.name = m.name => n.file = m.file

(* What the graph shows is what the repository keeps, and adds up to the   *)
(* groups' totals; and a program that shares its name with nobody has what *)
(* it has fought for, whoever else is given somebody else's points.  The   *)
(* copies are updated one after the other, by name and by index, over any  *)
(* number of wars, edits and restarts.                                     *)
ScoresAgree ==
  outcome = "loaded" =>
    \A g \in DOMAIN groups :
      /\ groupScore[g] = SumFunction(points[g])
      /\ \A i \in DOMAIN points[g] :
           /\ columns[g][i] = points[g][i]
           /\ Unshared(groups[g][i]) => points[g][i] = earned[groups[g][i].file]

(* The zombies of a start that went through are those it was handed:       *)
(* readZombiesFromUI drops the ones of an earlier start, however far the   *)
(* starts in between came.                                                 *)
ZombiesHandedIn ==
  outcome = "loaded" => FilesOf(zombieGroup) = {f \in handed : f[1] \in Zombies}

(* Who was let through with a fixed address has it for himself, zombies    *)
(* included: what War takes for granted.  The addresses are checked one by *)
(* one in the middle of the two loops.                                     *)
FixedApart ==
  outcome = "loaded" =>
    \A m, n \in GroupList(Len(groups)) :
      m.file # n.file /\ m.address # Random => m.address # n.address

(* A competition whose start went through is never thrown out of a frame   *)
(* by the repository.                                                      *)
NoCrash == outcome = "loaded" => ~crashed

(* The program of somebody else that the loader sees between p's two.      *)
CutInTwo(p) ==
  \E f \in Active(Players) :
    f[1] # p /\ Before(<<p, 0>>, f) /\ Before(f, <<p, 1>>)

(* A start is ended by an exception in two cases only, which can be told   *)
(* from the page alone: a name sorts in between the two of another player  *)
(* (the loader has no group in hand at the second), or a zombie has a fixed*)
(* address and no player whose address counts has one (readZombiesFromUI   *)
(* finds no checker).                                                      *)
ThrowsOnlyAsKnown ==
  [][ outcome # "threw" /\ outcome' = "threw" =>
        \/ \E p \in Players \cap page.present : IsTwo(p) /\ CutInTwo(p)
        \/ /\ \A f \in Active(Players) : ~IsFixed(f)
           /\ \E z \in Active(Zombies) : page.address[z] # Random ]_vars
=============================================================================
