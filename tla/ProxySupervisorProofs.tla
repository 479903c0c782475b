----------------------- MODULE ProxySupervisorProofs -----------------------
(***************************************************************************)
(* The safety properties of ProxySupervisor and ConfigStore, for every set *)
(* of command lines, settings, values, presets and processes, and however  *)
(* many operations begin.                                                  *)
(*                                                                         *)
(* The files need an invariant of their own.  It says of each actor what   *)
(* it holds while it is at a given place (Holds), of a connect that        *)
(* nothing interferes with that the backup it would write back is sound    *)
(* (Connects), of a file that does not load who is about to repair it      *)
(* (Breaks), and of the only actor at work which of its texts is the saved *)
(* one (Saves).  The last three hold only as long as the ghost hazard says *)
(* so.                                                                     *)
(***************************************************************************)
EXTENDS ProxySupervisor, TLAPS

Does == ServerDoes \cup CliDoes \cup {"none", "restore", "start", "stop", "restart"}
Pcs == {"idle", "load", "read", "router", "write router", "proxy", "probe", "open bak",
        "write bak", "open", "write", "reload", "start", "stop", "wait", "wait killed"}
Settable == UNION {[T -> Values] : T \in SUBSET Settings}
Doings == [do : Does, pc : Pcs, set : Settable, force : BOOLEAN,
           data : ProxyFiles \cup {Missing}, text : ProxyFiles \cup {Missing, Torn}]

StoreTyped ==
    /\ file \in ProxyFiles \cup {Missing, Torn}
    /\ backup \in ProxyFiles \cup {Missing, Torn}
    /\ router \in {Missing, Torn, "edited", "packaged"}
    /\ op \in [Actors -> Doings]

\* The pcs of an actor that is not working on the files.
Away == {"idle", "start", "stop", "wait", "wait killed"}
Connecting(a) == op[a].do \in {"connect", "restore"}
Alone(a) == \A b \in Actors \ {a} : op[b].pc \in Away

\* What an actor holds, whatever the others do.
Holds(a) ==
    /\ op[a].pc \in Away => ~Connecting(a)
    /\ op[a].pc \in {"probe", "open bak", "write bak"} =>
        op[a].do = "connect" /\ file # Missing /\ op[a].data \in ProxyFiles
    /\ op[a].pc \in {"open bak", "write bak"} => op[a].text # Missing
    /\ op[a].do = "connect" /\ op[a].pc \in {"open", "write", "reload"} => backup # Missing
    /\ op[a].do = "connect" =>
        op[a].pc \in {"read", "probe", "open bak", "write bak", "open", "write", "reload"}
    /\ op[a].do = "restore" => op[a].pc \in {"open", "write"}
    /\ op[a].pc \in {"open", "write"} => op[a].text # Missing
    /\ op[a].pc \in {"open", "write", "reload"} /\ ~Connecting(a) => op[a].text \in Valid

\* A connect that nothing interferes with.
Connects(a) ==
    /\ Alone(a)
    /\ op[a].pc \in {"read", "probe", "open bak", "write bak"} => file \in Valid \cup {Missing}
    /\ op[a].pc \in {"open bak", "write bak"} => op[a].text = file
    /\ op[a].do = "connect" /\ op[a].pc \in {"open", "write", "reload"} => backup \in Valid
    /\ op[a].do = "restore" => op[a].text \in Valid

\* An actor that answers for a file that does not load.
Breaks(a) ==
    \/ At(a, "write")
    \/ op[a].do = "connect" /\ At(a, "reload")
    \/ op[a].do = "restore"

\* The only actor at the files, as long as nothing overlaps.
Saves(a) ==
    /\ Alone(a)
    /\ op[a].pc \notin {"write", "reload"} /\ op[a].do # "restore" => file = saved
    /\ op[a].do = "restore" => op[a].text = saved
    /\ op[a].do = "connect" /\ op[a].pc \in {"open", "write", "reload"} => backup = saved
    /\ op[a].pc \in {"open bak", "write bak"} => op[a].text = saved
    /\ At(a, "reload") => file = op[a].text

HoldInv == \A a \in Actors : Holds(a)
ConnectInv == hazard # "exposed" => \A a \in Actors : Connecting(a) => Connects(a)
LoadInv == hazard # "exposed" => file \in Valid \cup {Missing} \/ \E a \in Actors : Breaks(a)
SaveInv ==
    hazard = "none" =>
        /\ (\A a \in Actors : op[a].pc \in Away) => file = saved
        /\ \A a \in Actors : op[a].pc \notin Away => Saves(a)

StoreInv == StoreTyped /\ HoldInv /\ ConnectInv /\ LoadInv /\ SaveInv
-----------------------------------------------------------------------------
\* The actor a is now at this place with this text, the others where they were.
Now(a, do, pc, data, text) ==
    /\ op' \in [Actors -> Doings]
    /\ op'[a].do = do /\ op'[a].pc = pc /\ op'[a].data = data /\ op'[a].text = text
    /\ \A b \in Actors \ {a} : op'[b] = op[b]

\* The empty patch is one.
LEMMA NoPatch == <<>> \in Settable
  <1>1. <<>> \in [{} -> Values]
    BY SMT
  <1>2. QED
    BY <1>1 DEF Settable

\* An idle actor is well typed.
LEMMA IdleDoing ==
    /\ Idle \in Doings
    /\ Idle.do = "none" /\ Idle.pc = "idle" /\ Idle.data = Missing /\ Idle.text = Missing
  BY NoPatch DEF Idle, Doings, Does, Pcs

\* What replaces an actor's record is all that changes.
LEMMA Replaced ==
    ASSUME op \in [Actors -> Doings], NEW a \in Actors, NEW x \in Doings,
           op' = [op EXCEPT ![a] = x]
    PROVE  Now(a, x.do, x.pc, x.data, x.text)
  BY DEF Now

\* Going to another place changes the place alone.
LEMMA Goes ==
    ASSUME op \in [Actors -> Doings], NEW a \in Actors, NEW pc \in Pcs, Go(a, pc)
    PROVE  Now(a, op[a].do, pc, op[a].data, op[a].text)
  <1> DEFINE x == [op[a] EXCEPT !.pc = pc]
  <1>1. x \in Doings /\ x.do = op[a].do /\ x.pc = pc /\ x.data = op[a].data /\ x.text = op[a].text
    BY DEF Doings
  <1>2. op' = [op EXCEPT ![a] = x]
    BY DEF Go
  <1> HIDE DEF x
  <1>3. QED
    BY <1>1, <1>2, Replaced

\* An operation that ends leaves its actor idle.
LEMMA Ends ==
    ASSUME op \in [Actors -> Doings], NEW a \in Actors, op' = [op EXCEPT ![a] = Idle]
    PROVE  Now(a, "none", "idle", Missing, Missing)
  BY IdleDoing, Replaced

\* A patched proxy file is a proxy file.
LEMMA Patching ==
    ASSUME NEW f \in ProxyFiles, NEW o \in Doings
    PROVE  Patched(f, o.set) \in ProxyFiles
  <1>1. PICK T \in SUBSET Settings : o.set \in [T -> Values]
    BY DEF Doings, Settable
  <1>2. QED
    BY <1>1 DEF Patched, ProxyFiles
-----------------------------------------------------------------------------
\* While nothing overlaps, an actor at the files is the only one.
LEMMA OnlyOne ==
    ASSUME StoreInv, NEW a \in Actors, op[a].pc \notin Away, NEW do, NEW pc, NEW data, NEW text,
           Now(a, do, pc, data, text)
    PROVE  /\ hazard # "exposed" =>
                /\ \A b \in Actors \ {a} : ~Connecting(b)'
                /\ Connecting(a) => Connects(a) /\ Alone(a)'
           /\ hazard = "none" => Saves(a) /\ Alone(a)'
  <1>1. ASSUME hazard # "exposed", NEW b \in Actors \ {a} PROVE ~Connecting(b)'
    <2>1. ~Connecting(b)
      BY <1>1 DEF StoreInv, ConnectInv, Connects, Alone
    <2>2. QED
      BY <2>1 DEF Now, Connecting
  <1>2. ASSUME Alone(a) PROVE Alone(a)'
    BY <1>2 DEF Now, Alone
  <1>3. QED
    BY <1>1, <1>2 DEF StoreInv, ConnectInv, SaveInv, Connects, Saves

\* What the others hold stays theirs, since no file goes.
LEMMA OthersHold ==
    ASSUME StoreInv, NEW a \in Actors, NEW do, NEW pc, NEW data, NEW text,
           Now(a, do, pc, data, text), Holds(a)',
           file # Missing => file' # Missing, backup # Missing => backup' # Missing
    PROVE  HoldInv'
  <1>1. ASSUME NEW b \in Actors \ {a} PROVE Holds(b)'
    BY DEF StoreInv, Now, HoldInv, Holds, Connecting
  <1>2. QED
    BY <1>1 DEF HoldInv

\* assign finds its backend in a configuration that loads, or ends.
LEMMA LoadKeeps ==
    ASSUME StoreInv, NEW a \in Actors, Load(a)
    PROVE  StoreInv'
  <1>1. op[a].pc = "load"
    BY DEF Load, At
  <1>2. \/ Now(a, op[a].do, "read", op[a].data, op[a].text)
        \/ Now(a, "none", "idle", Missing, Missing)
    BY Goes, Ends DEF StoreInv, StoreTyped, Finish, Pcs, Load
  <1>3. UNCHANGED <<file, backup, router, hazard>> /\ (hazard = "none" => saved' = saved)
    BY DEF Load, Finish, Go
  <1>4. /\ hazard # "exposed" =>
             /\ \A b \in Actors \ {a} : ~Connecting(b)'
             /\ Connecting(a) => Connects(a) /\ Alone(a)'
        /\ hazard = "none" => Saves(a) /\ Alone(a)'
    BY <1>1, <1>2, OnlyOne DEF Away
  <1>5. StoreTyped'
    BY <1>1, <1>2, <1>3 DEF StoreInv, StoreTyped, Now, Doings
  <1>6. HoldInv'
    <2>1. Holds(a)'
      BY <1>1, <1>2, <1>3, NonesAssumption, PresetsAssumption
         DEF StoreInv, StoreTyped, Doings, Now, HoldInv, Holds, Connecting, Away
    <2>2. (file # Missing => file' # Missing) /\ (backup # Missing => backup' # Missing)
      BY <1>1, <1>3, NonesAssumption DEF StoreInv, HoldInv, Holds
    <2>3. QED
      BY <1>2, <2>1, <2>2, OthersHold
  <1>7. ConnectInv'
    <2>1. ASSUME hazard # "exposed", Connecting(a)' PROVE Connects(a)'
      BY <1>1, <1>2, <1>3, <1>4, <2>1, NonesAssumption
         DEF StoreInv, Now, HoldInv, Holds, Connects, LoadInv, Breaks, At, Connecting
    <2>2. QED
      BY <1>3, <1>4, <2>1 DEF ConnectInv
  <1>8. LoadInv'
    BY <1>1, <1>2, <1>3, <1>4
       DEF StoreInv, Now, HoldInv, Holds, Connects, LoadInv, Breaks, At, Connecting
  <1>9. SaveInv'
    BY <1>1, <1>2, <1>3, <1>4
       DEF Now, SaveInv, Saves, At, Alone, Away, StoreInv, HoldInv, Holds, Connecting
  <1>10. QED
    BY <1>5, <1>6, <1>7, <1>8, <1>9 DEF StoreInv

\* A connect that gives up has written nothing.
LEMMA GiveUpKeeps ==
    ASSUME StoreInv, NEW a \in Actors, GiveUp(a)
    PROVE  StoreInv'
  <1>1. op[a].pc = "probe"
    BY DEF GiveUp, At
  <1>2. Now(a, "none", "idle", Missing, Missing)
    BY Goes, Ends DEF StoreInv, StoreTyped, Finish, Pcs, GiveUp
  <1>3. UNCHANGED <<file, backup, router, hazard>> /\ (hazard = "none" => saved' = saved)
    BY DEF GiveUp, Finish
  <1>4. /\ hazard # "exposed" =>
             /\ \A b \in Actors \ {a} : ~Connecting(b)'
             /\ Connecting(a) => Connects(a) /\ Alone(a)'
        /\ hazard = "none" => Saves(a) /\ Alone(a)'
    BY <1>1, <1>2, OnlyOne DEF Away
  <1>5. StoreTyped'
    BY <1>1, <1>2, <1>3 DEF StoreInv, StoreTyped, Now, Doings
  <1>6. HoldInv'
    <2>1. Holds(a)'
      BY <1>1, <1>2, <1>3, NonesAssumption, PresetsAssumption
         DEF StoreInv, StoreTyped, Doings, Now, HoldInv, Holds, Connecting, Away
    <2>2. (file # Missing => file' # Missing) /\ (backup # Missing => backup' # Missing)
      BY <1>1, <1>3, NonesAssumption DEF StoreInv, HoldInv, Holds
    <2>3. QED
      BY <1>2, <2>1, <2>2, OthersHold
  <1>7. ConnectInv'
    <2>1. ASSUME hazard # "exposed", Connecting(a)' PROVE Connects(a)'
      BY <1>1, <1>2, <1>3, <1>4, <2>1, NonesAssumption
         DEF StoreInv, Now, HoldInv, Holds, Connects, LoadInv, Breaks, At, Connecting
    <2>2. QED
      BY <1>3, <1>4, <2>1 DEF ConnectInv
  <1>8. LoadInv'
    BY <1>1, <1>2, <1>3, <1>4
       DEF StoreInv, Now, HoldInv, Holds, Connects, LoadInv, Breaks, At, Connecting
  <1>9. SaveInv'
    BY <1>1, <1>2, <1>3, <1>4
       DEF Now, SaveInv, Saves, At, Alone, Away, StoreInv, HoldInv, Holds, Connecting
  <1>10. QED
    BY <1>5, <1>6, <1>7, <1>8, <1>9 DEF StoreInv

\* The backup is opened,
LEMMA OpenBackupKeeps ==
    ASSUME StoreInv, NEW a \in Actors, OpenBackup(a)
    PROVE  StoreInv'
  <1>1. op[a].pc = "open bak"
    BY DEF OpenBackup, At
  <1>2. Now(a, op[a].do, "write bak", op[a].data, op[a].text)
    BY Goes, Ends DEF StoreInv, StoreTyped, Finish, Pcs, OpenBackup
  <1>3. UNCHANGED <<file, router, saved, hazard>> /\ backup' = Torn
    BY DEF OpenBackup
  <1>4. /\ hazard # "exposed" =>
             /\ \A b \in Actors \ {a} : ~Connecting(b)'
             /\ Connecting(a) => Connects(a) /\ Alone(a)'
        /\ hazard = "none" => Saves(a) /\ Alone(a)'
    BY <1>1, <1>2, OnlyOne DEF Away
  <1>5. StoreTyped'
    BY <1>1, <1>2, <1>3 DEF StoreInv, StoreTyped, Now, Doings
  <1>6. HoldInv'
    <2>1. Holds(a)'
      BY <1>1, <1>2, <1>3, NonesAssumption, PresetsAssumption
         DEF StoreInv, StoreTyped, Doings, Now, HoldInv, Holds, Connecting, Away
    <2>2. (file # Missing => file' # Missing) /\ (backup # Missing => backup' # Missing)
      BY <1>1, <1>3, NonesAssumption DEF StoreInv, HoldInv, Holds
    <2>3. QED
      BY <1>2, <2>1, <2>2, OthersHold
  <1>7. ConnectInv'
    <2>1. ASSUME hazard # "exposed", Connecting(a)' PROVE Connects(a)'
      BY <1>1, <1>2, <1>3, <1>4, <2>1, NonesAssumption
         DEF StoreInv, Now, HoldInv, Holds, Connects, LoadInv, Breaks, At, Connecting
    <2>2. QED
      BY <1>3, <1>4, <2>1 DEF ConnectInv
  <1>8. LoadInv'
    BY <1>1, <1>2, <1>3, <1>4
       DEF StoreInv, Now, HoldInv, Holds, Connects, LoadInv, Breaks, At, Connecting
  <1>9. SaveInv'
    BY <1>1, <1>2, <1>3, <1>4
       DEF Now, SaveInv, Saves, At, Alone, Away, StoreInv, HoldInv, Holds, Connecting
  <1>10. QED
    BY <1>5, <1>6, <1>7, <1>8, <1>9 DEF StoreInv

\* The file is opened: who opened it answers for it,
LEMMA OpenKeeps ==
    ASSUME StoreInv, NEW a \in Actors, Open(a)
    PROVE  StoreInv'
  <1>1. op[a].pc = "open"
    BY DEF Open, At
  <1>2. Now(a, op[a].do, "write", op[a].data, op[a].text)
    BY Goes, Ends DEF StoreInv, StoreTyped, Finish, Pcs, Open
  <1>3. UNCHANGED <<backup, router, saved, hazard>> /\ file' = Torn
    BY DEF Open
  <1>4. /\ hazard # "exposed" =>
             /\ \A b \in Actors \ {a} : ~Connecting(b)'
             /\ Connecting(a) => Connects(a) /\ Alone(a)'
        /\ hazard = "none" => Saves(a) /\ Alone(a)'
    BY <1>1, <1>2, OnlyOne DEF Away
  <1>5. StoreTyped'
    BY <1>1, <1>2, <1>3 DEF StoreInv, StoreTyped, Now, Doings
  <1>6. HoldInv'
    <2>1. Holds(a)'
      BY <1>1, <1>2, <1>3, NonesAssumption, PresetsAssumption
         DEF StoreInv, StoreTyped, Doings, Now, HoldInv, Holds, Connecting, Away
    <2>2. (file # Missing => file' # Missing) /\ (backup # Missing => backup' # Missing)
      BY <1>1, <1>3, NonesAssumption DEF StoreInv, HoldInv, Holds
    <2>3. QED
      BY <1>2, <2>1, <2>2, OthersHold
  <1>7. ConnectInv'
    <2>1. ASSUME hazard # "exposed", Connecting(a)' PROVE Connects(a)'
      BY <1>1, <1>2, <1>3, <1>4, <2>1, NonesAssumption
         DEF StoreInv, Now, HoldInv, Holds, Connects, LoadInv, Breaks, At, Connecting
    <2>2. QED
      BY <1>3, <1>4, <2>1 DEF ConnectInv
  <1>8. LoadInv'
    BY <1>1, <1>2, <1>3, <1>4
       DEF StoreInv, Now, HoldInv, Holds, Connects, LoadInv, Breaks, At, Connecting
  <1>9. SaveInv'
    BY <1>1, <1>2, <1>3, <1>4
       DEF Now, SaveInv, Saves, At, Alone, Away, StoreInv, HoldInv, Holds, Connecting
  <1>10. QED
    BY <1>5, <1>6, <1>7, <1>8, <1>9 DEF StoreInv

\* and writes it.
LEMMA WriteKeeps ==
    ASSUME StoreInv, NEW a \in Actors, Write(a)
    PROVE  StoreInv'
  <1>1. op[a].pc = "write"
    BY DEF Write, At
  <1>2. IF op[a].do = "restore" THEN Now(a, "none", "idle", Missing, Missing)
        ELSE Now(a, op[a].do, "reload", op[a].data, op[a].text)
    BY Goes, Ends DEF StoreInv, StoreTyped, Finish, Pcs, Write
  <1>3. /\ UNCHANGED <<backup, router, hazard>>
        /\ file' = op[a].text
        /\ hazard = "none" => saved' = saved
    BY DEF Write, Finish
  <1>4. /\ hazard # "exposed" =>
             /\ \A b \in Actors \ {a} : ~Connecting(b)'
             /\ Connecting(a) => Connects(a) /\ Alone(a)'
        /\ hazard = "none" => Saves(a) /\ Alone(a)'
    BY <1>1, <1>2, OnlyOne DEF Away
  <1>5. StoreTyped'
    BY <1>1, <1>2, <1>3 DEF StoreInv, StoreTyped, Now, Doings
  <1>6. HoldInv'
    <2>1. Holds(a)'
      BY <1>1, <1>2, <1>3, NonesAssumption, PresetsAssumption
         DEF StoreInv, StoreTyped, Doings, Now, HoldInv, Holds, Connecting, Away
    <2>2. (file # Missing => file' # Missing) /\ (backup # Missing => backup' # Missing)
      BY <1>1, <1>3, NonesAssumption DEF StoreInv, HoldInv, Holds
    <2>3. QED
      BY <1>2, <2>1, <2>2, OthersHold
  <1>7. ConnectInv'
    <2>1. ASSUME hazard # "exposed", Connecting(a)' PROVE Connects(a)'
      BY <1>1, <1>2, <1>3, <1>4, <2>1, NonesAssumption
         DEF StoreInv, Now, HoldInv, Holds, Connects, LoadInv, Breaks, At, Connecting
    <2>2. QED
      BY <1>3, <1>4, <2>1 DEF ConnectInv
  <1>8. LoadInv'
    BY <1>1, <1>2, <1>3, <1>4
       DEF StoreInv, Now, HoldInv, Holds, Connects, LoadInv, Breaks, At, Connecting
  <1>9. SaveInv'
    BY <1>1, <1>2, <1>3, <1>4
       DEF Now, SaveInv, Saves, At, Alone, Away, StoreInv, HoldInv, Holds, Connecting
  <1>10. QED
    BY <1>5, <1>6, <1>7, <1>8, <1>9 DEF StoreInv

\* A kept model_router.yaml changes nothing here,
LEMMA KeepRouterKeeps ==
    ASSUME StoreInv, NEW a \in Actors, KeepRouter(a)
    PROVE  StoreInv'
  <1>1. op[a].pc = "router"
    BY DEF KeepRouter, At
  <1>2. \/ op[a].do \in {"preset", "init"} /\ Now(a, op[a].do, "proxy", op[a].data, op[a].text)
        \/ Now(a, "none", "idle", Missing, Missing)
    BY Goes, Ends DEF StoreInv, StoreTyped, Finish, Pcs, KeepRouter
  <1>3. UNCHANGED <<file, backup, router, hazard>> /\ (hazard = "none" => saved' = saved)
    BY DEF KeepRouter, Finish
  <1>4. /\ hazard # "exposed" =>
             /\ \A b \in Actors \ {a} : ~Connecting(b)'
             /\ Connecting(a) => Connects(a) /\ Alone(a)'
        /\ hazard = "none" => Saves(a) /\ Alone(a)'
    BY <1>1, <1>2, OnlyOne DEF Away
  <1>5. StoreTyped'
    BY <1>1, <1>2, <1>3 DEF StoreInv, StoreTyped, Now, Doings
  <1>6. HoldInv'
    <2>1. Holds(a)'
      BY <1>1, <1>2, <1>3, NonesAssumption, PresetsAssumption
         DEF StoreInv, StoreTyped, Doings, Now, HoldInv, Holds, Connecting, Away
    <2>2. (file # Missing => file' # Missing) /\ (backup # Missing => backup' # Missing)
      BY <1>1, <1>3, NonesAssumption DEF StoreInv, HoldInv, Holds
    <2>3. QED
      BY <1>2, <2>1, <2>2, OthersHold
  <1>7. ConnectInv'
    <2>1. ASSUME hazard # "exposed", Connecting(a)' PROVE Connects(a)'
      BY <1>1, <1>2, <1>3, <1>4, <2>1, NonesAssumption
         DEF StoreInv, Now, HoldInv, Holds, Connects, LoadInv, Breaks, At, Connecting
    <2>2. QED
      BY <1>3, <1>4, <2>1 DEF ConnectInv
  <1>8. LoadInv'
    BY <1>1, <1>2, <1>3, <1>4
       DEF StoreInv, Now, HoldInv, Holds, Connects, LoadInv, Breaks, At, Connecting
  <1>9. SaveInv'
    BY <1>1, <1>2, <1>3, <1>4
       DEF Now, SaveInv, Saves, At, Alone, Away, StoreInv, HoldInv, Holds, Connecting
  <1>10. QED
    BY <1>5, <1>6, <1>7, <1>8, <1>9 DEF StoreInv

\* nor does one that is opened
LEMMA OpenRouterKeeps ==
    ASSUME StoreInv, NEW a \in Actors, OpenRouter(a)
    PROVE  StoreInv'
  <1>1. op[a].pc = "router"
    BY DEF OpenRouter, At
  <1>2. Now(a, op[a].do, "write router", op[a].data, op[a].text)
    BY Goes, Ends DEF StoreInv, StoreTyped, Finish, Pcs, OpenRouter
  <1>3. UNCHANGED <<file, backup, saved, hazard>> /\ router' = Torn
    BY DEF OpenRouter
  <1>4. /\ hazard # "exposed" =>
             /\ \A b \in Actors \ {a} : ~Connecting(b)'
             /\ Connecting(a) => Connects(a) /\ Alone(a)'
        /\ hazard = "none" => Saves(a) /\ Alone(a)'
    BY <1>1, <1>2, OnlyOne DEF Away
  <1>5. StoreTyped'
    BY <1>1, <1>2, <1>3 DEF StoreInv, StoreTyped, Now, Doings
  <1>6. HoldInv'
    <2>1. Holds(a)'
      BY <1>1, <1>2, <1>3, NonesAssumption, PresetsAssumption
         DEF StoreInv, StoreTyped, Doings, Now, HoldInv, Holds, Connecting, Away
    <2>2. (file # Missing => file' # Missing) /\ (backup # Missing => backup' # Missing)
      BY <1>1, <1>3, NonesAssumption DEF StoreInv, HoldInv, Holds
    <2>3. QED
      BY <1>2, <2>1, <2>2, OthersHold
  <1>7. ConnectInv'
    <2>1. ASSUME hazard # "exposed", Connecting(a)' PROVE Connects(a)'
      BY <1>1, <1>2, <1>3, <1>4, <2>1, NonesAssumption
         DEF StoreInv, Now, HoldInv, Holds, Connects, LoadInv, Breaks, At, Connecting
    <2>2. QED
      BY <1>3, <1>4, <2>1 DEF ConnectInv
  <1>8. LoadInv'
    BY <1>1, <1>2, <1>3, <1>4
       DEF StoreInv, Now, HoldInv, Holds, Connects, LoadInv, Breaks, At, Connecting
  <1>9. SaveInv'
    BY <1>1, <1>2, <1>3, <1>4
       DEF Now, SaveInv, Saves, At, Alone, Away, StoreInv, HoldInv, Holds, Connecting
  <1>10. QED
    BY <1>5, <1>6, <1>7, <1>8, <1>9 DEF StoreInv

\* and written.
LEMMA WriteRouterKeeps ==
    ASSUME StoreInv, NEW a \in Actors, WriteRouter(a)
    PROVE  StoreInv'
  <1>1. op[a].pc = "write router"
    BY DEF WriteRouter, At
  <1>2. \/ op[a].do \in {"preset", "init"} /\ Now(a, op[a].do, "proxy", op[a].data, op[a].text)
        \/ Now(a, "none", "idle", Missing, Missing)
    BY Goes, Ends DEF StoreInv, StoreTyped, Finish, Pcs, WriteRouter
  <1>3. /\ UNCHANGED <<file, backup, hazard>>
        /\ router' \in {"edited", "packaged"}
        /\ hazard = "none" => saved' = saved
    BY DEF WriteRouter, Finish
  <1>4. /\ hazard # "exposed" =>
             /\ \A b \in Actors \ {a} : ~Connecting(b)'
             /\ Connecting(a) => Connects(a) /\ Alone(a)'
        /\ hazard = "none" => Saves(a) /\ Alone(a)'
    BY <1>1, <1>2, OnlyOne DEF Away
  <1>5. StoreTyped'
    BY <1>1, <1>2, <1>3 DEF StoreInv, StoreTyped, Now, Doings
  <1>6. HoldInv'
    <2>1. Holds(a)'
      BY <1>1, <1>2, <1>3, NonesAssumption, PresetsAssumption
         DEF StoreInv, StoreTyped, Doings, Now, HoldInv, Holds, Connecting, Away
    <2>2. (file # Missing => file' # Missing) /\ (backup # Missing => backup' # Missing)
      BY <1>1, <1>3, NonesAssumption DEF StoreInv, HoldInv, Holds
    <2>3. QED
      BY <1>2, <2>1, <2>2, OthersHold
  <1>7. ConnectInv'
    <2>1. ASSUME hazard # "exposed", Connecting(a)' PROVE Connects(a)'
      BY <1>1, <1>2, <1>3, <1>4, <2>1, NonesAssumption
         DEF StoreInv, Now, HoldInv, Holds, Connects, LoadInv, Breaks, At, Connecting
    <2>2. QED
      BY <1>3, <1>4, <2>1 DEF ConnectInv
  <1>8. LoadInv'
    BY <1>1, <1>2, <1>3, <1>4
       DEF StoreInv, Now, HoldInv, Holds, Connects, LoadInv, Breaks, At, Connecting
  <1>9. SaveInv'
    BY <1>1, <1>2, <1>3, <1>4
       DEF Now, SaveInv, Saves, At, Alone, Away, StoreInv, HoldInv, Holds, Connecting
  <1>10. QED
    BY <1>5, <1>6, <1>7, <1>8, <1>9 DEF StoreInv

\* A connect that is alone copies a file that loads.
LEMMA CopyKeeps ==
    ASSUME StoreInv, NEW a \in Actors, Copy(a)
    PROVE  StoreInv'
  <1>1. op[a].pc = "probe"
    BY DEF Copy, At
  <1>2. Now(a, op[a].do, "open bak", op[a].data, file)
    <2> DEFINE x == [op[a] EXCEPT !.text = file, !.pc = "open bak"]
    <2>1. x \in Doings /\ x.do = op[a].do /\ x.pc = "open bak" /\ x.data = op[a].data /\ x.text = file
      BY DEF StoreInv, StoreTyped, Doings, Pcs
    <2>2. op' = [op EXCEPT ![a] = x]
      BY DEF Copy
    <2> HIDE DEF x
    <2>3. QED
      BY <2>1, <2>2, Replaced DEF StoreInv, StoreTyped
  <1>3. UNCHANGED <<file, backup, router, saved, hazard>>
    BY DEF Copy
  <1>4. /\ hazard # "exposed" =>
             /\ \A b \in Actors \ {a} : ~Connecting(b)'
             /\ Connecting(a) => Connects(a) /\ Alone(a)'
        /\ hazard = "none" => Saves(a) /\ Alone(a)'
    BY <1>1, <1>2, OnlyOne DEF Away
  <1>5. StoreTyped'
    BY <1>1, <1>2, <1>3 DEF StoreInv, StoreTyped, Now, Doings
  <1>6. HoldInv'
    <2>1. Holds(a)'
      BY <1>1, <1>2, <1>3, NonesAssumption, PresetsAssumption
         DEF StoreInv, StoreTyped, Doings, Now, HoldInv, Holds, Connecting, Away
    <2>2. (file # Missing => file' # Missing) /\ (backup # Missing => backup' # Missing)
      BY <1>1, <1>3, NonesAssumption DEF StoreInv, HoldInv, Holds
    <2>3. QED
      BY <1>2, <2>1, <2>2, OthersHold
  <1>7. ConnectInv'
    <2>1. ASSUME hazard # "exposed", Connecting(a)' PROVE Connects(a)'
      BY <1>1, <1>2, <1>3, <1>4, <2>1, NonesAssumption
         DEF StoreInv, Now, HoldInv, Holds, Connects, LoadInv, Breaks, At, Connecting
    <2>2. QED
      BY <1>3, <1>4, <2>1 DEF ConnectInv
  <1>8. LoadInv'
    BY <1>1, <1>2, <1>3, <1>4
       DEF StoreInv, Now, HoldInv, Holds, Connects, LoadInv, Breaks, At, Connecting
  <1>9. SaveInv'
    BY <1>1, <1>2, <1>3, <1>4
       DEF Now, SaveInv, Saves, At, Alone, Away, StoreInv, HoldInv, Holds, Connecting
  <1>10. QED
    BY <1>5, <1>6, <1>7, <1>8, <1>9 DEF StoreInv

\* and written with the file as it was.
LEMMA WriteBackupKeeps ==
    ASSUME StoreInv, NEW a \in Actors, WriteBackup(a)
    PROVE  StoreInv'
  <1>1. op[a].pc = "write bak"
    BY DEF WriteBackup, At
  <1>2. \E text \in ProxyFiles : text # Missing /\ Now(a, "connect", "open", Missing, text)
    <2> DEFINE text == Patched(op[a].data, op[a].set)
                x == [Idle EXCEPT !.do = "connect", !.pc = "open", !.text = text]
    <2>1. text \in ProxyFiles
      BY <1>1, Patching DEF StoreInv, StoreTyped, HoldInv, Holds
    <2>2. op' = [op EXCEPT ![a] = x]
      BY DEF WriteBackup
    <2> HIDE DEF text
    <2>3. x \in Doings /\ x.do = "connect" /\ x.pc = "open" /\ x.data = Missing /\ x.text = text
      BY <2>1, IdleDoing DEF Doings, Does, CliDoes, Pcs
    <2> HIDE DEF x
    <2>4. Now(a, "connect", "open", Missing, text)
      BY <2>2, <2>3, Replaced DEF StoreInv, StoreTyped
    <2>5. QED
      BY <2>1, <2>4, NonesAssumption
  <1>3. UNCHANGED <<file, router, saved, hazard>> /\ backup' = op[a].text
    BY DEF WriteBackup
  <1>4. /\ hazard # "exposed" =>
             /\ \A b \in Actors \ {a} : ~Connecting(b)'
             /\ Connecting(a) => Connects(a) /\ Alone(a)'
        /\ hazard = "none" => Saves(a) /\ Alone(a)'
    BY <1>1, <1>2, OnlyOne DEF Away
  <1>5. StoreTyped'
    BY <1>1, <1>2, <1>3 DEF StoreInv, StoreTyped, Now, Doings
  <1>6. HoldInv'
    <2>1. Holds(a)'
      BY <1>1, <1>2, <1>3, NonesAssumption, PresetsAssumption
         DEF StoreInv, StoreTyped, Doings, Now, HoldInv, Holds, Connecting, Away
    <2>2. (file # Missing => file' # Missing) /\ (backup # Missing => backup' # Missing)
      BY <1>1, <1>3, NonesAssumption DEF StoreInv, HoldInv, Holds
    <2>3. QED
      BY <1>2, <2>1, <2>2, OthersHold
  <1>7. ConnectInv'
    <2>1. ASSUME hazard # "exposed", Connecting(a)' PROVE Connects(a)'
      BY <1>1, <1>2, <1>3, <1>4, <2>1, NonesAssumption
         DEF StoreInv, Now, HoldInv, Holds, Connects, LoadInv, Breaks, At, Connecting
    <2>2. QED
      BY <1>3, <1>4, <2>1 DEF ConnectInv
  <1>8. LoadInv'
    BY <1>1, <1>2, <1>3, <1>4
       DEF StoreInv, Now, HoldInv, Holds, Connects, LoadInv, Breaks, At, Connecting
  <1>9. SaveInv'
    BY <1>1, <1>2, <1>3, <1>4
       DEF Now, SaveInv, Saves, At, Alone, Away, StoreInv, HoldInv, Holds, Connecting
  <1>10. QED
    BY <1>5, <1>6, <1>7, <1>8, <1>9 DEF StoreInv

\* init writes a preset, which loads.
LEMMA SecondFileKeeps ==
    ASSUME StoreInv, NEW a \in Actors, SecondFile(a)
    PROVE  StoreInv'
  <1>1. op[a].pc = "proxy"
    BY DEF SecondFile, At
  <1>2. \/ \E text \in Presets : Now(a, op[a].do, "open", op[a].data, text)
        \/ Now(a, "none", "idle", Missing, Missing)
    <2>1. CASE file = Missing \/ op[a].force
      <3>1. PICK text \in Presets : op' = [op EXCEPT ![a].text = text, ![a].pc = "open"]
        BY <2>1 DEF SecondFile
      <3> DEFINE x == [op[a] EXCEPT !.text = text, !.pc = "open"]
      <3>2. x \in Doings /\ x.do = op[a].do /\ x.pc = "open" /\ x.data = op[a].data /\ x.text = text
        BY PresetsAssumption DEF StoreInv, StoreTyped, Doings, Pcs
      <3>3. op' = [op EXCEPT ![a] = x]
        BY <3>1
      <3> HIDE DEF x
      <3>4. QED
        BY <3>2, <3>3, Replaced DEF StoreInv, StoreTyped
    <2>2. CASE ~(file = Missing \/ op[a].force)
      BY <2>2, Ends DEF StoreInv, StoreTyped, SecondFile, Finish
    <2>3. QED
      BY <2>1, <2>2
  <1>3. UNCHANGED <<file, backup, router, hazard>> /\ (hazard = "none" => saved' = saved)
    BY DEF SecondFile, Finish
  <1>4. /\ hazard # "exposed" =>
             /\ \A b \in Actors \ {a} : ~Connecting(b)'
             /\ Connecting(a) => Connects(a) /\ Alone(a)'
        /\ hazard = "none" => Saves(a) /\ Alone(a)'
    BY <1>1, <1>2, OnlyOne DEF Away
  <1>5. StoreTyped'
    BY <1>1, <1>2, <1>3 DEF StoreInv, StoreTyped, Now, Doings
  <1>6. HoldInv'
    <2>1. Holds(a)'
      BY <1>1, <1>2, <1>3, NonesAssumption, PresetsAssumption
         DEF StoreInv, StoreTyped, Doings, Now, HoldInv, Holds, Connecting, Away
    <2>2. (file # Missing => file' # Missing) /\ (backup # Missing => backup' # Missing)
      BY <1>1, <1>3, NonesAssumption DEF StoreInv, HoldInv, Holds
    <2>3. QED
      BY <1>2, <2>1, <2>2, OthersHold
  <1>7. ConnectInv'
    <2>1. ASSUME hazard # "exposed", Connecting(a)' PROVE Connects(a)'
      BY <1>1, <1>2, <1>3, <1>4, <2>1, NonesAssumption
         DEF StoreInv, Now, HoldInv, Holds, Connects, LoadInv, Breaks, At, Connecting
    <2>2. QED
      BY <1>3, <1>4, <2>1 DEF ConnectInv
  <1>8. LoadInv'
    BY <1>1, <1>2, <1>3, <1>4
       DEF StoreInv, Now, HoldInv, Holds, Connects, LoadInv, Breaks, At, Connecting
  <1>9. SaveInv'
    BY <1>1, <1>2, <1>3, <1>4
       DEF Now, SaveInv, Saves, At, Alone, Away, StoreInv, HoldInv, Holds, Connecting
  <1>10. QED
    BY <1>5, <1>6, <1>7, <1>8, <1>9 DEF StoreInv

\* Reading starts a connect's probe, or prepares a valid text, or ends.
LEMMA ReadKeeps ==
    ASSUME StoreInv, NEW a \in Actors, Read(a)
    PROVE  StoreInv'
  <1>1. op[a].pc = "read"
    BY DEF Read, At
  <1>2. \/ /\ op[a].do = "connect" /\ file \in ProxyFiles
           /\ Now(a, op[a].do, "probe", file, op[a].text)
        \/ /\ op[a].do # "connect"
           /\ \E text \in Valid : Now(a, op[a].do, "open", Missing, text)
        \/ Now(a, "none", "idle", Missing, Missing)
    <2> DEFINE text == Patched(file, op[a].set)
    <2>1. CASE op[a].do = "connect" /\ Readable(file)
      <3> DEFINE x == [op[a] EXCEPT !.data = file, !.pc = "probe"]
      <3>1. file \in ProxyFiles
        BY <2>1 DEF Readable
      <3>2. x \in Doings /\ x.do = op[a].do /\ x.pc = "probe" /\ x.data = file /\ x.text = op[a].text
        BY <3>1 DEF StoreInv, StoreTyped, Doings, Pcs
      <3>3. op' = [op EXCEPT ![a] = x]
        BY <2>1 DEF Read
      <3> HIDE DEF x
      <3>4. QED
        BY <2>1, <3>1, <3>2, <3>3, Replaced DEF StoreInv, StoreTyped
    <2>2. CASE op[a].do # "connect" /\ Readable(file) /\ Loads(text)
      <3> DEFINE x == [Idle EXCEPT !.do = op[a].do, !.text = text, !.pc = "open"]
      <3>1. text \in Valid /\ text \in ProxyFiles
        BY <2>2, PresetsAssumption DEF Loads
      <3>2. op' = [op EXCEPT ![a] = x]
        BY <2>2, Zenon DEF Read
      <3> HIDE DEF text
      <3>3. x \in Doings /\ x.do = op[a].do /\ x.pc = "open" /\ x.data = Missing /\ x.text = text
        BY <3>1, IdleDoing DEF StoreInv, StoreTyped, Doings, Pcs
      <3> HIDE DEF x
      <3>4. Now(a, op[a].do, "open", Missing, text)
        BY <3>2, <3>3, Replaced DEF StoreInv, StoreTyped
      <3>5. QED
        BY <2>2, <3>1, <3>4
    <2>3. CASE ~(op[a].do = "connect" /\ Readable(file)) /\ ~(Readable(file) /\ Loads(text))
      BY <2>3, Ends DEF StoreInv, StoreTyped, Read, Finish
    <2>4. QED
      BY <2>1, <2>2, <2>3
  <1>3. UNCHANGED <<file, backup, router, hazard>> /\ (hazard = "none" => saved' = saved)
    BY DEF Read, Finish
  <1>4. /\ hazard # "exposed" =>
             /\ \A b \in Actors \ {a} : ~Connecting(b)'
             /\ Connecting(a) => Connects(a) /\ Alone(a)'
        /\ hazard = "none" => Saves(a) /\ Alone(a)'
    BY <1>1, <1>2, OnlyOne DEF Away
  <1>5. StoreTyped'
    BY <1>1, <1>2, <1>3 DEF StoreInv, StoreTyped, Now, Doings
  <1>6. HoldInv'
    <2>1. Holds(a)'
      BY <1>1, <1>2, <1>3, NonesAssumption, PresetsAssumption
         DEF StoreInv, StoreTyped, Doings, Now, HoldInv, Holds, Connecting, Away
    <2>2. (file # Missing => file' # Missing) /\ (backup # Missing => backup' # Missing)
      BY <1>1, <1>3, NonesAssumption DEF StoreInv, HoldInv, Holds
    <2>3. QED
      BY <1>2, <2>1, <2>2, OthersHold
  <1>7. ConnectInv'
    <2>1. ASSUME hazard # "exposed", Connecting(a)' PROVE Connects(a)'
      BY <1>1, <1>2, <1>3, <1>4, <2>1, NonesAssumption
         DEF StoreInv, Now, HoldInv, Holds, Connects, LoadInv, Breaks, At, Connecting
    <2>2. QED
      BY <1>3, <1>4, <2>1 DEF ConnectInv
  <1>8. LoadInv'
    BY <1>1, <1>2, <1>3, <1>4
       DEF StoreInv, Now, HoldInv, Holds, Connects, LoadInv, Breaks, At, Connecting
  <1>9. SaveInv'
    BY <1>1, <1>2, <1>3, <1>4
       DEF Now, SaveInv, Saves, At, Alone, Away, StoreInv, HoldInv, Holds, Connecting
  <1>10. QED
    BY <1>5, <1>6, <1>7, <1>8, <1>9 DEF StoreInv

\* Only a connect meets a file that does not load, and goes to restore it.
LEMMA ReloadKeeps ==
    ASSUME StoreInv, NEW a \in Actors, Reload(a)
    PROVE  StoreInv'
  <1>1. op[a].pc = "reload"
    BY DEF Reload, At
  <1>2. \/ /\ file \in Valid \/ op[a].do = "init"
           /\ Now(a, "none", "idle", Missing, Missing)
           /\ hazard = "none" => saved' = op[a].text
        \/ /\ file \notin Valid /\ op[a].do = "connect" /\ saved' = saved
           /\ Now(a, "restore", "open", op[a].data, backup)
        \/ /\ file \notin Valid /\ op[a].do # "connect"
           /\ Now(a, "none", "idle", Missing, Missing)
           /\ hazard = "none" => saved' = saved
    <2>1. CASE Loads(file) \/ op[a].do = "init"
      BY <2>1, Ends DEF StoreInv, StoreTyped, Reload, Finish, Loads
    <2>2. CASE ~Loads(file) /\ op[a].do = "connect"
      <3> DEFINE x == [op[a] EXCEPT !.do = "restore", !.text = backup, !.pc = "open"]
      <3>1. x \in Doings /\ x.do = "restore" /\ x.pc = "open" /\ x.data = op[a].data /\ x.text = backup
        <4>1. op[a] \in Doings /\ [op[a] EXCEPT !.text = backup] \in Doings
          BY DEF StoreInv, StoreTyped, Doings
        <4>2. "restore" \in Does /\ "open" \in Pcs
          BY DEF Does, Pcs
        <4>3. QED
          BY <4>1, <4>2 DEF Doings
      <3>2. op' = [op EXCEPT ![a] = x]
        BY <2>2 DEF Reload
      <3> HIDE DEF x
      <3>3. Now(a, "restore", "open", op[a].data, backup)
        BY <3>1, <3>2, Replaced DEF StoreInv, StoreTyped
      <3>4. QED
        BY <2>2, <3>3 DEF Reload, Loads
    <2>3. CASE ~Loads(file) /\ op[a].do \notin {"connect", "init"}
      BY <2>3, Ends DEF StoreInv, StoreTyped, Reload, Finish, Loads
    <2>4. QED
      BY <2>1, <2>2, <2>3
  <1>3. UNCHANGED <<file, backup, router, hazard>>
    BY DEF Reload
  <1>4. /\ hazard # "exposed" =>
             /\ \A b \in Actors \ {a} : ~Connecting(b)'
             /\ Connecting(a) => Connects(a) /\ Alone(a)'
        /\ hazard = "none" => Saves(a) /\ Alone(a)'
    BY <1>1, <1>2, OnlyOne DEF Away
  <1>5. StoreTyped'
    BY <1>1, <1>2, <1>3 DEF StoreInv, StoreTyped, Now, Doings
  <1>6. HoldInv'
    <2>1. Holds(a)'
      BY <1>1, <1>2, <1>3, NonesAssumption, PresetsAssumption
         DEF StoreInv, Now, HoldInv, Holds, Connecting, Away
    <2>2. (file # Missing => file' # Missing) /\ (backup # Missing => backup' # Missing)
      BY <1>3
    <2>3. QED
      BY <1>2, <2>1, <2>2, OthersHold
  <1>7. ConnectInv'
    <2>1. ASSUME hazard # "exposed", Connecting(a)' PROVE Connects(a)'
      BY <1>1, <1>2, <1>3, <1>4, <2>1, NonesAssumption
         DEF StoreInv, Now, HoldInv, Holds, Connects, LoadInv, Breaks, At, Connecting
    <2>2. QED
      BY <1>3, <1>4, <2>1 DEF ConnectInv
  <1>8. LoadInv'
    BY <1>1, <1>2, <1>3, <1>4
       DEF StoreInv, Now, HoldInv, Holds, Connects, LoadInv, Breaks, At, Connecting
  <1>9. SaveInv'
    BY <1>1, <1>2, <1>3, <1>4
       DEF Now, SaveInv, Saves, At, Alone, Away, StoreInv, HoldInv, Holds, Connecting
  <1>10. QED
    BY <1>5, <1>6, <1>7, <1>8, <1>9 DEF StoreInv

-----------------------------------------------------------------------------
\* An actor that is not at the files and does not come to them disturbs nothing.
LEMMA StaysAway ==
    ASSUME StoreInv, NEW a \in Actors, op[a].pc \in Away, NEW do \in Does, NEW pc \in Away,
           do \notin {"connect", "restore"}, NEW data, NEW text, Now(a, do, pc, data, text),
           UNCHANGED <<file, backup, router, hazard>>, hazard = "none" => saved' = saved
    PROVE  StoreInv'
  <1>1. StoreTyped'
    BY DEF StoreInv, StoreTyped, Now
  <1>2. \A b \in Actors : op'[b].pc \in Away <=> op[b].pc \in Away
    BY DEF Now
  <1>3. \A b \in Actors : Connecting(b)' <=> Connecting(b)
    BY DEF Now, StoreInv, HoldInv, Holds, Connecting
  <1>4. HoldInv'
    BY <1>3 DEF StoreInv, Now, HoldInv, Holds, Away
  <1>5. ConnectInv'
    <2> SUFFICES ASSUME hazard # "exposed", NEW b \in Actors, Connecting(b)' PROVE Connects(b)'
      BY DEF ConnectInv
    <2>1. Connects(b) /\ b # a
      BY <1>3 DEF StoreInv, HoldInv, Holds, ConnectInv
    <2>2. Alone(b)' /\ op'[b] = op[b]
      BY <1>2, <2>1 DEF Now, Connects, Alone
    <2>3. QED
      BY <2>1, <2>2 DEF Connects
  <1>6. LoadInv'
    BY <1>2, <1>3 DEF StoreInv, Now, HoldInv, Holds, LoadInv, Breaks, At, Connecting, Away
  <1>7. SaveInv'
    <2> SUFFICES ASSUME hazard = "none" PROVE SaveInv'
      BY DEF SaveInv
    <2>1. (\A b \in Actors : op'[b].pc \in Away) => file' = saved'
      BY <1>2 DEF StoreInv, SaveInv
    <2>2. ASSUME NEW b \in Actors, op'[b].pc \notin Away PROVE Saves(b)'
      <3>1. b # a /\ Saves(b)
        BY <1>2, <2>2 DEF StoreInv, SaveInv, Now
      <3>2. Alone(b)' /\ op'[b] = op[b]
        BY <1>2, <3>1 DEF Now, Saves, Alone
      <3>3. QED
        BY <3>1, <3>2 DEF Saves, At
    <2>3. QED
      BY <2>1, <2>2 DEF SaveInv
  <1>8. QED
    BY <1>1, <1>4, <1>5, <1>6, <1>7 DEF StoreInv

\* The end of an operation: of an idle actor it is nothing, of another one it exposes the files.
LEMMA EndOpKeeps ==
    ASSUME StoreInv, NEW a \in Actors, EndOp(a)
    PROVE  StoreInv'
  <1>1. Now(a, "none", "idle", Missing, Missing)
    BY Ends DEF StoreInv, StoreTyped, EndOp
  <1>2. UNCHANGED <<file, backup, router, saved>>
    BY DEF EndOp
  <1>3. CASE At(a, "idle")
    BY <1>1, <1>2, <1>3, StaysAway DEF EndOp, At, Away, Does
  <1>4. CASE ~At(a, "idle")
    <2>1. hazard' = "exposed"
      BY <1>4 DEF EndOp
    <2>2. StoreTyped'
      BY <1>1, <1>2 DEF StoreInv, StoreTyped, Now
    <2>3. HoldInv'
      BY <1>1, <1>2 DEF StoreInv, Now, HoldInv, Holds, Connecting, Away
    <2>4. QED
      BY <2>1, <2>2, <2>3 DEF StoreInv, ConnectInv, LoadInv, SaveInv
  <1>5. QED
    BY <1>3, <1>4

\* What an operation sets is a patch.
LEMMA Patchable ==
    ASSUME NEW do, NEW set \in Patches(do) PROVE set \in Settable
  <1>1. CASE do \in {"save", "assign", "connect"}
    <2>1. PICK t \in Settings, v \in Values : set = [s \in {t} |-> v]
      BY <1>1, SettingsAssumption DEF Patches
    <2>2. set \in [{t} -> Values] /\ {t} \in SUBSET Settings
      BY <2>1
    <2>3. QED
      BY <2>2 DEF Settable
  <1>2. CASE do \notin {"save", "assign", "connect"}
    BY <1>2, NoPatch DEF Patches
  <1>3. QED
    BY <1>1, <1>2

\* An operation that begins is at its first step.
LEMMA Begun ==
    ASSUME op \in [Actors -> Doings], NEW a \in Actors, NEW do \in ServerDoes \cup CliDoes,
           NEW force \in BOOLEAN, NEW set \in Patches(do),
           op' = [op EXCEPT ![a] = [Idle EXCEPT !.do = do, !.set = set, !.force = force,
                                                !.pc = FirstStep(do)]]
    PROVE  Now(a, do, FirstStep(do), Missing, Missing)
  <1> DEFINE x == [Idle EXCEPT !.do = do, !.set = set, !.force = force, !.pc = FirstStep(do)]
  <1>1. FirstStep(do) \in Pcs /\ do \in Does
    BY DEF FirstStep, Pcs, Does
  <1>2. x \in Doings /\ x.do = do /\ x.pc = FirstStep(do) /\ x.data = Missing /\ x.text = Missing
    BY <1>1, Patchable, IdleDoing DEF Doings
  <1>3. op' = [op EXCEPT ![a] = x]
    OBVIOUS
  <1> HIDE DEF x
  <1>4. Now(a, x.do, x.pc, x.data, x.text)
    BY <1>2, <1>3, Replaced
  <1>5. QED
    BY <1>2, <1>4

\* An operation that begins while another one runs overlaps with it.
LEMMA BeginKeeps ==
    ASSUME StoreInv, NEW a \in Actors, Begin(a)
    PROVE  StoreInv'
  <1>1. op[a].pc = "idle" /\ UNCHANGED <<file, backup, router, saved>>
    BY DEF Begin, At
  <1>2. PICK do \in ServerDoes \cup CliDoes, pc \in {"load", "read", "router"} :
          /\ Now(a, do, pc, Missing, Missing)
          /\ do = "connect" => pc = "read"
          /\ hazard' = IF Busy = {} \/ hazard = "exposed" THEN hazard
                       ELSE IF do = "connect" \/ \E b \in Busy : op[b].do \in {"connect", "restore"}
                       THEN "exposed" ELSE "overlap"
    <2> DEFINE Starts(do, force, set) ==
                 op' = [op EXCEPT ![a] = [Idle EXCEPT !.do = do, !.set = set, !.force = force,
                                                      !.pc = FirstStep(do)]]
    <2>1. PICK do \in ServerDoes \cup CliDoes, force \in BOOLEAN :
            /\ \E set \in Patches(do) : Starts(do, force, set)
            /\ hazard' = IF Busy = {} \/ hazard = "exposed" THEN hazard
                         ELSE IF do = "connect" \/ \E b \in Busy : op[b].do \in {"connect", "restore"}
                         THEN "exposed" ELSE "overlap"
      <3>1. PICK do \in IF a = Server THEN ServerDoes ELSE CliDoes, force \in BOOLEAN :
              /\ \E set \in Patches(do) : Starts(do, force, set)
              /\ hazard' = IF Busy = {} \/ hazard = "exposed" THEN hazard
                           ELSE IF do = "connect" \/ \E b \in Busy : op[b].do \in {"connect", "restore"}
                           THEN "exposed" ELSE "overlap"
        BY Zenon DEF Begin
      <3>2. do \in ServerDoes \cup CliDoes
        OBVIOUS
      <3>3. QED
        BY <3>1, <3>2, Zenon
    <2>2. Now(a, do, FirstStep(do), Missing, Missing)
      BY <2>1, Begun DEF StoreInv, StoreTyped
    <2>3. FirstStep(do) \in {"load", "read", "router"} /\ (do = "connect" => FirstStep(do) = "read")
      BY DEF FirstStep
    <2>4. QED
      BY <2>1, <2>2, <2>3
  <1>3. do # "restore"
    BY DEF ServerDoes, CliDoes
  <1>4. hazard' # "exposed" =>
          /\ hazard # "exposed"
          /\ Busy = {} \/ (do # "connect" /\ \A b \in Busy : ~Connecting(b))
    BY <1>2 DEF Connecting
  <1>5. \A b \in Actors \ Busy : op[b].pc = "idle" /\ ~Connecting(b)
    BY DEF Busy, At, StoreInv, HoldInv, Holds, Away
  <1>6. StoreTyped'
    BY <1>1, <1>2 DEF StoreInv, StoreTyped, Now
  <1>7. HoldInv'
    BY <1>1, <1>2, <1>3 DEF StoreInv, Now, HoldInv, Holds, Connecting, Away
  <1>8. ConnectInv'
    <2> SUFFICES ASSUME hazard' # "exposed", NEW b \in Actors, Connecting(b)'
                 PROVE  Connects(b)'
      BY DEF ConnectInv
    <2>1. b = a /\ do = "connect" /\ pc = "read" /\ Busy = {}
      BY <1>2, <1>3, <1>4, <1>5 DEF Now, Connecting
    <2>2. Alone(a)'
      BY <1>2, <1>5, <2>1 DEF Now, Alone, Away
    <2>3. file \in Valid \cup {Missing}
      BY <1>4, <1>5, <2>1 DEF StoreInv, LoadInv, Breaks, At, Connecting
    <2>4. QED
      BY <1>1, <1>2, <2>1, <2>2, <2>3 DEF Now, Connects
  <1>9. LoadInv'
    BY <1>1, <1>2, <1>4, <1>5 DEF StoreInv, Now, LoadInv, Breaks, At, Connecting
  <1>10. SaveInv'
    <2> SUFFICES ASSUME hazard' = "none"
                 PROVE  /\ file' = saved'
                        /\ \A b \in Actors : op'[b].pc \notin Away => Saves(b)'
      BY DEF SaveInv
    <2>1. hazard = "none" /\ Busy = {}
      BY <1>2
    <2>2. \A b \in Actors : op[b].pc \in Away
      BY <1>5, <2>1 DEF Away
    <2>3. file = saved
      BY <2>1, <2>2 DEF StoreInv, SaveInv
    <2>4. ASSUME NEW b \in Actors, op'[b].pc \notin Away PROVE Saves(b)'
      <3>1. b = a
        BY <1>2, <2>2, <2>4 DEF Now
      <3>2. Alone(a)'
        BY <1>2, <2>2 DEF Now, Alone
      <3>3. QED
        BY <1>1, <1>2, <1>3, <2>3, <3>1, <3>2 DEF Now, Saves, At
    <2>5. QED
      BY <1>1, <2>3, <2>4
  <1>11. QED
    BY <1>6, <1>7, <1>8, <1>9, <1>10 DEF StoreInv

-----------------------------------------------------------------------------
\* Every step at the files keeps the files' invariant.
LEMMA StoreStepKeeps ==
    ASSUME StoreInv, NEW a \in Actors, Begin(a) \/ StoreStep(a) \/ EndOp(a)
    PROVE  StoreInv'
  <1>1. CASE WriteFails(a)
    BY <1>1, EndOpKeeps DEF WriteFails
  <1>2. QED
    BY <1>1, BeginKeeps, EndOpKeeps, LoadKeeps, ReadKeeps, GiveUpKeeps, CopyKeeps, OpenBackupKeeps,
       WriteBackupKeeps, OpenKeeps, WriteKeeps, ReloadKeeps, KeepRouterKeeps, OpenRouterKeeps,
       WriteRouterKeeps, SecondFileKeeps DEF StoreStep

\* The supervisor's actions leave the files alone.
LEMMA ControlKeeps ==
    ASSUME StoreInv, Control
    PROVE  StoreInv'
  <1>1. Server \in Actors /\ op \in [Actors -> Doings]
    BY DEF Actors, StoreInv, StoreTyped
  <1>2. op[Server].pc \in Away /\ UNCHANGED <<file, backup, router, hazard>>
    BY DEF Control, BeginControl, StartsNothing, StartProxy, StartFails, StopProxy, Stopped,
           KillProxy, StopRaises, Quiet, At, Away
  <1>3. hazard = "none" => saved' = saved
    BY DEF Control, BeginControl, StartsNothing, StartProxy, StartFails, StopProxy, Stopped,
           KillProxy, StopRaises, Finish
  <1>4. op[Server].do \in Does /\ op[Server].do \notin {"connect", "restore"}
    BY <1>1, <1>2 DEF StoreInv, HoldInv, Holds, Connecting, Doings
  <1>5. CASE BeginControl
    <2>1. PICK do \in {"start", "stop", "restart"} :
            op' = [op EXCEPT ![Server] = [Idle EXCEPT !.do = do,
                                            !.pc = IF do = "start" THEN "start" ELSE "stop"]]
      BY <1>5 DEF BeginControl
    <2> DEFINE pc == IF do = "start" THEN "start" ELSE "stop"
               x == [Idle EXCEPT !.do = do, !.pc = pc]
    <2>2. x \in Doings /\ x.do = do /\ x.pc = pc
      BY IdleDoing DEF Doings, Does, Pcs
    <2>3. op' = [op EXCEPT ![Server] = x]
      BY <2>1
    <2>4. do \in Does /\ do \notin {"connect", "restore"} /\ pc \in Away
      BY DEF Does, Away
    <2> HIDE DEF x, pc
    <2>5. Now(Server, do, pc, x.data, x.text)
      BY <1>1, <2>2, <2>3, Replaced
    <2>6. QED
      BY <1>1, <1>2, <1>3, <2>4, <2>5, StaysAway
  <1>6. CASE \E pc \in {"start", "wait", "wait killed"} : Go(Server, pc)
    <2>1. PICK pc \in {"start", "wait", "wait killed"} : Go(Server, pc)
      BY <1>6
    <2>2. pc \in Away /\ pc \in Pcs
      BY DEF Away, Pcs
    <2>3. QED
      BY <1>1, <1>2, <1>3, <1>4, <2>1, <2>2, Goes, StaysAway
  <1>7. CASE op' = [op EXCEPT ![Server] = Idle]
    <2>1. Now(Server, "none", "idle", Missing, Missing)
      BY <1>1, <1>7, Ends
    <2>2. QED
      BY <1>1, <1>2, <1>3, <2>1, StaysAway DEF Does, Away
  <1>8. QED
    BY <1>5, <1>6, <1>7 DEF Control, StartsNothing, StartProxy, StartFails, StopProxy, Stopped,
                            KillProxy, StopRaises, Finish, AfterStop

-----------------------------------------------------------------------------
(* The proxies.                                                            *)

States == {"gone", "loading", "bind", "up", "closing", "killed"}
Proxy == [st : States, conf : ProxyFiles \cup {Missing}, kids : BOOLEAN]

\* Which configuration a proxy has loaded, from when it has until it is killed.
Loaded(p) == proxies[p].st \in {"bind", "up", "closing"}

ProxyTyped == proxies \in [Procs -> Proxy] /\ child \in Procs \cup {NoProc}
LoadedValid == \A p \in Procs : Loaded(p) => proxies[p].conf \in Valid
LoadedFresh == ~lost /\ fresh => \A p \in Procs : Loaded(p) => proxies[p].conf = file

ProxyInv == ProxyTyped /\ NoStrayProxy /\ LoadedValid /\ LoadedFresh

\* One proxy moves, and does not come to life.
LEMMA MoveKeeps ==
    ASSUME ProxyInv, NEW p \in Procs, NEW x \in Proxy, Living(p),
           proxies' = [proxies EXCEPT ![p] = x], UNCHANGED <<child, fresh, lost, file>>,
           x.st \in {"bind", "up", "closing"} =>
             x.conf \in Valid /\ (x.conf = file \/ (Loaded(p) /\ x.conf = proxies[p].conf))
    PROVE  ProxyInv'
  <1>1. ProxyTyped'
    BY DEF ProxyInv, ProxyTyped
  <1>2. NoStrayProxy'
    BY DEF ProxyInv, ProxyTyped, NoStrayProxy, Living
  <1>3. LoadedValid'
    BY DEF ProxyInv, ProxyTyped, LoadedValid, Loaded
  <1>4. LoadedFresh'
    BY DEF ProxyInv, ProxyTyped, LoadedFresh, Loaded
  <1>5. QED
    BY <1>1, <1>2, <1>3, <1>4 DEF ProxyInv

\* A proxy that is gone is well typed.
LEMMA DeadProxy == Dead \in Proxy /\ Dead.st = "gone"
  BY DEF Dead, Proxy, States

\* No step of a proxy disturbs the proxies' invariant.
LEMMA ProxyStepKeeps ==
    ASSUME ProxyInv, NEW p \in Procs, ProxyStep(p)
    PROVE  ProxyInv'
  <1> DEFINE q == proxies[p]
  <1>1. q \in Proxy /\ UNCHANGED <<child, fresh, lost, file>> /\ Living(p)
    BY DEF ProxyInv, ProxyTyped, Living, ProxyStep, LoadConfig, Bind, StartRuntime, ShutDown, Die,
           Fails, Rest, svars
  <1>2. CASE proxies' = [proxies EXCEPT ![p] = Dead]
    BY <1>1, <1>2, DeadProxy, MoveKeeps
  <1>3. CASE LoadConfig(p) /\ Loads(file)
    <2> DEFINE x == [q EXCEPT !.st = "bind", !.conf = file]
    <2>1. proxies' = [proxies EXCEPT ![p] = x]
      BY <1>3 DEF LoadConfig
    <2>2. x \in Proxy /\ x.st = "bind" /\ x.conf = file
      BY <1>1, <1>3, PresetsAssumption DEF Proxy, States, Loads
    <2> HIDE DEF x
    <2>3. x.conf \in Valid
      BY <1>3, <2>2 DEF Loads
    <2>4. QED
      BY <1>1, <2>1, <2>2, <2>3, MoveKeeps
  <1>4. CASE Bind(p) /\ proxies' # [proxies EXCEPT ![p] = Dead]
    <2> DEFINE x == [q EXCEPT !.st = "up"]
    <2>1. proxies' = [proxies EXCEPT ![p] = x] /\ q.st = "bind"
      BY <1>4 DEF Bind
    <2>2. x \in Proxy /\ x.st = "up" /\ x.conf = q.conf
      BY <1>1 DEF Proxy, States
    <2> HIDE DEF x
    <2>3. QED
      BY <1>1, <2>1, <2>2, MoveKeeps DEF ProxyInv, LoadedValid, Loaded
  <1>5. CASE StartRuntime(p)
    <2> DEFINE x == [q EXCEPT !.kids = TRUE]
    <2>1. proxies' = [proxies EXCEPT ![p] = x] /\ q.st = "up"
      BY <1>5 DEF StartRuntime
    <2>2. x \in Proxy /\ x.st = q.st /\ x.conf = q.conf
      BY <1>1 DEF Proxy, States
    <2> HIDE DEF x
    <2>3. QED
      BY <1>1, <2>1, <2>2, MoveKeeps DEF ProxyInv, LoadedValid, Loaded
  <1>6. QED
    BY <1>2, <1>3, <1>4, <1>5 DEF ProxyStep, LoadConfig, ShutDown, Die, Fails

\* What the supervisor does to its child.
LEMMA SupervisorKeeps ==
    ASSUME ProxyInv, Control
    PROVE  ProxyInv'
  <1>1. UNCHANGED <<lost, file>>
    BY DEF Control, BeginControl, StartsNothing, StartProxy, StartFails, StopProxy, Stopped,
           KillProxy, StopRaises, Quiet, pvars
  <1>2. CASE UNCHANGED pvars
    BY <1>1, <1>2
       DEF ProxyInv, ProxyTyped, NoStrayProxy, Living, LoadedValid, LoadedFresh, Loaded, pvars
  <1>3. CASE StartProxy
    <2>1. PICK p \in Procs : proxies' = [proxies EXCEPT ![p].st = "loading"] /\ child' = p
      BY <1>3 DEF StartProxy
    <2>2. ~Living(child) /\ fresh' = ~lost
      BY <1>3 DEF StartProxy
    <2> DEFINE x == [proxies[p] EXCEPT !.st = "loading"]
    <2>3. proxies' = [proxies EXCEPT ![p] = x]
      BY <2>1
    <2>4. x \in Proxy /\ x.st = "loading"
      BY DEF ProxyInv, ProxyTyped, Proxy, States
    <2> HIDE DEF x
    <2>5. \A r \in Procs : proxies'[r] = IF r = p THEN x ELSE proxies[r]
      BY <2>3 DEF ProxyInv, ProxyTyped
    <2>6. ~lost => \A r \in Procs : ~Living(r)
      BY <2>2 DEF ProxyInv, NoStrayProxy
    <2>7. ProxyTyped'
      BY <2>1, <2>3, <2>4 DEF ProxyInv, ProxyTyped
    <2>8. NoStrayProxy'
      BY <1>1, <2>1, <2>5, <2>6 DEF NoStrayProxy, Living
    <2>9. LoadedValid'
      BY <2>4, <2>5 DEF ProxyInv, LoadedValid, Loaded
    <2>10. LoadedFresh'
      BY <1>1, <2>4, <2>5, <2>6 DEF LoadedFresh, Loaded, Living
    <2>11. QED
      BY <2>7, <2>8, <2>9, <2>10 DEF ProxyInv
  <1>4. CASE StopProxy
    <2>1. child \in Procs /\ Living(child) /\ UNCHANGED <<child, fresh>>
      BY <1>4 DEF StopProxy, Living
    <2> DEFINE q == proxies[child]
               x == Signalled(q)
    <2>2. proxies' = [proxies EXCEPT ![child] = x]
      BY <1>4 DEF StopProxy
    <2>3. q \in Proxy
      BY <2>1 DEF ProxyInv, ProxyTyped
    <2>4. x \in Proxy /\ (x.st \in {"bind", "up", "closing"} => Loaded(child) /\ x.conf = q.conf)
      BY <2>3, DeadProxy DEF Signalled, Proxy, States, Loaded
    <2> HIDE DEF x
    <2>5. QED
      BY <1>1, <2>1, <2>2, <2>4, MoveKeeps DEF ProxyInv, LoadedValid
  <1>5. CASE KillProxy
    <2>1. child \in Procs /\ Living(child) /\ UNCHANGED <<child, fresh>>
      BY <1>5 DEF KillProxy, Living
    <2> DEFINE x == [proxies[child] EXCEPT !.st = "killed"]
    <2>2. proxies' = [proxies EXCEPT ![child] = x]
      BY <1>5 DEF KillProxy
    <2>3. x \in Proxy /\ x.st = "killed"
      BY <2>1 DEF ProxyInv, ProxyTyped, Proxy, States
    <2> HIDE DEF x
    <2>4. QED
      BY <1>1, <2>1, <2>2, <2>3, MoveKeeps
  <1>6. QED
    BY <1>2, <1>3, <1>4, <1>5
       DEF Control, BeginControl, StartsNothing, StartFails, Stopped, StopRaises

\* A step at the files makes what the proxies have loaded stale.
LEMMA EditKeeps ==
    ASSUME ProxyInv, NEW a \in Actors, Edit(a)
    PROVE  ProxyInv'
  BY DEF Edit, ProxyInv, ProxyTyped, NoStrayProxy, Living, LoadedValid, LoadedFresh, Loaded

\* After the end of a settings server nothing is said of the child any more.
LEMMA CrashKeeps ==
    ASSUME ProxyInv, NEW a \in Actors, Crash(a)
    PROVE  ProxyInv'
  BY DEF Crash, EndOp, ProxyInv, ProxyTyped, NoStrayProxy, Living, LoadedValid, LoadedFresh, Loaded
-----------------------------------------------------------------------------
Inv == StoreInv /\ ProxyInv

\* The invariant holds at first,
LEMMA InitInv == Init => Inv
  <1> SUFFICES ASSUME Init PROVE Inv
    OBVIOUS
  <1>1. \A a \in Actors : op[a] = Idle
    BY DEF Init, StoreInit
  <1>2. StoreTyped
    BY IdleDoing, PresetsAssumption DEF Init, StoreInit, StoreTyped
  <1>3. HoldInv
    BY <1>1, IdleDoing DEF HoldInv, Holds, Connecting, Away
  <1>4. ConnectInv /\ LoadInv /\ SaveInv
    BY <1>1, IdleDoing DEF Init, StoreInit, ConnectInv, Connecting, LoadInv, SaveInv, Away
  <1>5. ProxyInv
    BY DeadProxy
       DEF Init, ProxyInv, ProxyTyped, NoStrayProxy, Living, LoadedValid, LoadedFresh, Loaded
  <1>6. QED
    BY <1>2, <1>3, <1>4, <1>5 DEF Inv, StoreInv

\* and every step keeps it.
LEMMA NextInv == Inv /\ [Next]_vars => Inv'
  <1> SUFFICES ASSUME Inv, [Next]_vars PROVE Inv'
    OBVIOUS
  <1>1. ASSUME NEW a \in Actors, Edit(a) PROVE Inv'
    BY <1>1, StoreStepKeeps, EditKeeps DEF Inv, Edit
  <1>2. ASSUME NEW a \in Actors, Crash(a) PROVE Inv'
    BY <1>2, StoreStepKeeps, CrashKeeps DEF Inv, Crash
  <1>3. CASE Control
    BY <1>3, ControlKeeps, SupervisorKeeps DEF Inv
  <1>4. ASSUME UNCHANGED svars PROVE StoreInv'
    <2>1. StoreTyped' /\ HoldInv'
      BY <1>4 DEF svars, Inv, StoreInv, StoreTyped, HoldInv, Holds, Connecting
    <2>2. ConnectInv'
      BY <1>4 DEF svars, Inv, StoreInv, ConnectInv, Connects, Alone, Connecting
    <2>3. LoadInv'
      BY <1>4 DEF svars, Inv, StoreInv, LoadInv, Breaks, At
    <2>4. SaveInv'
      BY <1>4 DEF svars, Inv, StoreInv, SaveInv, Saves, Alone, At
    <2>5. QED
      BY <2>1, <2>2, <2>3, <2>4 DEF StoreInv
  <1>5. ASSUME NEW p \in Procs, ProxyStep(p) PROVE Inv'
    <2>1. UNCHANGED svars
      BY <1>5 DEF ProxyStep, LoadConfig, Bind, StartRuntime, ShutDown, Die, Fails, Rest
    <2>2. QED
      BY <1>4, <1>5, <2>1, ProxyStepKeeps DEF Inv
  <1>6. CASE UNCHANGED vars
    BY <1>4, <1>6
       DEF Inv, vars, pvars, svars, ProxyInv, ProxyTyped, NoStrayProxy, Living, LoadedValid,
                      LoadedFresh, Loaded
  <1>7. QED
    BY <1>1, <1>2, <1>3, <1>5, <1>6 DEF Next

\* The invariant is one: it holds in every state of every behaviour.
LEMMA InvHolds == Spec => []Inv
  BY InitInv, NextInv, PTL DEF Spec

\* The files, the actors' texts and the proxies' configurations are of their types: no
\* write is without a text, and no proxy runs a configuration that does not load.
THEOREM FilesWellTyped == Spec => []TypeOK
  <1>1. Inv => TypeOK
    BY
       DEF Inv, StoreInv, StoreTyped, HoldInv, Holds, Doings, ProxyInv, ProxyTyped, LoadedValid,
           Loaded,
           TypeOK, At
  <1>2. QED
    BY <1>1, InvHolds, PTL

\* While no two operations overlap and no process ends within one, the file says what
\* was reported as saved.
THEOREM SavedSettingsStay == Spec => []SavedStays
  <1>1. Inv => SavedStays
    BY DEF Inv, StoreInv, SaveInv, SavedStays, Busy, At, Away
  <1>2. QED
    BY <1>1, InvHolds, PTL

\* A file that is there loads, unless a write or a connect is under way or two operations
\* met of which one was a connect.
THEOREM EveryFileLoads == Spec => []FileLoads
  <1>1. Inv => FileLoads
    BY DEF Inv, StoreInv, LoadInv, Breaks, FileLoads, At, Loads
  <1>2. QED
    BY <1>1, InvHolds, PTL

\* No start and no restart, failed or not, leaves two proxies of one settings server.
THEOREM OneProxyOnly == Spec => []NoStrayProxy
  <1>1. Inv => NoStrayProxy
    BY DEF Inv, ProxyInv
  <1>2. QED
    BY <1>1, InvHolds, PTL

\* A proxy that listens after a restart that went through has the configuration as it is.
THEOREM RestartsTakeEffect == Spec => []RestartTakesEffect
  <1>1. Inv => RestartTakesEffect
    BY DEF Inv, ProxyInv, LoadedFresh, Loaded, RestartTakesEffect, Listening
  <1>2. QED
    BY <1>1, InvHolds, PTL
=============================================================================
