----------------------------- MODULE DvfsProofs -----------------------------
(***************************************************************************)
(* The limit on frequency scaling, for any number of writers of            *)
(* dvfslock_ctrl, drivers and levels, although no lock protects the table: *)
(* a limit set through the file ends, and a single writer leaves nothing   *)
(* behind.                                                                 *)
(***************************************************************************)
EXTENDS Dvfs, TLAPS

Range0 == 0 .. MAX_PERF_LEVEL

Places == {"idle", "parsed", "zero", "number", "reading", "schedule", "clear", "lock", "lock_load",
           "lock_store", "lock_value", "lock_compare", "lock_limit", "locked", "unlock",
           "unlock_store", "unlock_value", "unlock_limit", "unlock_any", "unlock_loop",
           "unlock_lower", "unlocked"}

TaskRecords == [at : Places, level : Range0, word : SUBSET Tokens, left : SUBSET Tokens]

\* Where the work queue thread can be.
WorkPlaces == {"idle", "clear", "unlock", "unlock_store", "unlock_value", "unlock_limit",
               "unlock_any", "unlock_loop", "unlock_lower", "unlocked"}

DvfsTypeInv ==
    /\ gdDvfsctrl \in Range0
    /\ dvfsctrl_locked \in BOOLEAN
    /\ pending \in BOOLEAN
    /\ token \in SUBSET Tokens
    /\ lockval \in [Tokens -> Range0]
    /\ limit \in Range0
    /\ task \in [Tasks -> TaskRecords]
    /\ task[Work].at \in WorkPlaces

LEMMA LevelFacts == MAX_PERF_LEVEL \in Nat /\ 0 \in Range0 /\ MAX_PERF_LEVEL \in Range0
                    /\ \A l \in Levels : l \in Range0 /\ Level(l) \in Range0
BY LevelAssumption DEF Range0, Level

\* One task goes from one place to another.
Moves(t, from, to) ==
    /\ task[t].at = from /\ task'[t].at = to
    /\ \A u \in Tasks \ {t} : task'[u] = task[u]

LockPlaces == {"lock", "lock_load", "lock_value", "lock_compare", "lock_limit"}

LEMMA GoesMoves ==
    ASSUME DvfsTypeInv, NEW t \in Tasks, NEW from, NEW to \in Places, Goes(t, from, to)
    PROVE  /\ Moves(t, from, to) /\ task' \in [Tasks -> TaskRecords]
           /\ task'[t].word = {} /\ task'[t].left = {}
           /\ to \in LockPlaces => task'[t].level = task[t].level
<1> DEFINE r == [Idle EXCEPT !.at = to, !.level = IF to \in LockPlaces THEN task[t].level ELSE 0]
<1>1. task' = [task EXCEPT ![t] = r] /\ task[t].at = from
    BY DEF Goes, LockPlaces
<1>2. task[t] \in TaskRecords
    BY DEF DvfsTypeInv
<1>3. /\ r \in TaskRecords /\ r.at = to /\ r.word = {} /\ r.left = {}
      /\ r.level = IF to \in LockPlaces THEN task[t].level ELSE 0
    BY <1>2, LevelFacts DEF Idle, TaskRecords
<1> HIDE DEF r
<1>4. task'[t] = r
    BY <1>1 DEF DvfsTypeInv
<1> QED
    BY <1>1, <1>3, <1>4 DEF DvfsTypeInv, Moves

(***************************************************************************)
(* EndIsComing is not inductive: that the file counts as locked must lead  *)
(* to the work by itself, because the value may be put back by a write of  *)
(* 0 before ctrl_locked sets the flag.                                     *)
(***************************************************************************)
TakingPlaces == {"lock", "lock_load", "lock_store", "lock_value", "lock_compare", "lock_limit",
                 "locked", "schedule"}
UndoingPlaces == {"clear", "unlock", "unlock_store", "unlock_value"}

EndInv ==
    /\ dvfsctrl_locked => pending \/ task[Work].at = "clear"
                          \/ \E w \in Writers : task[w].at = "schedule"
    /\ lockval["sysfs"] # MAX_PERF_LEVEL =>
          pending \/ task[Work].at \in UndoingPlaces \/ \E w \in Writers : task[w].at \in TakingPlaces

(***************************************************************************)
(* A single writer w beside the work.  Each of the token, the value and    *)
(* the limit leads to the work until the work has put it back; the writer  *)
(* itself never finds a value when it looks for the next limit, but the    *)
(* work may find the value of a writer that has come since.                *)
(***************************************************************************)
Alone(w) ==
    /\ \A t \in Tasks \ {w, Work} : task[t].at = "idle"
    /\ lockval["driver"] = MAX_PERF_LEVEL
    /\ token \subseteq {"sysfs"}
    /\ \A t \in {w, Work} : /\ task[t].word \subseteq {"sysfs"}
                            /\ task[t].at = "unlock_store" => task[t].word = {}
    /\ "sysfs" \in token =>
          pending \/ task[w].at \in TakingPlaces \/ task[Work].at \in UndoingPlaces \ {"unlock_value"}
    /\ limit # MAX_PERF_LEVEL =>
          pending \/ task[w].at \in TakingPlaces \/ task[Work].at \in UndoingPlaces \cup {"unlock_limit"}
    /\ task[Work].at = "unlock_lower" => pending \/ task[w].at \in TakingPlaces
    /\ task[w].at \in {"unlock_limit", "unlock_any", "unlock_loop"} =>
          lockval["sysfs"] = MAX_PERF_LEVEL
    /\ task[w].at # "unlock_lower"

SingleInv == \A w \in Writers : users = {w} => Alone(w)

DvfsInv == DvfsTypeInv /\ EndInv /\ SingleInv

\* The tokens and tasks are distinct.
LEMMA TaskFacts ==
    /\ Work \in Tasks /\ Writers \subseteq Tasks /\ Work \notin Writers /\ Drivers \subseteq Tasks
    /\ \A t \in Writers \cup {Work} : t \notin Drivers /\ TokenOf(t) = "sysfs"
    /\ \A t \in Drivers : TokenOf(t) = "driver"
    /\ "sysfs" \in Tokens /\ "driver" \in Tokens /\ \A t \in Tasks : TokenOf(t) \in Tokens
BY TaskAssumption DEF Tasks, TokenOf, Tokens

(***************************************************************************)
(* A task that is not idle is a writer with the interface to itself, or    *)
(* the work.                                                               *)
(***************************************************************************)
LEMMA AloneTask ==
    ASSUME NEW w \in Writers, Alone(w), NEW t \in Tasks, task[t].at # "idle"
    PROVE  t \in {w, Work}
BY DEF Alone
\* What a step of task t to another place must not do when w is the only user.
Harmless(t, w, to) ==
    /\ t \in {w, Work} /\ task'[t].word \subseteq {"sysfs"}
    /\ to = "unlock_store" => task'[t].word = {}
    /\ t = w => /\ to # "unlock_lower"
                /\ to \in {"unlock_limit", "unlock_any", "unlock_loop"} =>
                       lockval["sysfs"] = MAX_PERF_LEVEL
    /\ t = Work /\ to = "unlock_lower" => pending \/ task[w].at \in TakingPlaces

(***************************************************************************)
(* A step that changes nothing but the place of one task keeps the         *)
(* invariant when it does not leave the way to the work, nor the work the  *)
(* places where it has still to put the value back.                        *)
(***************************************************************************)
LEMMA TaskStep ==
    ASSUME DvfsInv, NEW t \in Tasks, NEW from, NEW to \in Places,
           Moves(t, from, to), task' \in [Tasks -> TaskRecords],
           gdDvfsctrl' \in Range0, UNCHANGED <<dvfsctrl_locked, pending, tableVars>>,
           t = Work => /\ to \in WorkPlaces /\ from # "clear"
                       /\ from \in UndoingPlaces \cup {"unlock_limit"} => to \in UndoingPlaces \ {"unlock_value"},
           t \in Writers => from # "schedule" /\ (from \in TakingPlaces => to \in TakingPlaces),
           \A w \in Writers : users = {w} => Harmless(t, w, to)
    PROVE  DvfsInv'
<1> USE TaskFacts, LevelFacts
<1>1. DvfsTypeInv'
    BY DEF DvfsInv, DvfsTypeInv, Moves, tableVars
<1>2. EndInv'
    BY DEF DvfsInv, DvfsTypeInv, EndInv, Moves, tableVars, TakingPlaces, UndoingPlaces
<1>3. ASSUME NEW w \in Writers, users' = {w}
      PROVE  Alone(w)'
    <2>1. Alone(w) /\ Harmless(t, w, to)
        BY <1>3 DEF DvfsInv, SingleInv, tableVars
    <2>2. QED
        BY <2>1 DEF DvfsInv, DvfsTypeInv, Alone, Harmless, Moves, tableVars, UndoingPlaces
<1>4. QED
    BY <1>1, <1>2, <1>3 DEF DvfsInv, SingleInv

\* The task goes on with a word that it has read, a level, or the tokens left to look at.
LEMMA WordChange ==
    ASSUME DvfsTypeInv, NEW t \in Tasks, NEW to \in Places, NEW word \in SUBSET Tokens,
           task' = [task EXCEPT ![t].at = to, ![t].word = word]
    PROVE  /\ Moves(t, task[t].at, to) /\ task' \in [Tasks -> TaskRecords]
           /\ task'[t].word = word
<1>1. task[t] \in TaskRecords
    BY DEF DvfsTypeInv
<1>2. task'[t] = [task[t] EXCEPT !.at = to, !.word = word]
    BY DEF DvfsTypeInv
<1>3. task'[t] \in TaskRecords /\ task'[t].at = to /\ task'[t].word = word
    BY <1>1, <1>2 DEF TaskRecords
<1>4. \A u \in Tasks \ {t} : task'[u] = task[u]
    BY DEF DvfsTypeInv
<1>5. task' \in [Tasks -> TaskRecords]
    BY <1>3, <1>4 DEF DvfsTypeInv
<1>6. QED
    BY <1>3, <1>4, <1>5 DEF Moves

LEMMA LevelChange ==
    ASSUME DvfsTypeInv, NEW t \in Tasks, NEW to \in Places, NEW level \in Range0,
           task' = [task EXCEPT ![t].at = to, ![t].level = level]
    PROVE  /\ Moves(t, task[t].at, to) /\ task' \in [Tasks -> TaskRecords]
           /\ task'[t].word = task[t].word
<1>1. task[t] \in TaskRecords
    BY DEF DvfsTypeInv
<1>2. task'[t] = [task[t] EXCEPT !.at = to, !.level = level]
    BY DEF DvfsTypeInv
<1>3. task'[t] \in TaskRecords /\ task'[t].at = to /\ task'[t].word = task[t].word
    BY <1>1, <1>2 DEF TaskRecords
<1>4. \A u \in Tasks \ {t} : task'[u] = task[u]
    BY DEF DvfsTypeInv
<1>5. task' \in [Tasks -> TaskRecords]
    BY <1>3, <1>4 DEF DvfsTypeInv
<1>6. QED
    BY <1>3, <1>4, <1>5 DEF Moves

LEMMA LeftChange ==
    ASSUME DvfsTypeInv, NEW t \in Tasks, NEW to \in Places, NEW left \in SUBSET Tokens,
           task' = [task EXCEPT ![t].at = to, ![t].left = left]
    PROVE  /\ Moves(t, task[t].at, to) /\ task' \in [Tasks -> TaskRecords]
           /\ task'[t].word = task[t].word
<1>1. task[t] \in TaskRecords
    BY DEF DvfsTypeInv
<1>2. task'[t] = [task[t] EXCEPT !.at = to, !.left = left]
    BY DEF DvfsTypeInv
<1>3. task'[t] \in TaskRecords /\ task'[t].at = to /\ task'[t].word = task[t].word
    BY <1>1, <1>2 DEF TaskRecords
<1>4. \A u \in Tasks \ {t} : task'[u] = task[u]
    BY DEF DvfsTypeInv
<1>5. task' \in [Tasks -> TaskRecords]
    BY <1>3, <1>4 DEF DvfsTypeInv
<1>6. QED
    BY <1>3, <1>4, <1>5 DEF Moves

LEMMA LockKeeps ==
    ASSUME DvfsInv, NEW t \in Tasks, lock_dvfs(t)
    PROVE  DvfsInv'
<1> USE TaskFacts, LevelFacts
<1>0. DvfsTypeInv /\ task[t] \in TaskRecords /\ task[t].at # "idle"
      /\ (t = Work => task[t].at \in WorkPlaces)
    BY DEF DvfsInv, DvfsTypeInv, lock_dvfs, lock_tests, lock_loads, lock_stores,
           lock_sets_value, lock_compares, lock_sets_limit, Goes
<1>w. ASSUME NEW w \in Writers, users = {w}
      PROVE  Alone(w) /\ t \in {w, Work}
    BY <1>0, <1>w, AloneTask DEF DvfsInv, SingleInv
<1>1. CASE lock_tests(t)
    <2>1. ASSUME NEW to \in {"locked", "lock_load"}, Goes(t, "lock", to)
          PROVE  DvfsInv'
        <3>1. to \in Places
            BY DEF Places
        <3>2. Moves(t, "lock", to) /\ task' \in [Tasks -> TaskRecords] /\ task'[t].word = {}
            BY <1>0, <2>1, <3>1, GoesMoves
        <3>3. \A w \in Writers : users = {w} => Harmless(t, w, to)
            BY <1>w, <3>2, <1>0 DEF Harmless
        <3>4. QED
            BY <1>0, <1>1, <3>1, <3>2, <3>3, TaskStep
               DEF lock_tests, DvfsTypeInv, Moves, ctrlVars, TakingPlaces, UndoingPlaces, WorkPlaces
    <2>2. QED
        BY <1>1, <2>1 DEF lock_tests
<1>2. CASE lock_loads(t)
    <2>1. Moves(t, "lock_load", "lock_store") /\ task' \in [Tasks -> TaskRecords]
          /\ task'[t].word = token \cup {TokenOf(t)}
        <3> DEFINE word == token \cup {TokenOf(t)}
        <3>1. word \in SUBSET Tokens /\ "lock_store" \in Places /\ task[t].level \in Range0
            BY <1>0 DEF DvfsTypeInv, TaskRecords, Places
        <3>2. task' = [task EXCEPT ![t].at = "lock_store", ![t].word = word]
            BY <1>2 DEF lock_loads
        <3> HIDE DEF word
        <3>3. Moves(t, task[t].at, "lock_store") /\ task' \in [Tasks -> TaskRecords] /\ task'[t].word = word
            BY <1>0, <3>1, <3>2, WordChange
        <3>4. QED
            BY <1>2, <3>3 DEF lock_loads, word
    <2>2. \A w \in Writers : users = {w} => Harmless(t, w, "lock_store")
        BY <1>w, <2>1, <1>0 DEF Harmless, Alone
    <2>3. QED
        BY <1>0, <1>2, <2>1, <2>2, TaskStep
           DEF Places, lock_loads, DvfsTypeInv, Moves, ctrlVars, TakingPlaces, UndoingPlaces, WorkPlaces
<1>3. CASE lock_stores(t)
    <2>1. Moves(t, "lock_store", "lock_value") /\ task' \in [Tasks -> TaskRecords] /\ task'[t].word = {}
        BY <1>0, <1>3, GoesMoves DEF Places, lock_stores
    <2>2. token' = task[t].word /\ UNCHANGED <<ctrlVars, lockval, limit, users>>
        BY <1>3 DEF lock_stores
    <2>3. t # Work
        BY <1>0, <2>1 DEF Moves, WorkPlaces
    <2>4. DvfsTypeInv'
        BY <1>0, <2>1, <2>2, <2>3 DEF DvfsTypeInv, TaskRecords, Moves, ctrlVars
    <2>5. EndInv'
        BY <2>1, <2>2, <2>3 DEF DvfsInv, EndInv, Moves, ctrlVars, TakingPlaces
    <2>6. ASSUME NEW w \in Writers, users' = {w} PROVE Alone(w)'
        <3>1. Alone(w) /\ t = w
            BY <1>w, <2>2, <2>3, <2>6
        <3>2. QED
            BY <2>1, <2>2, <3>1 DEF Alone, Moves, ctrlVars, TakingPlaces
    <2>7. QED
        BY <2>4, <2>5, <2>6 DEF DvfsInv, SingleInv
<1>4. CASE lock_sets_value(t)
    <2>1. Moves(t, "lock_value", "lock_compare") /\ task' \in [Tasks -> TaskRecords] /\ task'[t].word = {}
        BY <1>0, <1>4, GoesMoves DEF Places, lock_sets_value
    <2>2. /\ lockval' = [lockval EXCEPT ![TokenOf(t)] = task[t].level]
          /\ UNCHANGED <<ctrlVars, token, limit, users>>
        BY <1>4 DEF lock_sets_value
    <2>3. t # Work
        BY <1>0, <2>1 DEF Moves, WorkPlaces
    <2>4. DvfsTypeInv'
        BY <1>0, <2>1, <2>2, <2>3 DEF DvfsTypeInv, TaskRecords, Moves, ctrlVars
    <2>5. EndInv'
        <3>1. CASE t \in Writers
            BY <2>1, <2>2, <2>3, <3>1 DEF DvfsInv, EndInv, Moves, ctrlVars, TakingPlaces
        <3>2. CASE t \in Drivers
            <4>1. lockval'["sysfs"] = lockval["sysfs"] /\ t \notin Writers
                BY <1>0, <2>2, <3>2 DEF DvfsTypeInv
            <4>2. QED
                BY <2>1, <2>2, <2>3, <4>1 DEF DvfsInv, EndInv, Moves, ctrlVars, TakingPlaces
        <3>3. QED
            BY <2>3, <3>1, <3>2 DEF Tasks
    <2>6. ASSUME NEW w \in Writers, users' = {w} PROVE Alone(w)'
        <3>1. Alone(w) /\ t = w
            BY <1>w, <2>2, <2>3, <2>6
        <3>2. lockval'["driver"] = lockval["driver"]
            BY <1>0, <2>2, <3>1 DEF DvfsTypeInv
        <3>3. QED
            BY <2>1, <2>2, <3>1, <3>2 DEF Alone, Moves, ctrlVars, TakingPlaces
    <2>7. QED
        BY <2>4, <2>5, <2>6 DEF DvfsInv, SingleInv
<1>5. CASE lock_compares(t)
    <2>1. ASSUME NEW to \in {"locked", "lock_limit"}, Goes(t, "lock_compare", to)
          PROVE  DvfsInv'
        <3>1. to \in Places
            BY DEF Places
        <3>2. Moves(t, "lock_compare", to) /\ task' \in [Tasks -> TaskRecords] /\ task'[t].word = {}
            BY <1>0, <2>1, <3>1, GoesMoves
        <3>3. \A w \in Writers : users = {w} => Harmless(t, w, to)
            BY <1>w, <3>2, <1>0 DEF Harmless
        <3>4. QED
            BY <1>0, <1>5, <3>1, <3>2, <3>3, TaskStep
               DEF lock_compares, DvfsTypeInv, Moves, ctrlVars, TakingPlaces, UndoingPlaces, WorkPlaces
    <2>2. QED
        BY <1>5, <2>1 DEF lock_compares
<1>6. CASE lock_sets_limit(t)
    <2>1. Moves(t, "lock_limit", "locked") /\ task' \in [Tasks -> TaskRecords] /\ task'[t].word = {}
        BY <1>0, <1>6, GoesMoves DEF Places, lock_sets_limit
    <2>2. limit' = task[t].level /\ UNCHANGED <<ctrlVars, token, lockval, users>>
        BY <1>6 DEF lock_sets_limit
    <2>3. t # Work
        BY <1>0, <2>1 DEF Moves, WorkPlaces
    <2>4. DvfsTypeInv'
        BY <1>0, <2>1, <2>2, <2>3 DEF DvfsTypeInv, TaskRecords, Moves, ctrlVars
    <2>5. EndInv'
        BY <2>1, <2>2, <2>3 DEF DvfsInv, EndInv, Moves, ctrlVars, TakingPlaces
    <2>6. ASSUME NEW w \in Writers, users' = {w} PROVE Alone(w)'
        <3>1. Alone(w) /\ t = w
            BY <1>w, <2>2, <2>3, <2>6
        <3>2. QED
            BY <2>1, <2>2, <3>1 DEF Alone, Moves, ctrlVars, TakingPlaces
    <2>7. QED
        BY <2>4, <2>5, <2>6 DEF DvfsInv, SingleInv
<1>7. QED
    BY <1>1, <1>2, <1>3, <1>4, <1>5, <1>6 DEF lock_dvfs

LEMMA UnlockKeeps ==
    ASSUME DvfsInv, NEW t \in Tasks, unlock_dvfs(t)
    PROVE  DvfsInv'
<1> USE TaskFacts, LevelFacts
<1>0. DvfsTypeInv /\ task[t] \in TaskRecords /\ task[t].at # "idle"
      /\ (t = Work => task[t].at \in WorkPlaces)
    BY DEF DvfsInv, DvfsTypeInv, unlock_dvfs, unlock_loads, unlock_stores, unlock_sets_value,
           unlock_resets_limit, unlock_looks, unlock_compares, unlock_lowers, Goes
<1>w. ASSUME NEW w \in Writers, users = {w}
      PROVE  Alone(w) /\ t \in {w, Work}
    BY <1>0, <1>w, AloneTask DEF DvfsInv, SingleInv
<1>1. CASE unlock_loads(t)
    <2> DEFINE word == token \ {TokenOf(t)}
    <2>1. word \in SUBSET Tokens /\ "unlock_store" \in Places
        BY <1>0 DEF DvfsTypeInv, Places
    <2>2. task' = [task EXCEPT ![t].at = "unlock_store", ![t].word = word]
        BY <1>1 DEF unlock_loads
    <2> HIDE DEF word
    <2>3. Moves(t, task[t].at, "unlock_store") /\ task' \in [Tasks -> TaskRecords] /\ task'[t].word = word
        BY <1>0, <2>1, <2>2, WordChange
    <2>4. Moves(t, "unlock", "unlock_store")
        BY <1>1, <2>3 DEF unlock_loads
    <2>5. \A w \in Writers : users = {w} => Harmless(t, w, "unlock_store")
        BY <1>w, <2>3 DEF Harmless, Alone, word
    <2>6. QED
        BY <1>0, <1>1, <2>1, <2>3, <2>4, <2>5, TaskStep
           DEF unlock_loads, DvfsTypeInv, ctrlVars, TakingPlaces, UndoingPlaces, WorkPlaces
<1>2. CASE unlock_stores(t)
    <2>1. Moves(t, "unlock_store", "unlock_value") /\ task' \in [Tasks -> TaskRecords] /\ task'[t].word = {}
        BY <1>0, <1>2, GoesMoves DEF Places, unlock_stores
    <2>2. token' = task[t].word /\ UNCHANGED <<ctrlVars, lockval, limit, users>>
        BY <1>2 DEF unlock_stores
    <2>3. DvfsTypeInv'
        BY <1>0, <2>1, <2>2 DEF DvfsTypeInv, TaskRecords, Moves, ctrlVars, WorkPlaces
    <2>4. EndInv'
        BY <2>1, <2>2 DEF DvfsInv, EndInv, Moves, ctrlVars, TakingPlaces, UndoingPlaces
    <2>5. ASSUME NEW w \in Writers, users' = {w} PROVE Alone(w)'
        <3>1. Alone(w) /\ t \in {w, Work} /\ token' = {}
            BY <1>w, <2>1, <2>2, <2>5 DEF Alone, Moves
        <3>2. QED
            BY <2>1, <2>2, <3>1 DEF Alone, Moves, ctrlVars, TakingPlaces, UndoingPlaces
    <2>6. QED
        BY <2>3, <2>4, <2>5 DEF DvfsInv, SingleInv
<1>3. CASE unlock_sets_value(t)
    <2>1. Moves(t, "unlock_value", "unlock_limit") /\ task' \in [Tasks -> TaskRecords] /\ task'[t].word = {}
        BY <1>0, <1>3, GoesMoves DEF Places, unlock_sets_value
    <2>2. /\ lockval' = [lockval EXCEPT ![TokenOf(t)] = MAX_PERF_LEVEL]
          /\ UNCHANGED <<ctrlVars, token, limit, users>>
        BY <1>3 DEF unlock_sets_value
    <2>3. DvfsTypeInv'
        BY <1>0, <2>1, <2>2 DEF DvfsTypeInv, Moves, ctrlVars, WorkPlaces
    <2>4. EndInv'
        <3>1. CASE t \in Writers \cup {Work}
            <4>1. lockval'["sysfs"] = MAX_PERF_LEVEL
                BY <1>0, <2>2, <3>1 DEF DvfsTypeInv
            <4>2. QED
                BY <2>1, <2>2, <4>1 DEF DvfsInv, EndInv, Moves, ctrlVars
        <3>2. CASE t \in Drivers
            <4>1. lockval'["sysfs"] = lockval["sysfs"] /\ t \notin Writers \cup {Work}
                BY <1>0, <2>2, <3>2 DEF DvfsTypeInv
            <4>2. QED
                BY <2>1, <2>2, <4>1 DEF DvfsInv, EndInv, Moves, ctrlVars
        <3>3. QED
            BY <3>1, <3>2 DEF Tasks
    <2>5. ASSUME NEW w \in Writers, users' = {w} PROVE Alone(w)'
        <3>1. Alone(w) /\ t \in {w, Work}
            BY <1>w, <2>2, <2>5
        <3>2. lockval'["driver"] = lockval["driver"] /\ lockval'["sysfs"] = MAX_PERF_LEVEL
            BY <1>0, <2>2, <3>1 DEF DvfsTypeInv
        <3>3. QED
            BY <2>1, <2>2, <3>1, <3>2 DEF Alone, Moves, ctrlVars, TakingPlaces, UndoingPlaces
    <2>6. QED
        BY <2>3, <2>4, <2>5 DEF DvfsInv, SingleInv
<1>4. CASE unlock_resets_limit(t)
    <2>1. Moves(t, "unlock_limit", "unlock_any") /\ task' \in [Tasks -> TaskRecords] /\ task'[t].word = {}
        BY <1>0, <1>4, GoesMoves DEF Places, unlock_resets_limit
    <2>2. limit' = MAX_PERF_LEVEL /\ UNCHANGED <<ctrlVars, token, lockval, users>>
        BY <1>4 DEF unlock_resets_limit
    <2>3. DvfsTypeInv'
        BY <1>0, <2>1, <2>2 DEF DvfsTypeInv, Moves, ctrlVars, WorkPlaces
    <2>4. EndInv'
        BY <2>1, <2>2 DEF DvfsInv, EndInv, Moves, ctrlVars, TakingPlaces, UndoingPlaces
    <2>5. ASSUME NEW w \in Writers, users' = {w} PROVE Alone(w)'
        <3>1. Alone(w) /\ t \in {w, Work}
            BY <1>w, <2>2, <2>5
        <3>2. QED
            BY <2>1, <2>2, <3>1 DEF Alone, Moves, ctrlVars, TakingPlaces, UndoingPlaces
    <2>6. QED
        BY <2>3, <2>4, <2>5 DEF DvfsInv, SingleInv
<1>5. CASE unlock_looks(t)
    <2> DEFINE left == IF token = {} THEN {} ELSE Tokens
    <2>1. left \in SUBSET Tokens /\ "unlock_loop" \in Places
        BY DEF Places
    <2>2. task' = [task EXCEPT ![t].at = "unlock_loop", ![t].left = left]
        BY <1>5 DEF unlock_looks
    <2> HIDE DEF left
    <2>3. Moves(t, task[t].at, "unlock_loop") /\ task' \in [Tasks -> TaskRecords]
          /\ task'[t].word = task[t].word
        BY <1>0, <2>1, <2>2, LeftChange
    <2>4. Moves(t, "unlock_any", "unlock_loop")
        BY <1>5, <2>3 DEF unlock_looks
    <2>5. \A w \in Writers : users = {w} => Harmless(t, w, "unlock_loop")
        BY <1>w, <2>3, <2>4 DEF Harmless, Alone, Moves
    <2>6. QED
        BY <1>0, <1>5, <2>1, <2>3, <2>4, <2>5, TaskStep
           DEF unlock_looks, DvfsTypeInv, ctrlVars, TakingPlaces, UndoingPlaces, WorkPlaces
<1>6. CASE unlock_compares(t)
    <2>0. task[t].at = "unlock_loop" /\ UNCHANGED <<ctrlVars, tableVars>>
        BY <1>6 DEF unlock_compares
    <2>1. ASSUME NEW k \in task[t].left, lockval[k] < limit,
                 task' = [task EXCEPT ![t].left = @ \ {k}, ![t].at = "unlock_lower",
                                      ![t].level = lockval[k]]
          PROVE  DvfsInv'
        <3>1. k \in Tokens /\ lockval[k] \in Range0 /\ "unlock_lower" \in Places
            BY <1>0 DEF DvfsTypeInv, TaskRecords, Places
        <3>2. /\ task'[t] = [task[t] EXCEPT !.left = task[t].left \ {k},
                                            !.at = "unlock_lower", !.level = lockval[k]]
              /\ \A u \in Tasks \ {t} : task'[u] = task[u]
            BY <1>0, <2>1 DEF DvfsTypeInv
        <3>3. task'[t] \in TaskRecords /\ task'[t].at = "unlock_lower" /\ task'[t].word = task[t].word
            BY <1>0, <3>1, <3>2 DEF TaskRecords
        <3>4. task' \in [Tasks -> TaskRecords]
            BY <1>0, <2>1, <3>2, <3>3 DEF DvfsTypeInv
        <3>5. Moves(t, "unlock_loop", "unlock_lower")
            BY <2>0, <3>2, <3>3 DEF Moves
        <3>6. ASSUME NEW w \in Writers, users = {w}
              PROVE  Harmless(t, w, "unlock_lower")
            <4>1. Alone(w) /\ t \in {w, Work}
                BY <1>w, <3>6
            <4>2. lockval[k] # MAX_PERF_LEVEL
                BY <1>0, <2>1, <3>1 DEF DvfsTypeInv, Range0
            <4>3. k = "sysfs"
                BY <3>1, <4>1, <4>2 DEF Alone, Tokens
            <4>4. t # w
                BY <2>0, <4>1, <4>2, <4>3 DEF Alone
            <4>5. pending \/ task[w].at \in TakingPlaces
                <5>1. \A u \in Writers : task[u].at \in TakingPlaces => u = w
                    BY <4>1, AloneTask DEF TakingPlaces
                <5>2. QED
                    BY <2>0, <4>1, <4>2, <4>3, <4>4, <5>1 DEF DvfsInv, EndInv, UndoingPlaces
            <4>6. QED
                BY <3>3, <4>1, <4>4, <4>5 DEF Harmless, Alone
        <3>7. QED
            BY <1>0, <2>0, <3>1, <3>4, <3>5, <3>6, TaskStep
               DEF DvfsTypeInv, ctrlVars, TakingPlaces, UndoingPlaces, WorkPlaces
    <2>2. ASSUME NEW k \in task[t].left,
                 task' = [task EXCEPT ![t].left = @ \ {k}]
          PROVE  DvfsInv'
        <3>1. /\ task'[t] = [task[t] EXCEPT !.left = task[t].left \ {k}]
              /\ \A u \in Tasks \ {t} : task'[u] = task[u]
            BY <1>0, <2>2 DEF DvfsTypeInv
        <3>2. task'[t] \in TaskRecords /\ task'[t].at = "unlock_loop" /\ task'[t].word = task[t].word
              /\ "unlock_loop" \in Places
            BY <1>0, <2>0, <3>1 DEF TaskRecords, Places
        <3>3. task' \in [Tasks -> TaskRecords]
            BY <1>0, <2>2, <3>1, <3>2 DEF DvfsTypeInv
        <3>4. Moves(t, "unlock_loop", "unlock_loop")
            BY <2>0, <3>1, <3>2 DEF Moves
        <3>5. \A w \in Writers : users = {w} => Harmless(t, w, "unlock_loop")
            BY <1>w, <2>0, <3>2 DEF Harmless, Alone
        <3>6. QED
            BY <1>0, <2>0, <3>2, <3>3, <3>4, <3>5, TaskStep
               DEF DvfsTypeInv, ctrlVars, TakingPlaces, UndoingPlaces, WorkPlaces
    <2>3. CASE Goes(t, "unlock_loop", "unlocked")
        <3>1. /\ Moves(t, "unlock_loop", "unlocked") /\ task' \in [Tasks -> TaskRecords]
              /\ task'[t].word = {} /\ "unlocked" \in Places
            BY <1>0, <2>3, GoesMoves DEF Places
        <3>2. \A w \in Writers : users = {w} => Harmless(t, w, "unlocked")
            BY <1>w, <3>1 DEF Harmless
        <3>3. QED
            BY <1>0, <2>0, <3>1, <3>2, TaskStep
               DEF DvfsTypeInv, ctrlVars, TakingPlaces, UndoingPlaces, WorkPlaces
    <2>4. QED
        BY <1>6, <2>1, <2>2, <2>3 DEF unlock_compares
<1>7. CASE unlock_lowers(t)
    <2>1. "unlock_loop" \in Places /\ task' = [task EXCEPT ![t].at = "unlock_loop", ![t].level = 0]
        BY <1>7 DEF unlock_lowers, Places
    <2>2. Moves(t, task[t].at, "unlock_loop") /\ task' \in [Tasks -> TaskRecords]
          /\ task'[t].word = task[t].word
        BY <1>0, <2>1, LevelChange
    <2>3. task[t].at = "unlock_lower" /\ limit' = task[t].level /\ UNCHANGED <<ctrlVars, token, lockval, users>>
        BY <1>7 DEF unlock_lowers
    <2>4. DvfsTypeInv'
        BY <1>0, <2>2, <2>3 DEF DvfsTypeInv, TaskRecords, Moves, ctrlVars, WorkPlaces
    <2>5. EndInv'
        BY <2>2, <2>3 DEF DvfsInv, EndInv, Moves, ctrlVars, TakingPlaces, UndoingPlaces
    <2>6. ASSUME NEW w \in Writers, users' = {w} PROVE Alone(w)'
        <3>1. Alone(w) /\ t = Work
            BY <1>w, <2>3, <2>6 DEF Alone
        <3>2. QED
            BY <2>2, <2>3, <3>1 DEF Alone, Moves, ctrlVars, TakingPlaces, UndoingPlaces
    <2>7. QED
        BY <2>4, <2>5, <2>6 DEF DvfsInv, SingleInv
<1>8. QED
    BY <1>1, <1>2, <1>3, <1>4, <1>5, <1>6, <1>7 DEF unlock_dvfs

LEMMA WritesKeeps ==
    ASSUME DvfsInv, NEW t \in Tasks, Writes(t)
    PROVE  DvfsInv'
<1> USE TaskFacts, LevelFacts
<1>0. DvfsTypeInv /\ task[t] \in TaskRecords /\ task[t].at # "idle"
      /\ (t = Work => task[t].at \in WorkPlaces)
    BY DEF DvfsInv, DvfsTypeInv, Writes, ctrl_compares, ctrl_tests, ctrl_reads, ctrl_unlocked,
           ctrl_locked, ctrl_schedules, Goes
<1>w. ASSUME NEW w \in Writers, users = {w}
      PROVE  Alone(w) /\ t \in {w, Work}
    BY <1>0, <1>w, AloneTask DEF DvfsInv, SingleInv
<1>1. ASSUME NEW from, NEW to \in Places, Goes(t, from, to), UNCHANGED <<ctrlVars, tableVars>>,
             from \in {"parsed", "zero", "number"}, to \in {"idle", "zero", "number", "reading", "unlock"}
      PROVE  DvfsInv'
    <2>1. Moves(t, from, to) /\ task' \in [Tasks -> TaskRecords] /\ task'[t].word = {}
        BY <1>0, <1>1, GoesMoves
    <2>2. \A w \in Writers : users = {w} => Harmless(t, w, to)
        BY <1>w, <1>1, <2>1 DEF Harmless
    <2>3. t # Work
        BY <1>0, <1>1, <2>1 DEF Moves, WorkPlaces
    <2>4. from # "schedule" /\ from \notin TakingPlaces
        BY <1>1 DEF TakingPlaces
    <2>5. gdDvfsctrl' \in Range0 /\ UNCHANGED <<dvfsctrl_locked, pending, tableVars>>
        BY <1>0, <1>1 DEF DvfsTypeInv, ctrlVars
    <2>6. QED
        BY <2>1, <2>2, <2>3, <2>4, <2>5, TaskStep
<1>2. CASE ctrl_compares(t)
    <2>1. "zero" \in Places /\ "number" \in Places
        BY DEF Places
    <2>2. QED
        BY <1>1, <1>2, <2>1 DEF ctrl_compares
<1>3. CASE ctrl_tests(t)
    <2>1. "unlock" \in Places /\ "idle" \in Places /\ "reading" \in Places
        BY DEF Places
    <2>2. QED
        BY <1>1, <1>3, <2>1 DEF ctrl_tests
<1>4. CASE ctrl_reads(t)
    <2> DEFINE level == IF gdDvfsctrl = 0 THEN 0 ELSE gdDvfsctrl - 1
    <2>1. level \in Range0 /\ "lock" \in Places
        BY <1>0 DEF DvfsTypeInv, Places, Range0
    <2>2. /\ task[t].at = "reading" /\ task' = [task EXCEPT ![t].at = "lock", ![t].level = level]
          /\ UNCHANGED <<ctrlVars, tableVars>>
        BY <1>4 DEF ctrl_reads
    <2> HIDE DEF level
    <2>3. Moves(t, "reading", "lock") /\ task' \in [Tasks -> TaskRecords] /\ task'[t].word = task[t].word
        <3>1. Moves(t, task[t].at, "lock") /\ task' \in [Tasks -> TaskRecords] /\ task'[t].word = task[t].word
            BY <1>0, <2>1, <2>2, LevelChange
        <3>2. QED
            BY <2>2, <3>1
    <2>4. \A w \in Writers : users = {w} => Harmless(t, w, "lock")
        BY <1>w, <2>3 DEF Harmless, Alone
    <2>5. QED
        BY <1>0, <2>1, <2>2, <2>3, <2>4, TaskStep
           DEF DvfsTypeInv, ctrlVars, TakingPlaces, UndoingPlaces, WorkPlaces
<1>5. CASE ctrl_unlocked(t)
    <2>1. Moves(t, "unlocked", "idle") /\ task' \in [Tasks -> TaskRecords] /\ task'[t].word = {}
        BY <1>0, <1>5, GoesMoves DEF Places, ctrl_unlocked
    <2>2. t \in Writers /\ dvfsctrl_locked' = FALSE /\ UNCHANGED <<gdDvfsctrl, pending, tableVars>>
        BY <1>5 DEF ctrl_unlocked
    <2>3. DvfsTypeInv'
        BY <1>0, <2>1, <2>2 DEF DvfsTypeInv, Moves, tableVars, WorkPlaces
    <2>4. EndInv'
        BY <2>1, <2>2 DEF DvfsInv, EndInv, Moves, tableVars, TakingPlaces
    <2>5. ASSUME NEW w \in Writers, users' = {w} PROVE Alone(w)'
        <3>1. Alone(w) /\ t \in {w, Work}
            BY <1>w, <2>2, <2>5 DEF tableVars
        <3>2. QED
            BY <2>1, <2>2, <3>1 DEF Alone, Moves, tableVars, TakingPlaces, UndoingPlaces
    <2>6. QED
        BY <2>3, <2>4, <2>5 DEF DvfsInv, SingleInv
<1>6. CASE ctrl_locked(t)
    <2>1. Moves(t, "locked", "schedule") /\ task' \in [Tasks -> TaskRecords] /\ task'[t].word = {}
        BY <1>0, <1>6, GoesMoves DEF Places, ctrl_locked
    <2>2. t \in Writers /\ dvfsctrl_locked' = TRUE /\ UNCHANGED <<gdDvfsctrl, pending, tableVars>>
        BY <1>6 DEF ctrl_locked
    <2>3. DvfsTypeInv'
        BY <1>0, <2>1, <2>2 DEF DvfsTypeInv, Moves, tableVars, WorkPlaces
    <2>4. EndInv'
        BY <2>1, <2>2 DEF DvfsInv, EndInv, Moves, tableVars, TakingPlaces
    <2>5. ASSUME NEW w \in Writers, users' = {w} PROVE Alone(w)'
        <3>1. Alone(w) /\ t \in {w, Work}
            BY <1>w, <2>2, <2>5 DEF tableVars
        <3>2. QED
            BY <2>1, <2>2, <3>1 DEF Alone, Moves, tableVars, TakingPlaces, UndoingPlaces
    <2>6. QED
        BY <2>3, <2>4, <2>5 DEF DvfsInv, SingleInv
<1>7. CASE ctrl_schedules(t)
    <2>1. Moves(t, "schedule", "idle") /\ task' \in [Tasks -> TaskRecords] /\ task'[t].word = {}
        BY <1>0, <1>7, GoesMoves DEF Places, ctrl_schedules
    <2>2. pending' = TRUE /\ UNCHANGED <<gdDvfsctrl, dvfsctrl_locked, tableVars>>
        BY <1>7 DEF ctrl_schedules
    <2>3. DvfsTypeInv'
        BY <1>0, <2>1, <2>2 DEF DvfsTypeInv, Moves, tableVars, WorkPlaces
    <2>4. EndInv'
        BY <2>2 DEF EndInv
    <2>5. ASSUME NEW w \in Writers, users' = {w} PROVE Alone(w)'
        <3>1. Alone(w) /\ t \in {w, Work}
            BY <1>w, <2>2, <2>5 DEF tableVars
        <3>2. QED
            BY <2>1, <2>2, <3>1 DEF Alone, Moves, tableVars
    <2>6. QED
        BY <2>3, <2>4, <2>5 DEF DvfsInv, SingleInv
<1>8. QED
    BY <1>2, <1>3, <1>4, <1>5, <1>6, <1>7 DEF Writes

LEMMA TimerKeeps ==
    ASSUME DvfsInv, timer_runs \/ timer_clears \/ timer_ends
    PROVE  DvfsInv'
<1> USE TaskFacts, LevelFacts
<1>0. DvfsTypeInv
    BY DEF DvfsInv
<1>w. ASSUME NEW w \in Writers, users = {w}
      PROVE  Alone(w)
    BY <1>w DEF DvfsInv, SingleInv
<1>1. CASE timer_runs
    <2>1. Moves(Work, "idle", "clear") /\ task' \in [Tasks -> TaskRecords] /\ task'[Work].word = {}
        BY <1>0, <1>1, GoesMoves DEF Places, timer_runs
    <2>2. pending /\ pending' = FALSE /\ UNCHANGED <<gdDvfsctrl, dvfsctrl_locked, tableVars>>
        BY <1>1 DEF timer_runs
    <2>3. DvfsTypeInv'
        BY <1>0, <2>1, <2>2 DEF DvfsTypeInv, Moves, tableVars, WorkPlaces
    <2>4. EndInv'
        BY <2>1 DEF EndInv, Moves, UndoingPlaces
    <2>5. ASSUME NEW w \in Writers, users' = {w} PROVE Alone(w)'
        <3>1. Alone(w)
            BY <1>w, <2>2, <2>5 DEF tableVars
        <3>2. QED
            BY <2>1, <2>2, <3>1 DEF Alone, Moves, tableVars, UndoingPlaces
    <2>6. QED
        BY <2>3, <2>4, <2>5 DEF DvfsInv, SingleInv
<1>2. CASE timer_clears
    <2>1. Moves(Work, "clear", "unlock") /\ task' \in [Tasks -> TaskRecords] /\ task'[Work].word = {}
        BY <1>0, <1>2, GoesMoves DEF Places, timer_clears
    <2>2. dvfsctrl_locked' = FALSE /\ UNCHANGED <<gdDvfsctrl, pending, tableVars>>
        BY <1>2 DEF timer_clears
    <2>3. DvfsTypeInv'
        BY <1>0, <2>1, <2>2 DEF DvfsTypeInv, Moves, tableVars, WorkPlaces
    <2>4. EndInv'
        BY <2>1, <2>2 DEF EndInv, Moves, UndoingPlaces
    <2>5. ASSUME NEW w \in Writers, users' = {w} PROVE Alone(w)'
        <3>1. Alone(w)
            BY <1>w, <2>2, <2>5 DEF tableVars
        <3>2. QED
            BY <2>1, <2>2, <3>1 DEF Alone, Moves, tableVars, UndoingPlaces
    <2>6. QED
        BY <2>3, <2>4, <2>5 DEF DvfsInv, SingleInv
<1>3. CASE timer_ends
    <2>1. /\ Moves(Work, "unlocked", "idle") /\ task' \in [Tasks -> TaskRecords]
          /\ task'[Work].word = {} /\ "idle" \in Places
        BY <1>0, <1>3, GoesMoves DEF Places, timer_ends
    <2>2. \A w \in Writers : users = {w} => Harmless(Work, w, "idle")
        BY <2>1 DEF Harmless
    <2>3. QED
        BY <1>0, <1>3, <2>1, <2>2, TaskStep
           DEF timer_ends, DvfsTypeInv, ctrlVars, TakingPlaces, UndoingPlaces, WorkPlaces
<1>4. QED
    BY <1>1, <1>2, <1>3

\* A driver goes on, starts or ends; a writer starts.
LEMMA UserKeeps ==
    ASSUME DvfsInv, NEW t \in Tasks,
           \/ DriverUnlocks(t) \/ DriverEnds(t)
           \/ t \in Writers \cap users /\ \E number \in {0} \cup {Level(l) : l \in Levels} : ctrl_parses(t, number)
           \/ t \in Drivers \cap users /\ \E l \in Levels : DriverLocks(t, l)
    PROVE  DvfsInv'
<1> USE TaskFacts, LevelFacts
<1>0. DvfsTypeInv
    BY DEF DvfsInv
<1>w. ASSUME NEW w \in Writers, users = {w}, task[t].at # "idle" \/ t \in users
      PROVE  Alone(w) /\ t \in {w, Work}
    BY <1>w, AloneTask DEF DvfsInv, SingleInv
<1>1. ASSUME NEW from \in {"locked", "unlocked"}, NEW to \in {"unlock", "idle"}, t \in Drivers,
             Goes(t, from, to), UNCHANGED <<ctrlVars, tableVars>>
      PROVE  DvfsInv'
    <2>1. to \in Places
        BY DEF Places
    <2>2. Moves(t, from, to) /\ task' \in [Tasks -> TaskRecords]
        BY <1>0, <1>1, <2>1, GoesMoves
    <2>3. \A w \in Writers : users # {w}
        BY <1>w, <1>1, <2>2 DEF Moves
    <2>4. gdDvfsctrl' \in Range0 /\ UNCHANGED <<dvfsctrl_locked, pending, tableVars>>
        BY <1>0, <1>1 DEF DvfsTypeInv, ctrlVars
    <2>5. t # Work /\ t \notin Writers
        BY <1>1
    <2>6. QED
        BY <2>1, <2>2, <2>3, <2>4, <2>5, TaskStep
<1>2. CASE DriverUnlocks(t) \/ DriverEnds(t)
    BY <1>1, <1>2 DEF DriverUnlocks, DriverEnds
<1>3. ASSUME NEW number \in {0} \cup {Level(l) : l \in Levels}, t \in Writers \cap users,
             ctrl_parses(t, number)
      PROVE  DvfsInv'
    <2>1. /\ Moves(t, "idle", "parsed") /\ task' \in [Tasks -> TaskRecords]
          /\ task'[t].word = {} /\ "parsed" \in Places
        BY <1>0, <1>3, GoesMoves DEF Places, ctrl_parses
    <2>2. \A w \in Writers : users = {w} => Harmless(t, w, "parsed")
        BY <1>w, <1>3, <2>1 DEF Harmless
    <2>3. gdDvfsctrl' \in Range0 /\ UNCHANGED <<dvfsctrl_locked, pending, tableVars>>
        BY <1>3 DEF ctrl_parses
    <2>4. t # Work /\ "idle" # "schedule" /\ "idle" \notin TakingPlaces
        BY <1>3 DEF TakingPlaces
    <2>5. QED
        BY <2>1, <2>2, <2>3, <2>4, TaskStep
<1>4. ASSUME NEW l \in Levels, t \in Drivers \cap users, DriverLocks(t, l)
      PROVE  DvfsInv'
    <2>1. l \in Range0 /\ "lock" \in Places
        BY DEF Places
    <2>2. /\ task[t].at = "idle" /\ task' = [task EXCEPT ![t].at = "lock", ![t].level = l]
          /\ UNCHANGED <<ctrlVars, tableVars>>
        BY <1>4 DEF DriverLocks
    <2>3. Moves(t, "idle", "lock") /\ task' \in [Tasks -> TaskRecords]
        <3>1. Moves(t, task[t].at, "lock") /\ task' \in [Tasks -> TaskRecords]
            BY <1>0, <2>1, <2>2, LevelChange
        <3>2. QED
            BY <2>2, <3>1
    <2>4. \A w \in Writers : users # {w}
        BY <1>4
    <2>5. gdDvfsctrl' \in Range0 /\ UNCHANGED <<dvfsctrl_locked, pending, tableVars>>
        BY <1>0, <2>2 DEF DvfsTypeInv, ctrlVars
    <2>6. t # Work /\ t \notin Writers
        BY <1>4
    <2>7. QED
        BY <2>1, <2>3, <2>4, <2>5, <2>6, TaskStep
<1>5. QED
    BY <1>2, <1>3, <1>4

LEMMA DvfsStutters ==
    ASSUME DvfsInv, UNCHANGED vars
    PROVE  DvfsInv'
<1>1. DvfsTypeInv' /\ EndInv'
    BY DEF DvfsInv, DvfsTypeInv, EndInv, vars, ctrlVars, tableVars
<1>2. SingleInv'
    BY DEF DvfsInv, SingleInv, Alone, vars, ctrlVars, tableVars
<1>3. QED
    BY <1>1, <1>2 DEF DvfsInv

LEMMA DvfsStep == DvfsInv /\ [Next]_vars => DvfsInv'
<1> SUFFICES ASSUME DvfsInv, [Next]_vars PROVE DvfsInv'
    OBVIOUS
<1>1. ASSUME NEW t \in Tasks, Steps(t) PROVE DvfsInv'
    BY <1>1, LockKeeps, UnlockKeeps, WritesKeeps, TimerKeeps, UserKeeps DEF Steps
<1>2. ASSUME NEW t \in Writers \cap users, NEW number \in {0} \cup {Level(l) : l \in Levels},
             ctrl_parses(t, number)
      PROVE  DvfsInv'
    BY <1>2, UserKeeps, TaskFacts
<1>3. ASSUME NEW t \in Drivers \cap users, NEW l \in Levels, DriverLocks(t, l)
      PROVE  DvfsInv'
    BY <1>3, UserKeeps, TaskFacts
<1>4. QED
    BY <1>1, <1>2, <1>3, DvfsStutters DEF Next

LEMMA DvfsInit == Init => DvfsInv
<1> SUFFICES ASSUME Init PROVE DvfsInv
    OBVIOUS
<1> USE TaskFacts, LevelFacts
<1>1. Idle \in TaskRecords /\ Idle.at = "idle" /\ Idle.word = {}
    BY DEF Idle, TaskRecords, Places
<1>2. \A t \in Tasks : task[t] = Idle
    BY DEF Init
<1>3. \A k \in Tokens : lockval[k] = MAX_PERF_LEVEL
    BY DEF Init
<1>4. DvfsTypeInv
    BY <1>1, <1>2 DEF DvfsTypeInv, Init, WorkPlaces
<1>5. EndInv
    BY <1>3 DEF EndInv, Init
<1>6. SingleInv
    BY <1>1, <1>2, <1>3 DEF SingleInv, Alone, Init
<1>7. QED
    BY <1>4, <1>5, <1>6 DEF DvfsInv

(***************************************************************************)
(* A limit set through dvfslock_ctrl ends, for any writers and drivers: as *)
(* long as the file's value is in the table or dvfsctrl_locked is set, the *)
(* work of do_dvfsunlock_timer is pending or has still to put the value    *)
(* back, or a writer is on its way to schedule it.                         *)
(***************************************************************************)
THEOREM EndCorrect == Spec => []EndIsComing
<1>1. Init => DvfsInv
    BY DvfsInit
<1>2. DvfsInv /\ [Next]_vars => DvfsInv'
    BY DvfsStep
<1>3. DvfsInv => EndIsComing
    BY DEF DvfsInv, EndInv, EndIsComing, Taking, Undoing, TakingPlaces, UndoingPlaces
<1>4. QED
    BY <1>1, <1>2, <1>3, PTL DEF Spec

(***************************************************************************)
(* A single writer, whatever it writes and however the work runs between   *)
(* its steps, leaves the token, the value and the limit as they were once  *)
(* nothing is pending or under way.                                        *)
(***************************************************************************)
THEOREM QuietCorrect == Spec => []QuietMeansNoLimit
<1>1. Init => DvfsInv
    BY DvfsInit
<1>2. DvfsInv /\ [Next]_vars => DvfsInv'
    BY DvfsStep
<1>3. DvfsInv => QuietMeansNoLimit
    <2> SUFFICES ASSUME DvfsInv, NEW w \in Writers, users = {w}, ~pending,
                        \A t \in Tasks : task[t].at = "idle"
                 PROVE  /\ token = {} /\ lockval["sysfs"] = MAX_PERF_LEVEL
                        /\ limit = MAX_PERF_LEVEL /\ ~dvfsctrl_locked
        BY DEF QuietMeansNoLimit
    <2>1. Alone(w) /\ EndInv /\ w \in Tasks /\ Work \in Tasks
        BY TaskFacts DEF DvfsInv, SingleInv
    <2>2. "idle" \notin TakingPlaces /\ "idle" \notin UndoingPlaces \cup {"unlock_limit"}
        BY DEF TakingPlaces, UndoingPlaces
    <2>3. token = {} /\ limit = MAX_PERF_LEVEL
        BY <2>1, <2>2 DEF Alone
    <2>4. lockval["sysfs"] = MAX_PERF_LEVEL /\ ~dvfsctrl_locked
        BY <2>1, <2>2, TaskFacts DEF EndInv
    <2>5. QED
        BY <2>3, <2>4
<1>4. QED
    BY <1>1, <1>2, <1>3, PTL DEF Spec
=============================================================================
