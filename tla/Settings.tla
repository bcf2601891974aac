------------------------------ MODULE Settings ------------------------------
(***************************************************************************)
(* The settings of the app: a table of the database (SqlController), static*)
(* fields of the process (Setting), the screen that edits them, and the    *)
(* main screen, which loads them when it is created and hands them to the  *)
(* generator.  The process may be killed between any two statements of the *)
(* database, and ends of an exception or of the exit(1) of the generator;  *)
(* the static fields then have their initial values again.                 *)
(***************************************************************************)
EXTENDS Integers, Sequences

CONSTANT
  Others   \* of every key, other values than the initial one: files, numbers, times
           \* as short as the initial one

TRAJECTORY == "brdc3540.14n"   \* the key of the trajectory, and its initial value
OrderWithoutHgt == <<"csv", "txt", "lat", "lon", "time", TRAJECTORY>>   \* mutant
KeyOrder == <<"csv", "txt", "lat", "lon", "hgt", "time", TRAJECTORY>>
Keys   == {"csv", "txt", "lat", "lon", "hgt", "time", TRAJECTORY}
Coords == {"lat", "lon", "hgt"}
CHECKSECTION == "check_section"   \* a key too, which insertDataFirst() does not insert

Initial   == "initial"
NoNumber  == "no_number"    \* a text that cannot be parsed,
Quoted    == "quoted"       \* one with a double quote, which cannot either,
Malformed == "malformed"    \* the URI of a file that is too short or has no dot,
Long      == "long"         \* a time above USER_MOTION_SIZE / 10 seconds,
Unusable  == "unusable"     \* one below zero or above STATIC_MAX_DURATION

ASSUME ValuesDiffer ==
  (Keys \cup {Initial, NoNumber, Quoted, Malformed, Long, Unusable, CHECKSECTION})
    \cap UNION {Others[k] : k \in Keys} = {}

InitialFields == [k \in Keys |-> IF k = TRAJECTORY THEN TRAJECTORY ELSE Initial]

Values(k) ==
  {InitialFields[k]} \cup Others[k] \cup (IF k = "time" THEN {Long, Unusable} ELSE {})
Texts(k) ==
  Values(k) \cup CASE k \in Coords -> {NoNumber, Quoted}
                   [] k = "time" -> {NoNumber}
                   [] OTHER -> {}

VARIABLES
  table,         \* of every key, its rows
  static,        \* the static fields of Setting
  checkSection,  \* one of them: 0 is the CSV file, 1 the TXT file, 2 the coordinates
  pc, step,      \* where the process is
  died,          \* where it was when an exception or exit() ended it
  onTop, mainMade, \* the screen to restore; the main screen is in the process
  shown,         \* the trajectory on the screen of the settings
  texts, section,\* what Save found on it
  saved,         \* history: what was picked and saved,
  savedSection, savedHere, \* the section last told saved; was it in this process?
  loaded         \* what was saved, but for the time, when the main screen was made

screenVars == <<onTop, mainMade, shown, texts, section>>
history == <<saved, savedSection, savedHere, loaded>>
vars == <<table, static, checkSection, pc, step, died, screenVars, history>>

Blank == [k \in Coords \cup {"time"} |-> Initial]
ButTime(f) == [k \in Keys \ {"time"} |-> f[k]]

Init ==
  /\ table = [k \in Keys |-> <<>>]
  /\ static = InitialFields /\ checkSection = 0
  /\ pc = "none" /\ step = 0 /\ died = "no"
  /\ onTop = "main" /\ mainMade = FALSE /\ shown = TRAJECTORY /\ texts = Blank /\ section = 0
  /\ saved = InitialFields /\ savedSection = 0 /\ savedHere = FALSE
  /\ loaded = ButTime(InitialFields)

-----------------------------------------------------------------------------
(* updateDB() sets the rows of the key; nothing happens if there is none.  *)
(* It puts value and key between quotes: one of their own is an error of   *)
(* the syntax, and execSQL() throws.                                       *)
UpdateDB(value, key) ==
  table' = [k \in Keys |-> IF k = key THEN [r \in DOMAIN table[k] |-> value] ELSE table[k]]
SyntaxError(value, key) == Quoted \in {value, key}

NoRow(k) == table[k] = <<>>

(* The statement of Save that writes the row of k, and whether it was executed.  *)
Place(k) == CASE k = "time" -> 2 [] k = TRAJECTORY -> 3
              [] k = "lat" -> 5 [] k = "lon" -> 6 [] k = "hgt" -> 7 [] OTHER -> 9
Executed(k) == pc = "save" /\ Place(k) < step /\ (k \in Coords => section = 2)

(* What a Save has saved so far.  Of the trajectory it saves the initial   *)
(* one and no other, whatever it tells the user.                           *)
Written ==
  [k \in Keys |->
     IF ~Executed(k) THEN saved[k]
     ELSE IF k # TRAJECTORY THEN texts[k]
     ELSE IF shown = TRAJECTORY THEN TRAJECTORY ELSE saved[k]]

-----------------------------------------------------------------------------
(* The process and its screens.                                            *)

(* The user starts the app, or Android the screen that was on top.         *)
Start ==
  /\ pc = "none"
  /\ pc' = IF onTop = "main" THEN "load" ELSE "open"
  /\ step' = 1 /\ died' = "no"
  /\ UNCHANGED <<table, static, checkSection, screenVars, history>>

(* The screen is made anew, by a rotation, or the main screen because a     *)
(* device was attached.                                                    *)
Recreate ==
  /\ pc \in {"main", "setting"}
  /\ pc' = IF pc = "main" THEN "load" ELSE "open"
  /\ step' = 1
  /\ UNCHANGED <<table, static, checkSection, died, screenVars, history>>

Gone ==
  /\ pc' = "none" /\ step' = 0
  /\ static' = InitialFields /\ checkSection' = 0
  /\ mainMade' = FALSE /\ shown' = TRAJECTORY /\ texts' = Blank /\ section' = 0
  /\ saved' = Written /\ savedHere' = FALSE
  /\ UNCHANGED <<savedSection, loaded>>

(* An exception, or exit(1): the screen on top is given up.                *)
Crash == Gone /\ died' = pc /\ onTop' = "main"

Kill ==
  /\ pc # "none"
  /\ Gone /\ died' = "no" /\ onTop' \in {"main", onTop}
  /\ UNCHANGED table

(* insertDataFirst(): every key in turn is inserted or loaded.             *)
Insert(k) ==
  /\ table' = [table EXCEPT ![k] = Append(@, static[k])]
  /\ UNCHANGED static

(* Mutant: the trajectory is not loaded.                                    *)
LoadButTrajectory(k) ==
  /\ static' = IF k = TRAJECTORY THEN static ELSE [static EXCEPT ![k] = Head(table[k])]
  /\ UNCHANGED table

LoadField(k) ==
  /\ static' = [static EXCEPT ![k] = Head(table[k])]
  /\ UNCHANGED table

Unparsable(k) == ~NoRow(k) /\ Head(table[k]) = NoNumber

Load ==
  /\ pc = "load" /\ step <= Len(KeyOrder) /\ ~Unparsable(KeyOrder[step])
  /\ IF NoRow(KeyOrder[step]) THEN Insert(KeyOrder[step]) ELSE LoadField(KeyOrder[step])
  /\ step' = step + 1
  /\ UNCHANGED <<checkSection, pc, died, screenVars, history>>

LoadCrash ==
  /\ pc = "load" /\ step <= Len(KeyOrder) /\ Unparsable(KeyOrder[step])
  /\ Crash
  /\ UNCHANGED table

Loaded ==
  /\ pc = "load" /\ step > Len(KeyOrder)
  /\ pc' = "main" /\ step' = 0 /\ onTop' = "main"
  /\ mainMade' = TRUE /\ loaded' = ButTime(saved)
  /\ UNCHANGED <<table, static, checkSection, died, shown, texts, section, saved, savedSection,
                 savedHere>>

(* generateSimData() gives the fields to runCore3(), which blocks the      *)
(* screen while it writes the file, or ends the process for a duration     *)
(* that is out of range for a file or for a place.                         *)
Generate ==
  /\ pc = "main"
  /\ pc' = "generate"
  /\ UNCHANGED <<table, static, checkSection, step, died, screenVars, history>>

InvalidDuration == static["time"] = Unusable \/ (static["time"] = Long /\ checkSection # 2)

Generated ==
  /\ pc = "generate"
  /\ IF InvalidDuration
     THEN Crash
     ELSE pc' = "main" /\ UNCHANGED <<static, checkSection, step, died, screenVars, history>>
  /\ UNCHANGED table

-----------------------------------------------------------------------------
(* The screen of the settings.                                             *)

ToSetting ==
  /\ pc = "main"
  /\ pc' = "open"
  /\ UNCHANGED <<table, static, checkSection, step, died, screenVars, history>>

(* onCreate() shows the rows, but of the trajectory the static field.      *)
Open ==
  /\ pc = "open"
  /\ IF \E k \in Keys \ {TRAJECTORY} : NoRow(k)
     THEN Crash
     ELSE /\ pc' = "setting" /\ step' = 0 /\ onTop' = "setting"
          /\ shown' = static[TRAJECTORY]
          /\ UNCHANGED <<static, checkSection, died, mainMade, texts, section, history>>
  /\ UNCHANGED table

(* Back to the main screen, which is made anew if its process is gone.     *)
Back ==
  /\ pc = "setting"
  /\ onTop' = "main" /\ shown' = TRAJECTORY
  /\ IF mainMade THEN pc' = "main" /\ step' = 0 ELSE pc' = "load" /\ step' = 1
  /\ UNCHANGED <<table, static, checkSection, died, mainMade, texts, section, history>>

(* onActivityResult(): the file the user picked goes to the table at once. *)
(* (A file of another kind is only told of.)                               *)
PickToScreen(k, file) == UNCHANGED table   \* mutant: the row is not set
PickToTable(k, file) == UpdateDB(file, k)

Pick(k, file) ==
  /\ pc = "setting"
  /\ IF file = Malformed \/ SyntaxError(file, k)
     THEN Crash /\ UNCHANGED table
     ELSE /\ PickToTable(k, file)
          /\ shown' = IF k = TRAJECTORY THEN file ELSE shown
          /\ saved' = [saved EXCEPT ![k] = file]
          /\ UNCHANGED <<static, checkSection, pc, step, died, onTop, mainMade, texts, section,
                         savedSection, savedHere, loaded>>

-----------------------------------------------------------------------------
(* Save(), a statement of the database at a time.                          *)

saveElse == <<pc, died, onTop, mainMade, shown, section, history>>

SaveTap ==
  /\ pc = "setting"
  /\ pc' = "save" /\ step' = 1
  /\ \E text \in Texts("time") : texts' = [texts EXCEPT !["time"] = text]
  /\ section' \in 0 .. 2
  /\ UNCHANGED <<table, static, checkSection, died, onTop, mainMade, shown, history>>

SaveTimeField ==
  /\ pc = "save" /\ step = 1
  /\ IF texts["time"] = NoNumber
     THEN Crash
     ELSE /\ static' = [static EXCEPT !["time"] = texts["time"]]
          /\ step' = 2
          /\ UNCHANGED <<checkSection, texts, saveElse>>
  /\ UNCHANGED table

Statement(value, key) ==
  IF SyntaxError(value, key)
  THEN Crash /\ UNCHANGED table
  ELSE /\ UpdateDB(value, key)
       /\ texts' = [k \in DOMAIN texts |-> IF k = key THEN value ELSE texts[k]]
       /\ step' = step + 1
       /\ UNCHANGED <<static, checkSection, saveElse>>

SaveTime ==
  /\ pc = "save" /\ step = Place("time")
  /\ Statement(texts["time"], "time")

(* The value is given as the key and the key as the value.                 *)
SaveTrajectory ==
  /\ pc = "save" /\ step = Place(TRAJECTORY)
  /\ Statement(TRAJECTORY, shown)

SaveCoord(k, text) ==
  /\ pc = "save" /\ step = Place(k)
  /\ Statement(text, k)

SaveSection ==
  /\ pc = "save" /\ step = 4
  /\ checkSection' = section
  /\ step' = IF section = 2 THEN Place("lat") ELSE 8
  /\ UNCHANGED <<table, static, texts, saveElse>>

SaveSectionRow ==
  /\ pc = "save" /\ step = 8
  /\ Statement(<<"1", "2", "3">>[section + 1], CHECKSECTION)

(* "Update success"                                                        *)
SaveToast ==
  /\ pc = "save" /\ step = 9
  /\ pc' = "setting" /\ step' = 0
  /\ saved' = Written /\ savedSection' = section /\ savedHere' = TRUE
  /\ texts' = Blank /\ section' = 0
  /\ UNCHANGED <<table, static, checkSection, died, onTop, mainMade, shown, loaded>>

-----------------------------------------------------------------------------
Next ==
  \/ Start \/ Recreate \/ Kill
  \/ Load \/ LoadCrash \/ Loaded \/ Generate \/ Generated
  \/ ToSetting \/ Open \/ Back
  \/ \E k \in {"csv", "txt", TRAJECTORY} :
       \E file \in Others[k] \cup {Quoted, Malformed} : Pick(k, file)
  \/ SaveTap \/ SaveTimeField \/ SaveTime \/ SaveTrajectory \/ SaveSection
  \/ \E k \in Coords : \E text \in Texts(k) : SaveCoord(k, text)
  \/ SaveSectionRow \/ SaveToast

Spec == Init /\ [][Next]_vars

-----------------------------------------------------------------------------
(* The type of the state.                                                  *)
TypeOK ==
  /\ \A k \in Keys : /\ table[k] \in Seq(Texts(k))
                     /\ static[k] \in Values(k)
                     /\ saved[k] \in Texts(k) /\ k # "time" => loaded[k] \in Values(k)
  /\ checkSection \in 0 .. 2
  /\ pc \in {"none", "load", "main", "generate", "open", "setting", "save"}
  /\ step \in 0 .. 9
  /\ died \in {"no", "load", "open", "setting", "save", "generate"}
  /\ onTop \in {"main", "setting"} /\ mainMade \in BOOLEAN
  /\ shown \in Values(TRAJECTORY)
  /\ \A k \in Coords \cup {"time"} : texts[k] \in Texts(k)
  /\ section \in 0 .. 2
  /\ savedSection \in 0 .. 2 /\ savedHere \in BOOLEAN

(* A screen fails to come up only if a coordinate was saved that is no      *)
(* number; the app cannot be started any more then.  Nothing else that was  *)
(* typed or picked, and no Save or first start that was cut off, is in the  *)
(* way of a later start.                                                    *)
StartFailsOnlyOfText ==
  died \in {"load", "open"} => \E k \in Coords : table[k] = <<NoNumber>>

(* The table has what was picked and saved: after "Update success" what was *)
(* on the screen, after a Save that was cut off its texts up to there and   *)
(* the older ones behind.  Of the trajectory it has the one picked last, or *)
(* the initial one if a Save has shown that since; a Save that shows an     *)
(* older one says "Update success" as well, and does not store it.          *)
SavedIsStored ==
  pc \in {"main", "setting"} =>
    \A k \in Keys : table[k] = <<saved[k]>>

(* The generator gets the time and the section last saved in this process;  *)
(* the section is the CSV file after a restart, whatever was saved before.  *)
(* The files, the coordinates and the trajectory it gets are those that     *)
(* were stored when the main screen was made, and no later ones.            *)
GeneratesAsSaved ==
  pc = "generate" =>
    /\ checkSection = IF savedHere THEN savedSection ELSE 0
    /\ static["time"] = saved["time"]
    /\ \A k \in Keys \ {"time"} : static[k] = loaded[k]
=============================================================================
