--------------------------- MODULE SettingsProofs ---------------------------
(***************************************************************************)
(* Proofs about Settings, for any values of the settings: which screens    *)
(* come up again, what is stored, and what the generator gets, wherever    *)
(* the process is killed and of whatever it crashes.                       *)
(***************************************************************************)
EXTENDS Settings, TLAPS

LEMMA KeyOrderFacts ==
  /\ Len(KeyOrder) = 7
  /\ \A j \in 1 .. 7 : KeyOrder[j] \in Keys
  /\ \A i, j \in 1 .. 7 : KeyOrder[i] = KeyOrder[j] => i = j
  /\ \A k \in Keys : \E j \in 1 .. 7 : KeyOrder[j] = k
  BY DEF KeyOrder, Keys, TRAJECTORY

LEMMA KeyFacts ==
  /\ Coords \subseteq Keys /\ {"csv", "txt", "time", TRAJECTORY} \subseteq Keys
  /\ "time" \notin Coords /\ TRAJECTORY \notin Coords /\ TRAJECTORY # "time"
  /\ CHECKSECTION \notin Keys /\ NoNumber \notin Keys
  /\ \A k \in Keys : InitialFields[k] # NoNumber
  BY DEF Keys, Coords, TRAJECTORY, CHECKSECTION, NoNumber, InitialFields, Initial

(* Place() numbers the statements that write a row.                         *)
LEMMA PlaceFacts ==
  /\ Place("time") = 2 /\ Place(TRAJECTORY) = 3
  /\ \A k \in Coords : Place(k) \in 5 .. 7
  /\ \A k \in Keys : Place(k) \in {2, 3, 5, 6, 7, 9}
  /\ \A k \in Keys : Place(k) = 2 => k = "time"
  /\ \A k \in Keys : Place(k) = 3 => k = TRAJECTORY
  /\ \A k \in Keys : Place(k) \in 5 .. 7 => k \in Coords
  /\ \A k \in Keys : Place(k) = 5 => k = "lat"
  /\ \A k \in Keys : Place(k) = 6 => k = "lon"
  /\ \A k \in Keys : Place(k) = 7 => k = "hgt"
  BY DEF Place, Keys, Coords, TRAJECTORY

LEMMA Rows ==
  /\ \A v : <<v>> # << >> /\ Head(<<v>>) = v
  /\ \A v, w : <<v>> = <<w>> => v = w
  /\ \A v : Append(<< >>, v) = <<v>>
  /\ \A v, w : [r \in DOMAIN <<v>> |-> w] = <<w>>
  /\ \A w : [r \in DOMAIN << >> |-> w] = << >>
  OBVIOUS

-----------------------------------------------------------------------------
(* The inductive invariant.  The variables are functions; a key has at most *)
(* one row; only coordinates can be no numbers.                             *)
Functions ==
  /\ table = [k \in Keys |-> table[k]] /\ static = [k \in Keys |-> static[k]]
  /\ saved = [k \in Keys |-> saved[k]]
  /\ texts = [k \in Coords \cup {"time"} |-> texts[k]]
OneRow == \A k \in Keys : NoRow(k) \/ table[k] = <<Head(table[k])>>
Numbers ==
  /\ \A k \in Keys : static[k] # NoNumber
  /\ \A k \in Keys \ Coords : table[k] # <<NoNumber>>

(* A trajectory has the name of no key but its own.                         *)
NoKey(name) == name \notin Keys \ {TRAJECTORY}
Named ==
  /\ NoKey(shown) /\ NoKey(static[TRAJECTORY])
  /\ \A name : table[TRAJECTORY] = <<name>> => NoKey(name)

(* Where the process may be.                                                *)
Screens == {"main", "generate", "open", "setting", "save"}
Control ==
  /\ pc \in Screens \cup {"none", "load"}
  /\ onTop \in {"main", "setting"}
  /\ pc = "load" => step \in 1 .. 8
  /\ pc \in {"main", "generate"} => mainMade
  /\ pc # "none" => died = "no"
Saving ==
  pc = "save" => /\ step \in 1 .. 9
                 /\ step \in 5 .. 7 => section = 2
                 /\ step > 1 => texts["time"] # NoNumber /\ static["time"] = texts["time"]
                 /\ step > 4 => checkSection = section

(* The rows that are there: all, once the app was started to the end.       *)
Present ==
  /\ pc \in Screens \/ onTop = "setting" => \A k \in Keys : ~NoRow(k)
  /\ \A k \in Keys : NoRow(k) => static[k] = InitialFields[k] /\ saved[k] = InitialFields[k]

(* A row holds what is saved, as far as a Save has come.                    *)
Stored == \A k \in Keys : NoRow(k) \/ table[k] = <<Written[k]>>

(* The fields agree with the rows, while they are loaded, and with what was *)
(* saved when they were; the time and the section with what is saved now.   *)
Agree ==
  /\ pc = "load" => \A j \in 1 .. step - 1 : table[KeyOrder[j]] = <<static[KeyOrder[j]]>>
  /\ mainMade /\ pc # "load" => \A k \in Keys \ {"time"} : static[k] = loaded[k]
  /\ mainMade /\ pc \notin {"load", "save"} => static["time"] = saved["time"]
  /\ pc # "save" => checkSection = IF savedHere THEN savedSection ELSE 0

IInv == /\ Functions /\ OneRow /\ Numbers /\ Named /\ Control /\ Saving
        /\ Present /\ Stored /\ Agree /\ StartFailsOnlyOfText

-----------------------------------------------------------------------------
USE DEF vars, screenVars, history, saveElse, NoRow

(* Outside of a Save everything that is written is saved.                   *)
LEMMA Idle == pc # "save" => \A k \in Keys : Written[k] = saved[k]
  BY DEF Written, Executed
LEMMA IdleNext == pc' # "save" => \A k \in Keys : Written'[k] = saved'[k]
  BY DEF Written, Executed

(* Steps from one screen to another that leave the data alone.              *)
LEMMA MovesKeep ==
  ASSUME IInv, pc \notin {"save", "load"}, pc' # "save", pc' = "load" => step' = 1,
         UNCHANGED <<table, static, checkSection, mainMade, texts, history>>,
         NoKey(shown'), Control', died' # died => died' = "no",
         pc' \in Screens \/ onTop' = "setting" => pc \in Screens \/ onTop = "setting"
  PROVE  IInv'
<1>1. Functions' /\ OneRow' /\ Numbers' BY DEF IInv, Functions, OneRow, Numbers
<1>2. Named' BY DEF IInv, Named, NoKey
<1>3. Saving' BY DEF Saving
<1>4. Present' BY DEF IInv, Present
<1>5. Stored' BY Idle, IdleNext DEF IInv, Stored
<1>6. Agree' BY DEF IInv, Agree
<1>7. StartFailsOnlyOfText' BY DEF IInv, StartFailsOnlyOfText
<1> QED BY <1>1, <1>2, <1>3, <1>4, <1>5, <1>6, <1>7 DEF IInv

LEMMA StartStep == ASSUME IInv, Start PROVE IInv'
<1>1. Control' BY DEF Start, IInv, Control, Screens
<1>2. pc' \in Screens => onTop = "setting" BY DEF Start, IInv, Control, Screens
<1>3. NoKey(shown') BY DEF Start, IInv, Named
<1> QED BY <1>1, <1>2, <1>3, MovesKeep DEF Start

LEMMA RecreateStep == ASSUME IInv, Recreate PROVE IInv'
<1>1. Control' BY DEF Recreate, IInv, Control, Screens
<1>2. NoKey(shown') BY DEF Recreate, IInv, Named
<1>3. pc \in Screens BY DEF Recreate, Screens
<1> QED BY <1>1, <1>2, <1>3, MovesKeep DEF Recreate

LEMMA GenerateStep == ASSUME IInv, Generate PROVE IInv'
<1>1. Control' BY DEF Generate, IInv, Control, Screens
<1>2. NoKey(shown') BY DEF Generate, IInv, Named
<1>3. pc \in Screens BY DEF Generate, Screens
<1> QED BY <1>1, <1>2, <1>3, MovesKeep DEF Generate

LEMMA ToSettingStep == ASSUME IInv, ToSetting PROVE IInv'
<1>1. Control' BY DEF ToSetting, IInv, Control, Screens
<1>2. NoKey(shown') BY DEF ToSetting, IInv, Named
<1>3. pc \in Screens BY DEF ToSetting, Screens
<1> QED BY <1>1, <1>2, <1>3, MovesKeep DEF ToSetting

LEMMA BackStep == ASSUME IInv, Back PROVE IInv'
<1>1. Control' BY DEF Back, IInv, Control, Screens
<1>2. NoKey(shown') BY DEF Back, NoKey
<1>3. pc \in Screens BY DEF Back, Screens
<1> QED BY <1>1, <1>2, <1>3, MovesKeep DEF Back

(* The end of the process: what the statements executed have written is    *)
(* saved, and the fields are initial again.                                *)
LEMMA GoneKeeps ==
  ASSUME IInv, Gone, UNCHANGED table, onTop' \in {"main", onTop},
         died' \in {"load", "open"} => \E k \in Coords : table[k] = <<NoNumber>>
  PROVE  IInv'
<1>1. Functions' BY DEF Gone, Written, InitialFields, Blank, IInv, Functions
<1>2. OneRow' BY DEF IInv, OneRow
<1>3. Numbers' BY KeyFacts DEF Gone, IInv, Numbers
<1>4. Named' BY KeyFacts DEF Gone, InitialFields, IInv, Named, NoKey
<1>5. Control' /\ Saving' BY DEF Gone, IInv, Control, Saving
<1>6. Present'
  <2>1. onTop' = "setting" => \A k \in Keys : ~NoRow(k)' BY DEF IInv, Present
  <2>2. ASSUME NEW k \in Keys, NoRow(k) PROVE saved'[k] = InitialFields[k]
    <3>1. pc # "save" BY <2>2 DEF IInv, Present, Screens
    <3> QED BY <2>2, <3>1, Idle DEF Gone, IInv, Present
  <2> QED BY <2>1, <2>2 DEF Gone, Present, Screens
<1>7. Stored' BY IdleNext DEF Gone, IInv, Stored
<1>8. Agree' BY DEF Gone, Agree
<1>9. StartFailsOnlyOfText' BY DEF StartFailsOnlyOfText
<1> QED BY <1>1, <1>2, <1>3, <1>4, <1>5, <1>6, <1>7, <1>8, <1>9 DEF IInv

LEMMA CrashKeeps ==
  ASSUME IInv, Crash, UNCHANGED table, pc \notin {"load", "open"} PROVE IInv'
  BY GoneKeeps DEF Crash

LEMMA KillStep == ASSUME IInv, Kill PROVE IInv'
  BY GoneKeeps DEF Kill

LEMMA GeneratedStep == ASSUME IInv, Generated PROVE IInv'
<1>1. CASE InvalidDuration BY <1>1, CrashKeeps DEF Generated
<1>2. CASE ~InvalidDuration
  <2>1. Control' BY <1>2 DEF Generated, IInv, Control, Screens
  <2>2. NoKey(shown') BY <1>2 DEF Generated, IInv, Named
  <2>3. pc \in Screens BY DEF Generated, Screens
  <2> QED BY <1>2, <2>1, <2>2, <2>3, MovesKeep DEF Generated
<1> QED BY <1>1, <1>2

(* The screen of the settings always finds its rows.                        *)
LEMMA OpenStep == ASSUME IInv, Open PROVE IInv'
<1>1. pc \in Screens BY DEF Open, Screens
<1>2. \A k \in Keys : ~NoRow(k) BY <1>1 DEF IInv, Present
<1>3. Control' BY <1>2 DEF Open, IInv, Control, Screens
<1>4. NoKey(shown') BY <1>2 DEF Open, IInv, Named
<1> QED BY <1>1, <1>2, <1>3, <1>4, MovesKeep DEF Open

LEMMA LoadCrashStep == ASSUME IInv, LoadCrash PROVE IInv'
<1> DEFINE k == KeyOrder[step]
<1>1. step \in 1 .. 7 BY KeyOrderFacts DEF LoadCrash, IInv, Control
<1>2. k \in Keys /\ Unparsable(k) BY <1>1, KeyOrderFacts DEF LoadCrash
<1> HIDE DEF k
<1>3. table[k] = <<NoNumber>> BY <1>2 DEF Unparsable, IInv, OneRow
<1>4. k \in Coords BY <1>2, <1>3 DEF IInv, Numbers
<1> QED BY <1>3, <1>4, GoneKeeps DEF LoadCrash, Crash

-----------------------------------------------------------------------------
(* Loading.                                                                 *)
LEMMA LoadStep == ASSUME IInv, Load PROVE IInv'
<1> DEFINE k == KeyOrder[step]
<1>1. step \in 1 .. 7 /\ step' = step + 1 /\ pc' = "load" /\ pc = "load"
  BY KeyOrderFacts DEF Load, IInv, Control
<1>2. k \in Keys BY <1>1, KeyOrderFacts
<1>3. ~Unparsable(k) /\ (IF NoRow(k) THEN Insert(k) ELSE LoadField(k)) BY DEF Load
<1>u. UNCHANGED <<checkSection, died, screenVars, history>> BY DEF Load
<1> HIDE DEF k
<1>4. /\ table' = [j \in Keys |-> IF j = k THEN <<static'[k]>> ELSE table[j]]
      /\ static' = [j \in Keys |-> IF j = k THEN static'[k] ELSE static[j]]
      /\ static'[k] # NoNumber
      /\ static'[k] = IF NoRow(k) THEN static[k] ELSE Head(table[k])
  <2>1. CASE NoRow(k)
    <3>1. table' = [table EXCEPT ![k] = Append(@, static[k])] /\ static' = static
      BY <1>3, <2>1 DEF Insert
    <3>2. Append(table[k], static[k]) = <<static[k]>> BY <2>1, Rows
    <3>3. table' = [j \in Keys |-> IF j = k THEN <<static[k]>> ELSE table[j]]
      BY <3>1, <3>2, <1>2 DEF IInv, Functions
    <3>4. static' = [j \in Keys |-> IF j = k THEN static'[k] ELSE static[j]]
      BY <3>1 DEF IInv, Functions
    <3> QED BY <2>1, <3>1, <3>3, <3>4, <1>2 DEF IInv, Numbers
  <2>2. CASE ~NoRow(k)
    <3>1. static' = [static EXCEPT ![k] = Head(table[k])] /\ table' = table
      BY <1>3, <2>2 DEF LoadField
    <3>2. table[k] = <<Head(table[k])>> BY <2>2, <1>2 DEF IInv, OneRow
    <3>3. Head(table[k]) # NoNumber BY <1>3, <2>2 DEF Unparsable
    <3>4. static' = [j \in Keys |-> IF j = k THEN Head(table[k]) ELSE static[j]]
      BY <3>1 DEF IInv, Functions
    <3>5. static'[k] = Head(table[k]) BY <3>4, <1>2
    <3>6. table' = [j \in Keys |-> IF j = k THEN <<static'[k]>> ELSE table[j]]
      BY <3>1, <3>2, <3>5 DEF IInv, Functions
    <3> QED BY <2>2, <3>3, <3>4, <3>5, <3>6
  <2> QED BY <2>1, <2>2
<1>5. /\ \A j \in Keys : j # k => table'[j] = table[j] /\ static'[j] = static[j]
      /\ table'[k] = <<static'[k]>> /\ table'[k] # <<>>
  <2>1. table'[k] = <<static'[k]>> BY <1>2, <1>4
  <2>2. table'[k] # <<>> BY <2>1, Rows
  <2>3. ASSUME NEW j \in Keys, j # k PROVE table'[j] = table[j] /\ static'[j] = static[j]
    <3>1. table'[j] = table[j] BY <1>4, <2>3
    <3>2. static'[j] = static[j] BY <1>4, <2>3
    <3> QED BY <3>1, <3>2
  <2> QED BY <2>1, <2>2, <2>3
<1>6. Functions' BY <1>2, <1>4, <1>u DEF IInv, Functions
<1>7. OneRow' BY <1>4, <1>5, Rows DEF IInv, OneRow
<1>8. Numbers' BY <1>4, <1>5, Rows DEF IInv, Numbers
<1>9. Named'
  <2>1. NoKey(shown') BY <1>u DEF IInv, Named
  <2>2. CASE k = TRAJECTORY
    <3>1. NoKey(static'[k])
      <4>1. CASE NoRow(k) BY <1>4, <2>2, <4>1 DEF IInv, Named
      <4>2. CASE ~NoRow(k)
        <5>1. table[k] = <<Head(table[k])>> BY <1>2, <4>2 DEF IInv, OneRow
        <5> QED BY <1>4, <2>2, <4>2, <5>1 DEF IInv, Named
      <4> QED BY <4>1, <4>2
    <3> QED BY <2>1, <2>2, <3>1, <1>5, Rows DEF Named
  <2>3. CASE k # TRAJECTORY
    <3>1. table'[TRAJECTORY] = table[TRAJECTORY] /\ static'[TRAJECTORY] = static[TRAJECTORY]
      BY <1>5, <2>3, KeyFacts
    <3> QED BY <2>1, <3>1 DEF IInv, Named, NoKey
  <2> QED BY <2>2, <2>3
<1>10. Control' BY <1>1, <1>u DEF IInv, Control
<1>11. Saving' BY <1>1 DEF Saving
<1>12. Present'
  <2>0. \A j \in Keys : NoRow(j)' => NoRow(j) /\ j # k BY <1>5
  <2>1. onTop' = "setting" => \A j \in Keys : ~NoRow(j)' BY <2>0, <1>u DEF IInv, Present
  <2>2. ASSUME NEW j \in Keys, NoRow(j)'
        PROVE  static'[j] = InitialFields[j] /\ saved'[j] = InitialFields[j]
    BY <2>0, <2>2, <1>5, <1>u DEF IInv, Present
  <2> QED BY <2>1, <2>2, <1>1 DEF Present, Screens
<1>13. Stored'
  <2> SUFFICES ASSUME NEW j \in Keys, ~NoRow(j)' PROVE table'[j] = <<saved[j]>>
    BY <1>1, <1>u, IdleNext DEF Stored
  <2>1. NoRow(j) \/ table[j] = <<saved[j]>> BY <1>1, Idle DEF IInv, Stored
  <2>2. CASE j # k BY <2>1, <2>2, <1>5
  <2>3. CASE j = k /\ NoRow(k)
    <3>1. static[k] = saved[k] BY <1>2, <2>3 DEF IInv, Present
    <3> QED BY <2>3, <3>1, <1>4, <1>5
  <2>4. CASE j = k /\ ~NoRow(k)
    BY <2>1, <2>4, <1>4, <1>5, Rows
  <2> QED BY <2>2, <2>3, <2>4
<1>14. Agree'
  <2>1. ASSUME NEW j \in 1 .. step PROVE table'[KeyOrder[j]] = <<static'[KeyOrder[j]]>>
    <3>1. CASE j = step BY <3>1, <1>5 DEF k
    <3>2. CASE j # step
      <4>1. j \in 1 .. step - 1 /\ j \in 1 .. 7 BY <1>1, <3>2
      <4>2. KeyOrder[j] # k /\ KeyOrder[j] \in Keys BY <4>1, <1>1, <3>2, KeyOrderFacts DEF k
      <4>3. table[KeyOrder[j]] = <<static[KeyOrder[j]]>> BY <4>1, <1>1 DEF IInv, Agree
      <4> QED BY <4>2, <4>3, <1>5
    <3> QED BY <3>1, <3>2
  <2> QED BY <1>1, <1>u, <2>1 DEF IInv, Agree
<1>15. StartFailsOnlyOfText' BY <1>1, <1>u DEF StartFailsOnlyOfText, IInv, Control
<1> QED BY <1>6, <1>7, <1>8, <1>9, <1>10, <1>11, <1>12, <1>13, <1>14, <1>15 DEF IInv

LEMMA LoadedStep == ASSUME IInv, Loaded PROVE IInv'
<1>1. /\ pc = "load" /\ pc' = "main" /\ mainMade' = TRUE /\ onTop' = "main"
      /\ loaded' = ButTime(saved)
      /\ UNCHANGED <<table, static, checkSection, died, shown, texts, section, saved,
                     savedSection, savedHere>>
  BY DEF Loaded
<1>2. step = 8 BY KeyOrderFacts DEF Loaded, IInv, Control
<1>3. \A j \in 1 .. 7 : table[KeyOrder[j]] = <<static[KeyOrder[j]]>>
  <2> HIDE DEF NoRow
  <2> QED BY <1>1, <1>2, SMT DEF IInv, Agree
<1>4. \A k \in Keys : table[k] = <<static[k]>> BY <1>3, KeyOrderFacts
<1>5. \A k \in Keys : ~NoRow(k) BY <1>4, Rows
<1>6. \A k \in Keys : static[k] = saved[k] BY <1>1, <1>4, <1>5, Idle, Rows DEF IInv, Stored
<1>7. Functions' /\ OneRow' /\ Numbers' /\ Named'
  BY <1>1 DEF IInv, Functions, OneRow, Numbers, Named, NoKey
<1>8. Control' /\ Saving' BY <1>1 DEF IInv, Control, Saving, Screens
<1>9. Present' BY <1>1, <1>5 DEF Present
<1>10. Stored' BY <1>1, Idle, IdleNext DEF IInv, Stored
<1>11. Agree' BY <1>1, <1>6, KeyFacts DEF IInv, Agree, ButTime
<1>12. StartFailsOnlyOfText' BY <1>1 DEF StartFailsOnlyOfText, IInv, Control
<1> QED BY <1>7, <1>8, <1>9, <1>10, <1>11, <1>12 DEF IInv

-----------------------------------------------------------------------------
(* Writing.                                                                 *)
LEMMA Updated ==
  ASSUME OneRow, NEW key, NEW v, UpdateDB(v, key)
  PROVE  table' = [j \in Keys |-> IF j = key /\ ~NoRow(j) THEN <<v>> ELSE table[j]]
<1>1. ASSUME NEW j \in Keys PROVE [r \in DOMAIN table[j] |-> v] = IF NoRow(j) THEN <<>> ELSE <<v>>
  <2>1. CASE NoRow(j) BY <2>1, Rows
  <2>2. CASE ~NoRow(j)
    <3>1. table[j] = <<Head(table[j])>> BY <2>2 DEF OneRow
    <3> QED BY <2>2, <3>1, Rows
  <2> QED BY <2>1, <2>2
<1> QED BY <1>1 DEF UpdateDB

LEMMA PickStep ==
  ASSUME IInv, NEW k \in {"csv", "txt", TRAJECTORY},
         NEW file \in Others[k] \cup {Quoted, Malformed}, Pick(k, file)
  PROVE  IInv'
<1>1. CASE file = Malformed \/ SyntaxError(file, k)
  BY <1>1, CrashKeeps DEF Pick
<1>2. CASE ~(file = Malformed \/ SyntaxError(file, k))
  <2>1. k \in Keys /\ k \notin Coords /\ k # "time" BY KeyFacts DEF Coords, TRAJECTORY
  <2>2. file \in Others[k] BY <1>2 DEF SyntaxError
  <2>3. file # NoNumber /\ NoKey(file) BY <2>1, <2>2, ValuesDiffer DEF NoKey
  <2>4. /\ UpdateDB(file, k)
        /\ shown' = IF k = TRAJECTORY THEN file ELSE shown
        /\ saved' = [saved EXCEPT ![k] = file]
        /\ pc = "setting" /\ pc' = "setting"
        /\ UNCHANGED <<static, checkSection, died, onTop, mainMade, texts, section,
                       savedSection, savedHere, loaded>>
    BY <1>2 DEF Pick, PickToTable
  <2>5. \A j \in Keys : ~NoRow(j) BY <2>4 DEF IInv, Present, Screens
  <2>6. table' = [j \in Keys |-> IF j = k THEN <<file>> ELSE table[j]]
    BY <2>4, <2>5, Updated DEF IInv
  <2>7. saved' = [j \in Keys |-> IF j = k THEN file ELSE saved[j]]
    BY <2>1, <2>4 DEF IInv, Functions
  <2>8. Functions' BY <2>4, <2>6, <2>7 DEF IInv, Functions
  <2>9. OneRow' BY <2>6, Rows DEF IInv, OneRow
  <2>10. Numbers' BY <2>3, <2>4, <2>6, Rows DEF IInv, Numbers
  <2>11. Named' BY <2>3, <2>4, <2>6, KeyFacts, Rows DEF IInv, Named, NoKey
  <2>12. Control' /\ Saving' BY <2>4 DEF IInv, Control, Saving
  <2>13. Present' BY <2>5, <2>6, Rows DEF Present
  <2>14. Stored' BY <2>4, <2>5, <2>6, <2>7, Idle, IdleNext DEF IInv, Stored
  <2>15. Agree' BY <2>1, <2>4, <2>7, KeyFacts DEF IInv, Agree
  <2>16. StartFailsOnlyOfText' BY <2>4 DEF StartFailsOnlyOfText, IInv, Control
  <2> QED BY <2>8, <2>9, <2>10, <2>11, <2>12, <2>13, <2>14, <2>15, <2>16 DEF IInv
<1> QED BY <1>1, <1>2

LEMMA SaveTapStep == ASSUME IInv, SaveTap PROVE IInv'
<1>1. PICK text \in Texts("time") : texts' = [texts EXCEPT !["time"] = text] BY DEF SaveTap
<1>2. /\ pc = "setting" /\ pc' = "save" /\ step' = 1
      /\ UNCHANGED <<table, static, checkSection, died, onTop, mainMade, shown, history>>
  BY DEF SaveTap
<1>3. Functions' /\ OneRow' /\ Numbers' /\ Named'
  BY <1>1, <1>2 DEF IInv, Functions, OneRow, Numbers, Named, NoKey
<1>4. Control' /\ Saving' BY <1>2 DEF IInv, Control, Saving, Screens
<1>5. Present' BY <1>2 DEF IInv, Present, Screens
<1>6. \A k \in Keys : Written'[k] = saved[k]
  BY <1>2, PlaceFacts DEF Written, Executed
<1>7. Stored' BY <1>2, <1>6, Idle DEF IInv, Stored
<1>8. Agree' BY <1>2 DEF IInv, Agree
<1>9. StartFailsOnlyOfText' BY <1>2 DEF StartFailsOnlyOfText, IInv
<1> QED BY <1>3, <1>4, <1>5, <1>7, <1>8, <1>9 DEF IInv

LEMMA SaveTimeFieldStep == ASSUME IInv, SaveTimeField PROVE IInv'
<1>1. CASE texts["time"] = NoNumber
  BY <1>1, CrashKeeps DEF SaveTimeField
<1>2. CASE texts["time"] # NoNumber
  <2>1. /\ static' = [static EXCEPT !["time"] = texts["time"]]
        /\ pc = "save" /\ pc' = "save" /\ step = 1 /\ step' = 2
        /\ UNCHANGED <<table, checkSection, died, screenVars, history>>
    BY <1>2 DEF SaveTimeField
  <2>2. static' = [k \in Keys |-> IF k = "time" THEN texts["time"] ELSE static[k]]
    BY <2>1 DEF IInv, Functions
  <2>3. Functions' /\ OneRow' /\ Numbers'
    BY <1>2, <2>1, <2>2 DEF IInv, Functions, OneRow, Numbers
  <2>4. Named' BY <2>1, <2>2, KeyFacts DEF IInv, Named, NoKey
  <2>5. Control' BY <2>1 DEF IInv, Control
  <2>6. Saving' BY <1>2, <2>1, <2>2, KeyFacts DEF Saving
  <2>7. \A k \in Keys : ~NoRow(k) BY <2>1 DEF IInv, Present, Screens
  <2>8. Present' BY <2>1, <2>7 DEF Present
  <2>9. Written' = Written BY <2>1, PlaceFacts DEF Written, Executed
  <2>10. Stored' BY <2>1, <2>9 DEF IInv, Stored
  <2>11. Agree' BY <2>1, <2>2 DEF IInv, Agree
  <2>12. StartFailsOnlyOfText' BY <2>1 DEF StartFailsOnlyOfText, IInv
  <2> QED BY <2>3, <2>4, <2>5, <2>6, <2>8, <2>10, <2>11, <2>12 DEF IInv
<1> QED BY <1>1, <1>2

(* A statement of Save writes the row that has its place, if any.           *)
LEMMA StatementKeeps ==
  ASSUME IInv, pc = "save", step \in {2, 3, 5, 6, 7, 8}, NEW v, NEW key, Statement(v, key),
         key \in Keys => Place(key) = step,
         key = "time" => v = texts["time"],
         key = TRAJECTORY => v = TRAJECTORY /\ shown = TRAJECTORY,
         \A k \in Keys : Place(k) = step => k = key \/ (k = TRAJECTORY /\ shown # TRAJECTORY)
  PROVE  IInv'
<1>1. CASE SyntaxError(v, key) BY <1>1, CrashKeeps DEF Statement
<1>2. CASE ~SyntaxError(v, key)
  <2>1. /\ UpdateDB(v, key) /\ step' = step + 1 /\ pc' = "save"
        /\ texts' = [k \in DOMAIN texts |-> IF k = key THEN v ELSE texts[k]]
        /\ UNCHANGED <<static, checkSection, died, onTop, mainMade, shown, section, history>>
    BY <1>2 DEF Statement
  <2>2. texts' = [k \in Coords \cup {"time"} |-> IF k = key THEN v ELSE texts[k]]
    BY <2>1 DEF IInv, Functions
  <2>3. \A k \in Keys : ~NoRow(k) BY DEF IInv, Present, Screens
  <2>4. table' = [k \in Keys |-> IF k = key THEN <<v>> ELSE table[k]]
    BY <2>1, <2>3, Updated DEF IInv
  <2>5. key \in Keys \ Coords => v # NoNumber
    <3> SUFFICES ASSUME key \in Keys \ Coords PROVE v # NoNumber
      OBVIOUS
    <3>1. Place(key) \in {2, 3} BY PlaceFacts
    <3>2. key = "time" \/ key = TRAJECTORY BY <3>1, PlaceFacts
    <3>3. texts["time"] # NoNumber BY DEF IInv, Saving
    <3> QED BY <3>2, <3>3, KeyFacts
  <2>6. Functions' BY <2>1, <2>2, <2>4 DEF IInv, Functions
  <2>7. OneRow' BY <2>4, Rows DEF IInv, OneRow
  <2>8. Numbers' BY <2>1, <2>4, <2>5, Rows DEF IInv, Numbers
  <2>9. Named'
    <3>1. ASSUME NEW name, table'[TRAJECTORY] = <<name>> PROVE NoKey(name)
      <4>1. CASE key = TRAJECTORY
        <5>1. table'[TRAJECTORY] = <<TRAJECTORY>> BY <2>4, <4>1, KeyFacts
        <5> QED BY <3>1, <5>1, Rows DEF NoKey
      <4>2. CASE key # TRAJECTORY
        <5>1. table'[TRAJECTORY] = table[TRAJECTORY] BY <2>4, <4>2, KeyFacts
        <5> QED BY <3>1, <5>1 DEF IInv, Named
      <4> QED BY <4>1, <4>2
    <3> QED BY <2>1, <3>1 DEF IInv, Named, NoKey
  <2>10. Control' BY <2>1 DEF IInv, Control
  <2>11. texts'["time"] = texts["time"] BY <2>2
  <2>12. Saving'
    <3>1. /\ step' \in 1 .. 9 /\ step > 1
          /\ step' \in 5 .. 7 => step \in 5 .. 7
          /\ step' > 4 => step > 4
      BY <2>1
    <3> QED BY <2>1, <2>11, <3>1 DEF IInv, Saving
  <2>13. Present' BY <2>3, <2>4, Rows DEF Present
  <2>14. ASSUME NEW k \in Keys PROVE table'[k] = <<Written'[k]>>
    <3>1. table[k] = <<Written[k]>> BY <2>3 DEF IInv, Stored
    <3>2. Written'[k] = IF ~Executed(k)' THEN saved[k]
                        ELSE IF k # TRAJECTORY THEN texts'[k]
                        ELSE IF shown = TRAJECTORY THEN TRAJECTORY ELSE saved[k]
      BY <2>1 DEF Written
    <3>3. Written[k] = IF ~Executed(k) THEN saved[k]
                       ELSE IF k # TRAJECTORY THEN texts[k]
                       ELSE IF shown = TRAJECTORY THEN TRAJECTORY ELSE saved[k]
      BY DEF Written
    <3>4. Executed(k)' <=> (Place(k) <= step /\ (k \in Coords => section = 2))
      BY <2>1, PlaceFacts DEF Executed, Place
    <3>5. Executed(k) <=> (Place(k) < step /\ (k \in Coords => section = 2))
      BY DEF Executed
    <3>6. CASE k = key
      <4>1. Place(k) = step BY <3>6
      <4>2. k \in Coords => section = 2 BY <4>1, PlaceFacts DEF IInv, Saving
      <4>3. Executed(k)' BY <3>4, <4>1, <4>2
      <4>4. k \in Coords \cup {"time", TRAJECTORY}
        BY <4>1, PlaceFacts
      <4>5. k # TRAJECTORY => texts'[k] = v BY <2>2, <3>6, <4>4
      <4>6. Written'[k] = v BY <3>2, <4>3, <4>5, <3>6
      <4> QED BY <2>4, <3>6, <4>6
    <3>7. CASE k # key
      <4>1. table'[k] = table[k] BY <2>4, <3>7
      <4>2. CASE Place(k) = step
        <5>1. k = TRAJECTORY /\ shown # TRAJECTORY BY <3>7, <4>2
        <5>2. Written'[k] = Written[k] BY <3>2, <3>3, <5>1
        <5> QED BY <3>1, <4>1, <5>2
      <4>3. CASE Place(k) # step
        <5>1. Executed(k)' <=> Executed(k) BY <3>4, <3>5, <4>3, PlaceFacts
        <5>2. Executed(k) /\ k # TRAJECTORY => texts'[k] = texts[k]
          <6> SUFFICES ASSUME Executed(k), k # TRAJECTORY PROVE texts'[k] = texts[k]
            OBVIOUS
          <6>1. Place(k) \in {2, 5, 6, 7} BY <3>5, PlaceFacts
          <6>2. k \in Coords \cup {"time"} BY <6>1, PlaceFacts
          <6> QED BY <2>2, <3>7, <6>2
        <5>3. Written'[k] = Written[k] BY <3>2, <3>3, <5>1, <5>2
        <5> QED BY <3>1, <4>1, <5>3
      <4> QED BY <4>2, <4>3
    <3> QED BY <3>6, <3>7
  <2>15. Stored' BY <2>14 DEF Stored
  <2>16. Agree' BY <2>1 DEF IInv, Agree
  <2>17. StartFailsOnlyOfText' BY <2>1 DEF StartFailsOnlyOfText, IInv, Control
  <2> QED BY <2>6, <2>7, <2>8, <2>9, <2>10, <2>12, <2>13, <2>15, <2>16, <2>17 DEF IInv
<1> QED BY <1>1, <1>2

LEMMA SaveTimeStep == ASSUME IInv, SaveTime PROVE IInv'
<1>1. step = 2 /\ pc = "save" BY PlaceFacts DEF SaveTime
<1>2. \A k \in Keys : Place(k) = step => k = "time" BY <1>1, PlaceFacts
<1> QED BY <1>1, <1>2, PlaceFacts, KeyFacts, StatementKeeps DEF SaveTime

LEMMA SaveTrajectoryStep == ASSUME IInv, SaveTrajectory PROVE IInv'
<1>1. step = 3 /\ pc = "save" BY PlaceFacts DEF SaveTrajectory
<1>2. shown \in Keys => shown = TRAJECTORY BY DEF IInv, Named, NoKey
<1>3. \A k \in Keys : Place(k) = step => k = TRAJECTORY BY <1>1, PlaceFacts
<1> QED BY <1>1, <1>2, <1>3, PlaceFacts, KeyFacts, StatementKeeps DEF SaveTrajectory

LEMMA SaveCoordStep ==
  ASSUME IInv, NEW c \in Coords, NEW text, SaveCoord(c, text) PROVE IInv'
<1>1. pc = "save" /\ step = Place(c) /\ Statement(text, c) BY DEF SaveCoord
<1>2. c \in Keys /\ step \in 5 .. 7 BY <1>1, KeyFacts, PlaceFacts
<1>3. ASSUME NEW k \in Keys, Place(k) = step PROVE k = c
  <2>1. step = 5 \/ step = 6 \/ step = 7 BY <1>2
  <2> QED BY <1>1, <1>2, <1>3, <2>1, PlaceFacts
<1> QED BY <1>1, <1>2, <1>3, KeyFacts, StatementKeeps

(* The key of the section has no row.                                       *)
LEMMA SaveSectionRowStep == ASSUME IInv, SaveSectionRow PROVE IInv'
<1> DEFINE v == <<"1", "2", "3">>[section + 1]
<1>1. step = 8 /\ pc = "save" /\ Statement(v, CHECKSECTION) BY DEF SaveSectionRow
<1> HIDE DEF v
<1>2. \A k \in Keys : Place(k) # step BY <1>1, PlaceFacts
<1>3. CHECKSECTION \notin Keys BY KeyFacts
<1> QED BY <1>1, <1>2, <1>3, KeyFacts, StatementKeeps

LEMMA SaveSectionStep == ASSUME IInv, SaveSection PROVE IInv'
<1>1. /\ pc = "save" /\ pc' = "save" /\ step = 4 /\ checkSection' = section
      /\ step' = IF section = 2 THEN 5 ELSE 8
      /\ UNCHANGED <<table, static, died, screenVars, history>>
  BY DEF SaveSection, Place
<1>2. Functions' /\ OneRow' /\ Numbers' /\ Named'
  BY <1>1 DEF IInv, Functions, OneRow, Numbers, Named, NoKey
<1>3. Control' /\ Saving' BY <1>1 DEF IInv, Control, Saving
<1>4. Present' BY <1>1 DEF IInv, Present
<1>5. ASSUME NEW k \in Keys PROVE Written'[k] = Written[k]
  <2>1. Executed(k)' <=> Executed(k)
    <3>1. Place(k) \in {2, 3, 5, 6, 7, 9} BY PlaceFacts
    <3>2. Place(k) \in 5 .. 7 => k \in Coords BY PlaceFacts
    <3>3. Executed(k)' <=> (Place(k) < step' /\ (k \in Coords => section = 2))
      BY <1>1 DEF Executed, Place
    <3>4. Executed(k) <=> (Place(k) < step /\ (k \in Coords => section = 2))
      BY <1>1 DEF Executed
    <3>5. CASE section = 2 BY <1>1, <3>1, <3>3, <3>4, <3>5
    <3>6. CASE section # 2 BY <1>1, <3>1, <3>2, <3>3, <3>4, <3>6
    <3> QED BY <3>5, <3>6
  <2> QED BY <1>1, <2>1 DEF Written
<1>6. Stored' BY <1>1, <1>5 DEF IInv, Stored
<1>7. Agree' BY <1>1 DEF IInv, Agree
<1>8. StartFailsOnlyOfText' BY <1>1 DEF StartFailsOnlyOfText, IInv
<1> QED BY <1>2, <1>3, <1>4, <1>6, <1>7, <1>8 DEF IInv

LEMMA SaveToastStep == ASSUME IInv, SaveToast PROVE IInv'
<1>1. /\ pc = "save" /\ step = 9 /\ pc' = "setting" /\ texts' = Blank
      /\ saved' = Written /\ savedSection' = section /\ savedHere' = TRUE
      /\ UNCHANGED <<table, static, checkSection, died, onTop, mainMade, shown, loaded>>
  BY DEF SaveToast
<1>2. Functions' BY <1>1 DEF IInv, Functions, Written, Blank
<1>3. OneRow' /\ Numbers' /\ Named'
  BY <1>1 DEF IInv, OneRow, Numbers, Named, NoKey
<1>4. Control' /\ Saving' BY <1>1 DEF IInv, Control, Saving, Screens
<1>5. \A k \in Keys : ~NoRow(k) BY <1>1 DEF IInv, Present, Screens
<1>6. Present' BY <1>1, <1>5 DEF Present
<1>7. Stored' BY <1>1, IdleNext DEF IInv, Stored
<1>8. static["time"] = Written["time"]
  <2>1. Executed("time") BY <1>1, PlaceFacts, KeyFacts DEF Executed
  <2>2. Written["time"] = texts["time"] BY <2>1, KeyFacts DEF Written
  <2> QED BY <1>1, <2>2 DEF IInv, Saving
<1>9. Agree' BY <1>1, <1>8 DEF IInv, Agree, Saving
<1>10. StartFailsOnlyOfText' BY <1>1 DEF StartFailsOnlyOfText, IInv
<1> QED BY <1>2, <1>3, <1>4, <1>6, <1>7, <1>9, <1>10 DEF IInv

-----------------------------------------------------------------------------
LEMMA InitIInv == Init => IInv
<1> SUFFICES ASSUME Init PROVE IInv
  OBVIOUS
<1>1. Functions /\ OneRow /\ Numbers
  BY KeyFacts DEF Init, InitialFields, Blank, Functions, OneRow, Numbers
<1>2. Named BY KeyFacts, Rows DEF Init, InitialFields, Named, NoKey
<1>3. Control /\ Saving /\ Present /\ Stored
  BY DEF Init, Control, Saving, Present, Stored, Screens
<1>4. Agree /\ StartFailsOnlyOfText BY DEF Init, Agree, StartFailsOnlyOfText
<1> QED BY <1>1, <1>2, <1>3, <1>4 DEF IInv

LEMMA NextIInv == IInv /\ [Next]_vars => IInv'
<1> SUFFICES ASSUME IInv, [Next]_vars PROVE IInv'
  OBVIOUS
<1>1. Start \/ Recreate \/ Kill => IInv' BY StartStep, RecreateStep, KillStep
<1>2. Load \/ LoadCrash \/ Loaded => IInv' BY LoadStep, LoadCrashStep, LoadedStep
<1>3. Generate \/ Generated => IInv' BY GenerateStep, GeneratedStep
<1>4. ToSetting \/ Open \/ Back => IInv' BY ToSettingStep, OpenStep, BackStep
<1>5. ASSUME NEW k \in {"csv", "txt", TRAJECTORY},
             NEW file \in Others[k] \cup {Quoted, Malformed}, Pick(k, file)
      PROVE  IInv'
  BY <1>5, PickStep
<1>6. SaveTap \/ SaveTimeField \/ SaveTime \/ SaveTrajectory \/ SaveSection => IInv'
  BY SaveTapStep, SaveTimeFieldStep, SaveTimeStep, SaveTrajectoryStep, SaveSectionStep
<1>7. ASSUME NEW k \in Coords, NEW text \in Texts(k), SaveCoord(k, text) PROVE IInv'
  BY <1>7, SaveCoordStep
<1>8. SaveSectionRow \/ SaveToast => IInv' BY SaveSectionRowStep, SaveToastStep
<1>9. CASE UNCHANGED vars
  <2>1. Written' = Written BY <1>9 DEF Written, Executed
  <2>2. Functions' /\ OneRow' /\ Numbers' /\ Named' /\ Control' /\ Saving'
    BY <1>9 DEF IInv, Functions, OneRow, Numbers, Named, NoKey, Control, Saving
  <2>3. Present' /\ Stored' BY <1>9, <2>1 DEF IInv, Present, Stored
  <2>4. Agree' /\ StartFailsOnlyOfText' BY <1>9 DEF IInv, Agree, StartFailsOnlyOfText
  <2> QED BY <2>2, <2>3, <2>4 DEF IInv
<1> QED BY <1>1, <1>2, <1>3, <1>4, <1>5, <1>6, <1>7, <1>8, <1>9 DEF Next

LEMMA SavedIsStoredInv == IInv => SavedIsStored
<1> SUFFICES ASSUME IInv, pc \in {"main", "setting"}, NEW k \in Keys
             PROVE  table[k] = <<saved[k]>>
  BY DEF SavedIsStored
<1>1. ~NoRow(k) BY DEF IInv, Present, Screens
<1> QED BY <1>1, Idle DEF IInv, Stored

LEMMA GeneratesAsSavedInv == IInv => GeneratesAsSaved
  BY DEF IInv, Control, Agree, GeneratesAsSaved

-----------------------------------------------------------------------------
(***************************************************************************)
(* The theorems.                                                           *)
(***************************************************************************)
HIDE DEF vars, screenVars, history, saveElse, NoRow

(* The invariant holds in every state: insertDataFirst(), updateDB(), the  *)
(* static fields and the screens keep it, wherever the process ends.       *)
THEOREM Invariant == Spec => []IInv
  BY InitIInv, NextIInv, PTL DEF Spec

(* The screens come up again after every kill, crash and exit(1), unless a *)
(* coordinate that is no number is in the table.                           *)
THEOREM StartsAgain == Spec => []StartFailsOnlyOfText
<1>1. IInv => StartFailsOnlyOfText BY DEF IInv
<1> QED BY Invariant, <1>1, PTL

(* What was picked and what Save wrote is in the table, also after a Save  *)
(* that was killed or crashed of a quote half way; of the trajectory, what *)
(* the swapped arguments leave.                                            *)
THEOREM SavedStays == Spec => []SavedIsStored
  BY Invariant, SavedIsStoredInv, PTL

(* generateSimData() gets the time and the section saved in this process,  *)
(* section 0 if none was, and of the rest what was saved when it was loaded.*)
THEOREM GetsSaved == Spec => []GeneratesAsSaved
  BY Invariant, GeneratesAsSavedInv, PTL
=============================================================================
