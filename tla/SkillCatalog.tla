---------------------------- MODULE SkillCatalog ----------------------------
(***************************************************************************)
(* The catalog of skills: rows of a table, built in or written by an admin, *)
(* the registry of each process that is read from them, and the description *)
(* of load_skill that names them.  A skill's text has a name of its own,    *)
(* which need not be the row's.  Requests run in threads and overlap; one   *)
(* transaction, or one assignment others can see, is one step.              *)
(* agent_skill_store.py, runtime/skills.py, api/app.py                      *)
(***************************************************************************)
EXTENDS Integers, FiniteSets, FiniteSetsExt

CONSTANTS SkNames,      \* skills, numbered in the order of their names
          SkShipped,    \* those with a SKILL.md in the paths
          SkRequests,   \* bound on requests
          SkCrashes     \* bound on restarts

ASSUME SkAssumption ==
  /\ SkNames \in Nat \ {0} /\ SkShipped \subseteq 1..SkNames
  /\ SkRequests \in Nat /\ SkCrashes \in Nat

VARIABLES skRows,      \* ops_agent_skills
          skCache,     \* SkillRegistry._skills, by the name in the text
          skTool,      \* the skills load_skill's description names
          skLeft,      \* files the seeding has still to insert
          skUp,        \* the application serves requests
          skReq,       \* the requests
          skRestarts

skVars == <<skRows, skCache, skTool, skLeft, skUp, skReq, skRestarts>>

SkName == 1..SkNames
NoSkill == [text |-> 0, builtin |-> FALSE]
Skill == [text : SkName, builtin : BOOLEAN]
SkIdle == [op |-> "none", name |-> 1, text |-> 1, builtin |-> FALSE, at |-> "none",
           deleted |-> FALSE, seen |-> [n \in SkName |-> NoSkill]]

SkTypeOK ==
  /\ skRows \in [SkName -> Skill \cup {NoSkill}]
  /\ skCache \in [SkName -> Skill \cup {NoSkill}]
  /\ skTool \subseteq SkName /\ skLeft \subseteq SkShipped /\ skUp \in BOOLEAN
  /\ skReq \in [1..SkRequests ->
       [op : {"none", "put", "post", "delete"}, name : SkName, text : SkName,
        builtin : BOOLEAN, deleted : BOOLEAN,
        at : {"none", "get", "write", "scan", "assign", "answer", "refresh", "end"},
        seen : [SkName -> Skill \cup {NoSkill}]]]
  /\ skRestarts \in 0..SkCrashes
  /\ \A n \in SkName : skCache[n] # NoSkill => skCache[n].text = n

SkInit ==
  /\ skRows = [n \in SkName |-> NoSkill] /\ skCache = skRows /\ skTool = {}
  /\ skLeft = SkShipped /\ skUp = FALSE
  /\ skReq = [r \in 1..SkRequests |-> SkIdle] /\ skRestarts = 0
-----------------------------------------------------------------------------
Listed(table) == {n \in SkName : table[n] # NoSkill}

\* Variant of Scan: by the name of the row.
Scan_ByRow(rows) == rows

\* scan: by the name in the text; of two rows with one name the later is kept.
Scan(rows) ==
  [n \in SkName |->
     LET named == {r \in Listed(rows) : rows[r].text = n}
     IN  IF named = {} THEN NoSkill ELSE rows[Max(named)]]

\* seed_skills_from_paths inserts file after file ...
Seed ==
  /\ ~skUp /\ skLeft # {}
  /\ LET n == Min(skLeft) IN
       /\ skRows' = [skRows EXCEPT ![n] = [text |-> n, builtin |-> TRUE]]
       /\ skLeft' = skLeft \ {n}
  /\ UNCHANGED <<skCache, skTool, skUp, skReq, skRestarts>>

\* ... before the registry is read and the first request is taken.
SkStart ==
  /\ ~skUp /\ skLeft = {}
  /\ skUp' = TRUE /\ skCache' = Scan(skRows) /\ skTool' = Listed(skCache')
  /\ UNCHANGED <<skRows, skLeft, skReq, skRestarts>>

\* The process dies; one that finds a row in the table seeds nothing.
SkRestart ==
  /\ skRestarts < SkCrashes
  /\ skRestarts' = skRestarts + 1 /\ skUp' = FALSE
  /\ skCache' = [n \in SkName |-> NoSkill] /\ skTool' = {}
  /\ skLeft' = IF Listed(skRows) = {} THEN SkShipped ELSE {}
  /\ skReq' = [r \in 1..SkRequests |->
                 IF skReq[r].op = "none" THEN SkIdle
                 ELSE [SkIdle EXCEPT !.op = skReq[r].op, !.at = "end"]]
  /\ UNCHANGED skRows
-----------------------------------------------------------------------------
\* Request r moves on with the fields of change.
Goes(r, change) == skReq' = [skReq EXCEPT ![r] = change]

\* The routes: create refuses a name the registry has.
Ask(r, op, n, text) ==
  /\ skReq[r].op = "none"
  /\ op = "delete" => text = n
  /\ Goes(r, [SkIdle EXCEPT !.op = op, !.name = n, !.text = text,
              !.at = IF op = "post" /\ skCache[n] # NoSkill THEN "end" ELSE "get"])
  /\ UNCHANGED <<skRows, skCache, skTool>>

\* The row is read first: an update keeps its flag, a built-in one is not deleted.
GetRow(r) ==
  LET req == skReq[r]
      row == skRows[req.name]
  IN  /\ req.at = "get"
      /\ Goes(r, IF req.op = "delete" /\ row.builtin THEN [req EXCEPT !.at = "end"]
                 ELSE [req EXCEPT !.at = "write", !.builtin = row.builtin])
      /\ UNCHANGED <<skRows, skCache, skTool>>

\* Variant of WriteSkill: an upsert that does not carry the flag of the row over.
WriteSkill_Custom(r) ==
  LET req == skReq[r]
      row == skRows[req.name]
      gone == req.op = "delete" /\ row # NoSkill /\ ~row.builtin
  IN  /\ req.at = "write"
      /\ skRows' = IF req.op # "delete"
                     THEN [skRows EXCEPT ![req.name] = [text |-> req.text, builtin |-> FALSE]]
                   ELSE IF gone THEN [skRows EXCEPT ![req.name] = NoSkill] ELSE skRows
      /\ Goes(r, [req EXCEPT !.at = "scan", !.deleted = gone])
      /\ UNCHANGED <<skCache, skTool>>

\* upsert_skill writes the row and its flag; delete_skill spares a built-in row.
WriteSkill(r) ==
  LET req == skReq[r]
      row == skRows[req.name]
      gone == req.op = "delete" /\ row # NoSkill /\ ~row.builtin
  IN  /\ req.at = "write"
      /\ skRows' = IF req.op # "delete"
                     THEN [skRows EXCEPT ![req.name] = [text |-> req.text, builtin |-> req.builtin]]
                   ELSE IF gone THEN [skRows EXCEPT ![req.name] = NoSkill] ELSE skRows
      /\ Goes(r, [req EXCEPT !.at = "scan", !.deleted = gone])
      /\ UNCHANGED <<skCache, skTool>>

\* list_skills reads the rows, and the registry is replaced by what was read.
ListRows(r) ==
  /\ skReq[r].at = "scan"
  /\ Goes(r, [skReq[r] EXCEPT !.at = "assign", !.seen = skRows])
  /\ UNCHANGED <<skRows, skCache, skTool>>

Assign(r) ==
  /\ skReq[r].at = "assign"
  /\ skCache' = Scan(skReq[r].seen)
  /\ Goes(r, [skReq[r] EXCEPT !.at = "answer", !.seen = [n \in SkName |-> NoSkill]])
  /\ UNCHANGED <<skRows, skTool>>

\* A skill the registry has not under its row's name is an error after the
\* row was written; a delete that found no row is a 404.
Answer(r) ==
  LET req == skReq[r]
      found == IF req.op = "delete" THEN req.deleted ELSE skCache[req.name] # NoSkill
  IN  /\ req.at = "answer"
      /\ Goes(r, [req EXCEPT !.at = IF found THEN "refresh" ELSE "end"])
      /\ UNCHANGED <<skRows, skCache, skTool>>

\* _refresh_skill_tool
RefreshTool(r) ==
  /\ skReq[r].at = "refresh"
  /\ skTool' = Listed(skCache)
  /\ Goes(r, [skReq[r] EXCEPT !.at = "end"])
  /\ UNCHANGED <<skRows, skCache>>

SkStep(r) ==
  \/ \E op \in {"put", "post", "delete"}, n, text \in SkName : Ask(r, op, n, text)
  \/ GetRow(r) \/ WriteSkill(r) \/ ListRows(r) \/ Assign(r) \/ Answer(r) \/ RefreshTool(r)

SkNext ==
  \/ Seed \/ SkStart \/ SkRestart
  \/ skUp /\ \E r \in 1..SkRequests : SkStep(r) /\ UNCHANGED <<skLeft, skUp, skRestarts>>

SkSpec == SkInit /\ [][SkNext]_skVars
-----------------------------------------------------------------------------
\* A skill that was shipped stays in the table and stays built in, and one an
\* admin wrote never becomes built in, whatever requests overlap between the
\* read of a row, its write and the scans, and wherever a process dies:
\* SkillRegistry.upsert and delete decide on a row read before.
BuiltinStays ==
  [][\A n \in Listed(skRows) :
       /\ skRows[n].builtin => n \in Listed(skRows')
       /\ n \in Listed(skRows') => skRows'[n].builtin = skRows[n].builtin]_skVars
=============================================================================
