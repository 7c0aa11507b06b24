----------------------------- MODULE AccessControl -----------------------------
(***************************************************************************)
(* Permission groups of one tenant: the rules in each group, the table that *)
(* assigns a tool to one rule of a group, the tools granted to a group, and *)
(* the users in it.  A transaction of the store is one step, except the one *)
(* that moves a rule: it reads, deletes and writes by statements that other *)
(* requests come between.  A route checks in a transaction before.          *)
(***************************************************************************)
EXTENDS Naturals, FiniteSets

CONSTANTS
  AcUser, AcGroup, AcTool,
  AcRules,       \* rule ids are 1..AcRules: a restart takes them in order
  AcRequest,     \* requests that save a rule at the same time
  AcMover,       \* requests that bind or unbind a rule at the same time
  AcRequests,    \* bound: requests and restarts, all together
  NoGroup

ASSUME AcAssumption ==
  NoGroup \notin AcGroup /\ AcRules \in Nat /\ AcRequests \in Nat

AcRule == 1..AcRules

VARIABLES
  acUser,    \* ops_access_users; who is enabled matters in ToolPolicy only
  acGroup,   \* ops_permission_groups
  acRule,    \* ops_permission_rules
  acAssign,  \* ops_permission_group_tools, triples of group, tool and rule
  acGrant,   \* ops_group_tool_permissions, pairs of group and tool
  acMember,  \* ops_user_permission_groups, pairs of user and group
  acCall,    \* rules that passed the check of the route and are to be written
  acMove,    \* transactions that bind or unbind a rule and are not committed
  acLoose,   \* history: rules last moved while another request wrote them, or last
             \* unbound from a group they are not in
  acAsked    \* requests and restarts so far

acVars == <<acUser, acGroup, acRule, acAssign, acGrant, acMember, acCall, acMove, acLoose, acAsked>>

AcRuleRow == [here : BOOLEAN, group : AcGroup \cup {NoGroup}, tools : SUBSET AcTool]
NoRule == [here |-> FALSE, group |-> NoGroup, tools |-> {}]

\* What a request is going to write: rule 0 when there is nothing.
AcSave == [rule : 0..AcRules, group : AcGroup \cup {NoGroup}, tools : SUBSET AcTool]
NoSave == [rule |-> 0, group |-> NoGroup, tools |-> {}]

\* A transaction that moves a rule: the tools it read, the assignments it deleted (their
\* rows are locked), and whether another request has written the rule since it began.
AcMoving == [op : {"none", "bind", "bound", "unbound"}, rule : 0..AcRules,
             group : AcGroup \cup {NoGroup}, tools : SUBSET AcTool,
             gone : SUBSET (AcGroup \X AcTool \X AcRule), raced : BOOLEAN]
NoMoving == [op |-> "none", rule |-> 0, group |-> NoGroup, tools |-> {}, gone |-> {}, raced |-> FALSE]

AcTypeOK ==
  /\ acUser \subseteq AcUser
  /\ acGroup \subseteq AcGroup
  /\ acRule \in [AcRule -> AcRuleRow]
  /\ acAssign \subseteq AcGroup \X AcTool \X AcRule
  /\ acGrant \subseteq AcGroup \X AcTool
  /\ acMember \subseteq AcUser \X AcGroup
  /\ acCall \in [AcRequest -> AcSave]
  /\ acMove \in [AcMover -> AcMoving] /\ acLoose \subseteq AcRule
  /\ acAsked \in 0..AcRequests

AcInit ==
  /\ acUser = {}
  /\ acGroup = {} /\ acRule = [r \in AcRule |-> NoRule]
  /\ acAssign = {} /\ acGrant = {} /\ acMember = {}
  /\ acCall = [c \in AcRequest |-> NoSave]
  /\ acMove = [m \in AcMover |-> NoMoving] /\ acLoose = {} /\ acAsked = 0

RulesOf(g) == {r \in AcRule : acRule[r].here /\ acRule[r].group = g}
AssignedBy(r) == {a \in acAssign : a[3] = r}
Assignments(g, tools, r) == {<<g, t, r>> : t \in tools}

\* The primary key (group, tool) refuses a tool that another rule of g has.
Unique(g, tools, r) == \A a \in acAssign : a[1] = g /\ a[2] \in tools => a[3] = r

\* A statement that meets one of these rows waits for the transaction that deleted it.
Locked(rows) == \E m \in AcMover : acMove[m].gone \cap rows # {}

\* The transactions of the others, after the rules rs were written.
Raced(rs) == [m \in AcMover |-> IF acMove[m].rule \in rs THEN [acMove[m] EXCEPT !.raced = TRUE] ELSE acMove[m]]

---------------------------------------------------------------------------
PutUser(u) ==
  /\ acUser' = acUser \cup {u}
  /\ UNCHANGED <<acGroup, acRule, acAssign, acGrant, acMember, acCall, acMove, acLoose>>

RemoveUser(u) ==
  /\ u \in acUser
  /\ acUser' = acUser \ {u}
  /\ acMember' = {m \in acMember : m[1] # u}
  /\ UNCHANGED <<acGroup, acRule, acAssign, acGrant, acCall, acMove, acLoose>>

BindUser(u, g) ==
  /\ u \in acUser /\ g \in acGroup
  /\ acMember' = acMember \cup {<<u, g>>}
  /\ UNCHANGED <<acUser, acGroup, acRule, acAssign, acGrant, acCall, acMove, acLoose>>

UnbindUser(u, g) ==
  /\ acMember' = acMember \ {<<u, g>>}
  /\ UNCHANGED <<acUser, acGroup, acRule, acAssign, acGrant, acCall, acMove, acLoose>>

PutGroup(g) ==
  /\ acGroup' = acGroup \cup {g}
  /\ UNCHANGED <<acUser, acRule, acAssign, acGrant, acMember, acCall, acMove, acLoose>>

\* delete_group deletes its rules; the rest goes by ON DELETE CASCADE.
DeleteGroup(g) ==
  /\ g \in acGroup
  /\ ~ Locked({a \in acAssign : a[1] = g \/ a[3] \in RulesOf(g)})
  /\ acGroup' = acGroup \ {g}
  /\ acRule' = [r \in AcRule |-> IF r \in RulesOf(g) THEN NoRule ELSE acRule[r]]
  /\ acAssign' = {a \in acAssign : a[1] # g /\ a[3] \notin RulesOf(g)}
  /\ acGrant' = {p \in acGrant : p[1] # g}
  /\ acMember' = {m \in acMember : m[2] # g}
  /\ acMove' = Raced(RulesOf(g)) /\ acLoose' = acLoose \ RulesOf(g)
  /\ UNCHANGED <<acUser, acCall>>

SetGroupTools(g, tools) ==
  /\ g \in acGroup
  /\ acGrant' = {p \in acGrant : p[1] # g} \cup ({g} \X tools)
  /\ UNCHANGED <<acUser, acGroup, acRule, acAssign, acMember, acCall, acMove, acLoose>>

\* create_permission_rule: no other rule of the group may have one of the tools ...
CheckRule(c, r, g, tools) ==
  /\ acCall[c] = NoSave
  /\ g \in acGroup
  /\ \A s \in RulesOf(g) \ {r} : acRule[s].tools \cap tools = {}
  /\ acCall' = [acCall EXCEPT ![c] = [rule |-> r, group |-> g, tools |-> tools]]
  /\ UNCHANGED <<acUser, acGroup, acRule, acAssign, acGrant, acMember, acMove, acLoose>>

\* The rule is written with its group and tools, and its assignments anew.
Saved(r, g, tools) ==
  /\ acRule' = [acRule EXCEPT ![r] = [here |-> TRUE, group |-> g, tools |-> tools]]
  /\ acAssign' = (acAssign \ AssignedBy(r)) \cup Assignments(g, tools, r)
  /\ acGrant' = acGrant \cup ({g} \X tools)
  /\ acMove' = Raced({r}) /\ acLoose' = acLoose \ {r}

\* Variant of PutRule: without the primary key of the assignments.
PutRule_NoKey(c) ==
  LET r == acCall[c].rule  g == acCall[c].group  tools == acCall[c].tools IN
  /\ r # 0
  /\ acCall' = [acCall EXCEPT ![c] = NoSave]
  /\ IF g \in acGroup THEN Saved(r, g, tools)
                     ELSE UNCHANGED <<acRule, acAssign, acGrant, acMove, acLoose>>
  /\ UNCHANGED <<acUser, acGroup, acMember>>

\* Variant of PutRule: the group is not looked up again.
PutRule_NoGroup(c) ==
  LET r == acCall[c].rule  g == acCall[c].group  tools == acCall[c].tools IN
  /\ r # 0
  /\ acCall' = [acCall EXCEPT ![c] = NoSave]
  /\ IF Unique(g, tools, r) THEN Saved(r, g, tools)
                            ELSE UNCHANGED <<acRule, acAssign, acGrant, acMove, acLoose>>
  /\ UNCHANGED <<acUser, acGroup, acMember>>

\* ... and put_rule writes, unless a key or the group is violated by now.
PutRule(c) ==
  LET r == acCall[c].rule  g == acCall[c].group  tools == acCall[c].tools IN
  /\ r # 0
  /\ g \in acGroup => ~ Locked(AssignedBy(r) \cup {a \in acAssign : a[1] = g /\ a[2] \in tools})
  /\ acCall' = [acCall EXCEPT ![c] = NoSave]
  /\ IF g \in acGroup /\ Unique(g, tools, r) THEN Saved(r, g, tools)
                                            ELSE UNCHANGED <<acRule, acAssign, acGrant, acMove, acLoose>>
  /\ UNCHANGED <<acUser, acGroup, acMember>>

\* What the group was granted through the rule stays granted.
DeleteRule(r) ==
  /\ acRule[r].here
  /\ ~ Locked(AssignedBy(r))
  /\ acRule' = [acRule EXCEPT ![r] = NoRule]
  /\ acAssign' = acAssign \ AssignedBy(r)
  /\ acMove' = Raced({r}) /\ acLoose' = acLoose \ {r}
  /\ UNCHANGED <<acUser, acGroup, acGrant, acMember, acCall>>

\* bind_group_rule moves a rule without a look at the rules of the group: it reads its
\* tools and keeps no lock ...
BindRule(m, g, r) ==
  /\ acMove[m] = NoMoving
  /\ acRule[r].here
  /\ acMove' = [acMove EXCEPT ![m] = [op |-> "bind", rule |-> r, group |-> g, tools |-> acRule[r].tools,
                                     gone |-> {}, raced |-> FALSE]]
  /\ UNCHANGED <<acUser, acGroup, acRule, acAssign, acGrant, acMember, acCall, acLoose>>

\* ... deletes the assignments it finds by now ...
DeleteAssigned(m) ==
  /\ acMove[m].op = "bind"
  /\ acMove' = [acMove EXCEPT ![m].op = "bound", ![m].gone = AssignedBy(acMove[m].rule)]
  /\ UNCHANGED <<acUser, acGroup, acRule, acAssign, acGrant, acMember, acCall, acLoose>>

\* A transaction ends: the others on the same rule have been overtaken.
MoveEnds(m, rs) == acMove' = [Raced(rs) EXCEPT ![m] = NoMoving]

\* ... and writes the group and the assignments of the tools it has read, unless the
\* rule or the group is gone or the primary key refuses: all is rolled back then.
WriteBound(m) ==
  LET r == acMove[m].rule  g == acMove[m].group  tools == acMove[m].tools
      kept == acAssign \ acMove[m].gone
      met == {a \in kept : a[1] = g /\ a[2] \in tools} IN
  /\ acMove[m].op = "bound"
  /\ acRule[r].here /\ g \in acGroup => ~ Locked(met)
  /\ IF acRule[r].here /\ g \in acGroup /\ met = {}
       THEN /\ acRule' = [acRule EXCEPT ![r].group = g]
            /\ acAssign' = kept \cup Assignments(g, tools, r)
            /\ acGrant' = acGrant \cup ({g} \X tools)
            /\ acLoose' = IF acMove[m].raced THEN acLoose \cup {r} ELSE acLoose \ {r}
            /\ MoveEnds(m, {r})
       ELSE /\ MoveEnds(m, {})
            /\ UNCHANGED <<acRule, acAssign, acGrant, acLoose>>
  /\ UNCHANGED <<acUser, acGroup, acMember, acCall>>

\* unbind_group_rule deletes the assignments whatever group the rule is in ...
UnbindRule(m, g, r) ==
  /\ acMove[m] = NoMoving
  /\ acRule[r].here
  /\ acMove' = [acMove EXCEPT ![m] = [op |-> "unbound", rule |-> r, group |-> g, tools |-> {},
                                     gone |-> AssignedBy(r), raced |-> FALSE]]
  /\ UNCHANGED <<acUser, acGroup, acRule, acAssign, acGrant, acMember, acCall, acLoose>>

\* ... and takes the rule out of the group, if it is in it.
WriteUnbound(m) ==
  LET r == acMove[m].rule  g == acMove[m].group IN
  /\ acMove[m].op = "unbound"
  /\ acAssign' = acAssign \ acMove[m].gone
  /\ acRule' = IF acRule[r].group = g THEN [acRule EXCEPT ![r].group = NoGroup] ELSE acRule
  /\ acLoose' = IF acMove[m].raced \/ acRule[r].group # g THEN acLoose \cup {r} ELSE acLoose \ {r}
  /\ MoveEnds(m, {r})
  /\ UNCHANGED <<acUser, acGroup, acGrant, acMember, acCall>>

\* A statement fails, or the database ends a transaction that waits for one which waits
\* for it: nothing of it is kept.
MoveFails(m) ==
  /\ acMove[m] # NoMoving
  /\ MoveEnds(m, {})
  /\ UNCHANGED <<acUser, acGroup, acRule, acAssign, acGrant, acMember, acCall, acLoose>>

\* The constructor builds the assignments anew: of the rules of a group with the same
\* tool the first one keeps it, the others lose it.
Rebuilt ==
  {a \in AcGroup \X AcTool \X AcRule :
     /\ a[3] \in RulesOf(a[1]) /\ a[2] \in acRule[a[3]].tools
     /\ \A s \in RulesOf(a[1]) : a[2] \in acRule[s].tools => a[3] <= s}

RestartStore ==
  /\ acAssign' = Rebuilt
  /\ acRule' = [r \in AcRule |->
       IF acRule[r].group = NoGroup THEN acRule[r]
       ELSE [acRule[r] EXCEPT !.tools = {t \in AcTool : <<acRule[r].group, t, r>> \in Rebuilt}]]
  /\ acCall' = [c \in AcRequest |-> NoSave]
  /\ acMove' = [m \in AcMover |-> NoMoving] /\ acLoose' = {}
  /\ UNCHANGED <<acUser, acGroup, acGrant, acMember>>

\* The routes on users, on groups, and on the group of a rule.
UserRequest(u) ==
  \/ PutUser(u) \/ RemoveUser(u)
  \/ \E g \in AcGroup : BindUser(u, g) \/ UnbindUser(u, g)

GroupRequest(g) ==
  \/ PutGroup(g) \/ DeleteGroup(g)
  \/ \E tools \in SUBSET AcTool : SetGroupTools(g, tools)

MoveRequest(m) == \E g \in AcGroup, r \in AcRule : BindRule(m, g, r) \/ UnbindRule(m, g, r)

MoveStep(m) == DeleteAssigned(m) \/ WriteBound(m) \/ WriteUnbound(m) \/ MoveFails(m)

Asks == acAsked < AcRequests /\ acAsked' = acAsked + 1

AcNext ==
  \/ /\ Asks
     /\ \/ \E u \in AcUser : UserRequest(u)
        \/ \E g \in AcGroup : GroupRequest(g)
        \/ \E c \in AcRequest, r \in AcRule, g \in AcGroup, tools \in SUBSET AcTool : CheckRule(c, r, g, tools)
        \/ \E r \in AcRule : DeleteRule(r)
        \/ \E m \in AcMover : MoveRequest(m)
        \/ RestartStore
  \/ /\ UNCHANGED acAsked
     /\ \/ \E c \in AcRequest : PutRule(c)
        \/ \E m \in AcMover : MoveStep(m)

AcSpec == AcInit /\ [][AcNext]_acVars

---------------------------------------------------------------------------
(* Properties *)

\* A tool belongs to one rule of a group at most, whatever rules are saved, moved and
\* deleted together (ToolAssignmentConflict).  Not for a rule that was written by another
\* request while it was moved, or was unbound from a group it is not in: the table of
\* assignments does not follow its tools until it is saved or moved again.
OneRulePerTool ==
  \A g \in AcGroup : \A r, s \in RulesOf(g) \ acLoose :
    r # s => acRule[r].tools \cap acRule[s].tools = {}

\* Nothing is inherited from a user, group or rule that was deleted, with saves and moves
\* that began before (delete_user, delete_group, delete_rule and the foreign keys): one
\* created again under the same id has no members, grants or assignments.  And a rule has
\* no assignment but for its tools in its group, unless it was overtaken as above.
NothingInherited ==
  /\ \A m \in acMember : m[1] \in acUser /\ m[2] \in acGroup
  /\ \A p \in acGrant : p[1] \in acGroup
  /\ \A a \in acAssign :
       /\ a[1] \in acGroup /\ acRule[a[3]].here
       /\ a[3] \notin acLoose => acRule[a[3]].group = a[1] /\ a[2] \in acRule[a[3]].tools
  /\ \A r \in AcRule : acRule[r].group \in acGroup \cup {NoGroup}
=============================================================================
