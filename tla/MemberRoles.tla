---------------------------- MODULE MemberRoles ----------------------------
(***************************************************************************)
(* The members of one workspace (internal/member/mgmt.go): adding, removing *)
(* and changing roles, as transactions under READ COMMITTED.               *)
(*                                                                         *)
(* A statement sees what was committed when it began.  SELECT ... FOR      *)
(* UPDATE locks the rows it saw one by one, waits for whoever holds one,   *)
(* and then looks at that row again.  Locks are held until the end of the  *)
(* transaction.  The last write and the commit are one step: nothing       *)
(* happens between them.                                                   *)
(***************************************************************************)
EXTENDS Naturals, FiniteSets

CONSTANTS
    Members,   \* rows, each used once
    Founder,   \* the first owner
    Address,   \* row |-> its address, case and spaces apart
    Clients,   \* concurrent requests
    Seated,    \* whether Track runs with Lens, whose plan counts seats
    SeatLimit, \* the plan's seats
    None

ASSUME MemberSide ==
    /\ IsFiniteSet(Members) /\ Founder \in Members
    /\ None \notin Clients
    /\ Seated \in BOOLEAN
    /\ SeatLimit \in Nat \ {0}

VARIABLES
    role,      \* row |-> its role, before it is inserted and after it is deleted
    rowLock,   \* row |-> the transaction that holds it
    spaceLock, \* who holds the workspace's row
    tx         \* client |-> its transaction

rolesVars == <<role, rowLock, spaceLock, tx>>

NoTx == [pc |-> "idle"]

\* What a change makes of its target.
Outcomes == {"owner", "member", "removed"}

TxState ==
    {NoTx}
    \cup [pc : {"load"}, target : Members, to : Outcomes]
    \cup [pc : {"count"}, target : Members, to : Outcomes,
          todo : SUBSET Members, owners : SUBSET Members]
    \cup [pc : {"write"}, target : Members, to : Outcomes, owners : SUBSET Members]
    \cup [pc : {"lock", "seats", "check", "insert"}, target : Members, to : {"owner", "member"}]

RolesTypeOK ==
    /\ role \in [Members -> Outcomes \cup {"none"}]
    /\ rowLock \in [Members -> Clients \cup {None}]
    /\ spaceLock \in Clients \cup {None}
    /\ tx \in [Clients -> TxState]

RolesInit ==
    /\ role = [m \in Members |-> IF m = Founder THEN "owner" ELSE "none"]
    /\ rowLock = [m \in Members |-> None]
    /\ spaceLock = None
    /\ tx = [c \in Clients |-> NoTx]

Owners == {m \in Members : role[m] = "owner"}
Present == {m \in Members : role[m] \in {"owner", "member"}}

Does(c, state) == tx' = [tx EXCEPT ![c] = state]

\* COMMIT or ROLLBACK.
End(c) ==
    /\ Does(c, NoTx)
    /\ rowLock' = [m \in Members |-> IF rowLock[m] = c THEN None ELSE rowLock[m]]
    /\ spaceLock' = IF spaceLock = c THEN None ELSE spaceLock

\* A failed statement, a refused foreign key, a deadlock PostgreSQL breaks, a
\* connection that goes.
Abort(c) ==
    /\ tx[c] # NoTx
    /\ End(c)
    /\ UNCHANGED role

-----------------------------------------------------------------------------
(* ChangeRole and RemoveMember.                                            *)

\* requireOwner let the request in.
BeginChange(c, m, to) ==
    /\ tx[c] = NoTx
    /\ Owners # {}
    /\ Does(c, [pc |-> "load", target |-> m, to |-> to])
    /\ UNCHANGED <<role, rowLock, spaceLock>>

Continue(c, m, to) ==
    Does(c, [pc |-> "write", target |-> m, to |-> to, owners |-> {}])

\* The target's role, read without a lock.  Only an owner who is to stop being
\* one makes the transaction count.
Load(c) ==
    /\ tx[c].pc = "load"
    /\ LET m == tx[c].target
           to == tx[c].to
       IN  IF m \notin Present
             THEN End(c)
             ELSE /\ IF role[m] = "owner" /\ to # "owner"
                       THEN Does(c, [pc |-> "count", target |-> m, to |-> to,
                                     todo |-> Owners, owners |-> {}])
                       ELSE Continue(c, m, to)
                  /\ UNCHANGED <<rowLock, spaceLock>>
    /\ UNCHANGED role

\* Fault: the owners counted without FOR UPDATE.
LockOwnerUnlocked(c, m) ==
    /\ tx[c].pc = "count"
    /\ m \in tx[c].todo
    /\ Does(c, [tx[c] EXCEPT !.todo = @ \ {m}, !.owners = @ \cup {m}])
    /\ UNCHANGED <<role, rowLock, spaceLock>>

\* lockedOwnerCount, one row: a row that stopped being an owner's meanwhile is
\* not returned.
LockOwner(c, m) ==
    /\ tx[c].pc = "count"
    /\ m \in tx[c].todo
    /\ rowLock[m] \in {None, c}
    /\ IF role[m] = "owner"
         THEN /\ rowLock' = [rowLock EXCEPT ![m] = c]
              /\ Does(c, [tx[c] EXCEPT !.todo = @ \ {m}, !.owners = @ \cup {m}])
         ELSE /\ Does(c, [tx[c] EXCEPT !.todo = @ \ {m}])
              /\ UNCHANGED rowLock
    /\ UNCHANGED <<role, spaceLock>>

\* ErrLastOwner, or on to the write.
Counted(c) ==
    /\ tx[c].pc = "count"
    /\ tx[c].todo = {}
    /\ IF \A m, n \in tx[c].owners : m = n
         THEN End(c)
         ELSE /\ Does(c, [pc |-> "write", target |-> tx[c].target, to |-> tx[c].to,
                          owners |-> tx[c].owners])
              /\ UNCHANGED <<rowLock, spaceLock>>
    /\ UNCHANGED role

\* UPDATE or DELETE by id, which waits for the row; a row that is gone stays so.
Write(c) ==
    /\ tx[c].pc = "write"
    /\ LET m == tx[c].target
       IN  /\ rowLock[m] \in {None, c}
           /\ role' = IF m \in Present THEN [role EXCEPT ![m] = tx[c].to] ELSE role
    /\ End(c)

-----------------------------------------------------------------------------
(* AddMember.                                                              *)

BeginAdd(c, m, to) ==
    /\ tx[c] = NoTx
    /\ Owners # {}
    /\ role[m] = "none"
    /\ Does(c, [pc |-> IF Seated THEN "lock" ELSE "check", target |-> m, to |-> to])
    /\ UNCHANGED <<role, rowLock, spaceLock>>

\* Fault: the workspace's row read without a lock.
LockSpaceFree(c) ==
    /\ tx[c].pc = "lock"
    /\ Does(c, [tx[c] EXCEPT !.pc = "seats"])
    /\ UNCHANGED <<role, rowLock, spaceLock>>

\* SELECT ... FOR NO KEY UPDATE on the workspace: one add at a time.
LockSpace(c) ==
    /\ tx[c].pc = "lock"
    /\ spaceLock = None
    /\ spaceLock' = c
    /\ Does(c, [tx[c] EXCEPT !.pc = "seats"])
    /\ UNCHANGED <<role, rowLock>>

SameAddress(m) == {n \in Present : Address[n] = Address[m]}

\* Fault: Lens asked about the members there are.
SeatsUncounted(c) ==
    /\ tx[c].pc = "seats"
    /\ IF SameAddress(tx[c].target) = {} /\ Cardinality(Present) <= SeatLimit
         THEN Does(c, [tx[c] EXCEPT !.pc = "check"]) /\ UNCHANGED <<rowLock, spaceLock>>
         ELSE End(c)
    /\ UNCHANGED role

\* The members are counted and Lens is asked about one more.
Seats(c) ==
    /\ tx[c].pc = "seats"
    /\ IF SameAddress(tx[c].target) = {} /\ Cardinality(Present) < SeatLimit
         THEN Does(c, [tx[c] EXCEPT !.pc = "check"]) /\ UNCHANGED <<rowLock, spaceLock>>
         ELSE End(c)
    /\ UNCHANGED role

\* INSERT ... WHERE NOT EXISTS: what exists is what the statement began with ...
Check(c) ==
    /\ tx[c].pc = "check"
    /\ IF SameAddress(tx[c].target) = {}
         THEN Does(c, [tx[c] EXCEPT !.pc = "insert"]) /\ UNCHANGED <<rowLock, spaceLock>>
         ELSE End(c)
    /\ UNCHANGED role

\* ... and UNIQUE(workspace_id, email) only knows the same spelling.
Insert(c) ==
    /\ tx[c].pc = "insert"
    /\ role' = IF role[tx[c].target] = "none"
                 THEN [role EXCEPT ![tx[c].target] = tx[c].to] ELSE role
    /\ End(c)

RolesNext ==
    \E c \in Clients :
        \/ Abort(c) \/ Load(c) \/ Counted(c) \/ Write(c)
        \/ \E m \in Members : LockOwner(c, m)
        \/ \E m \in Members, to \in Outcomes : BeginChange(c, m, to)
        \/ \E m \in Members, to \in {"owner", "member"} : BeginAdd(c, m, to)
        \/ LockSpace(c) \/ Seats(c) \/ Check(c) \/ Insert(c)

RolesSpec == RolesInit /\ [][RolesNext]_rolesVars

-----------------------------------------------------------------------------

\* The count does what it is for: a transaction that counted the owners never
\* leaves a workspace without one, whatever commits between its count and its
\* write.
CountedWriteLeavesOwner ==
    [][ \A c \in Clients :
          tx[c].pc = "write" /\ tx[c].owners # {} /\ tx'[c] # tx[c] => Owners' # {} ]_rolesVars

\* With seats checked, one person is one member, in whatever case and spacing
\* two requests typed the address ...
OneMemberPerAddress ==
    Seated => \A m, n \in Present : Address[m] = Address[n] => m = n

\* ... and the plan's seats are never exceeded by adds that race each other.
WithinSeats == Seated => Cardinality(Present) <= SeatLimit

\* mgmt.go: "two concurrent demotions can't race a workspace down to zero
\* owners", and the last owner is neither removed nor demoted.
OwnerRemains == Owners # {}
=============================================================================
