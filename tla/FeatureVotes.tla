---------------------------- MODULE FeatureVotes ----------------------------
(***************************************************************************)
(* The votes for one post of a feature board (internal/featureboard): each *)
(* vote and each withdrawal changes feature_votes and then recounts it     *)
(* into feature_posts.vote_count, in one transaction under READ COMMITTED. *)
(***************************************************************************)
EXTENDS Naturals, FiniteSets

CONSTANTS Emails, Visitors, Nobody

VARIABLES
    votes,      \* committed rows of feature_votes
    voteCount,  \* committed feature_posts.vote_count
    visit,      \* visitor |-> the transaction
    postLock    \* who holds the post's row

voteVars == <<votes, voteCount, visit, postLock>>

NoVisit == [pc |-> "idle"]

VotesInit ==
    /\ votes = {} /\ voteCount = 0
    /\ visit = [v \in Visitors |-> NoVisit]
    /\ postLock = Nobody

\* Nobody else has inserted or deleted the row of this address and not committed.
Free(email) == \A v \in Visitors : visit[v] # NoVisit => email \notin visit[v].touched

Changes(v, touched) ==
    /\ visit' = [visit EXCEPT ![v] = [pc |-> "changed", touched |-> touched]]
    /\ UNCHANGED <<votes, voteCount, postLock>>

\* INSERT ... ON CONFLICT DO NOTHING: who has voted already recounts all the same.
Vote(v, email) ==
    /\ visit[v] = NoVisit /\ Free(email)
    /\ Changes(v, {email} \ votes)

\* DELETE by the token, which only a committed vote has.
Unvote(v, email) ==
    /\ visit[v] = NoVisit /\ Free(email)
    /\ email \in votes
    /\ Changes(v, {email})

\* The votes as a transaction sees them: the committed ones with its own change.
Seen(v) == (votes \ visit[v].touched) \cup (visit[v].touched \ votes)

\* The UPDATE begins: what its subquery counts is decided now ...
Recount(v) ==
    /\ visit[v].pc = "changed"
    /\ visit' = [visit EXCEPT ![v] = [pc |-> "counted", touched |-> @.touched,
                                      count |-> Cardinality(Seen(v))]]
    /\ UNCHANGED <<votes, voteCount, postLock>>

\* ... while the row is written when nobody else holds it.
Update(v) ==
    /\ visit[v].pc = "counted"
    /\ postLock = Nobody
    /\ postLock' = v
    /\ visit' = [visit EXCEPT ![v].pc = "updated"]
    /\ UNCHANGED <<votes, voteCount>>

Finish(v) ==
    /\ visit' = [visit EXCEPT ![v] = NoVisit]
    /\ postLock' = IF postLock = v THEN Nobody ELSE postLock

CommitVote(v) ==
    /\ visit[v].pc = "updated"
    /\ votes' = Seen(v)
    /\ voteCount' = visit[v].count
    /\ Finish(v)

RollBackVote(v) ==
    /\ visit[v] # NoVisit
    /\ Finish(v)
    /\ UNCHANGED <<votes, voteCount>>

VotesNext ==
    \E v \in Visitors :
        \/ \E email \in Emails : Vote(v, email) \/ Unvote(v, email)
        \/ Recount(v) \/ Update(v) \/ CommitVote(v) \/ RollBackVote(v)

VotesSpec == VotesInit /\ [][VotesNext]_voteVars

-----------------------------------------------------------------------------
\* store.go: "concurrent votes can't double-count or under-count"; when none is
\* under way, the count on the post is that of its votes.
CountIsVotes == (\A v \in Visitors : visit[v] = NoVisit) => voteCount = Cardinality(votes)
=============================================================================
