-------------------------- MODULE AtlasProposalProofs --------------------------
(***************************************************************************)
(* For any number of proposals, names, branches and commits, and whatever   *)
(* people do to the repository meanwhile: whose branch a branch is.         *)
(***************************************************************************)
EXTENDS AtlasProposal, TLAPS

(* The places of a call before its write, and after it.                     *)
Early == {"base", "baseRef", "free", "ask", "before", "beforeHead", "consume", "write"}
Late  == {"verify", "afterRefs", "afterHead", "retest", "judge"}

Branchless == {"tests_failed", "approval_required", "refused"}
Outcomes   == Branchless \cup {"none", "raised", "verification_failed", "branch_created"}

Types ==
    /\ refs \in [Branches \cup Names -> Commits \cup NewCommits \cup {Absent}]
    /\ HEAD \in Branches \cup Commits
    /\ clean \in BOOLEAN
    /\ by \in [Names -> Proposers \cup {Nobody, People}]
    /\ removed \subseteq Names
    /\ pc \in [Proposers -> Early \cup Late \cup {"done"}]
    /\ name \in [Proposers -> Names]
    /\ base \in [Proposers -> Commits \cup {Absent}]
    /\ baseRef \in [Proposers -> Branches \cup {Absent}]
    /\ verified \in [Proposers -> BOOLEAN]
    /\ rolledBack \in [Proposers -> BOOLEAN]
    /\ outcome \in [Proposers -> Outcomes]

(* The branches people work on stand at commits of theirs.                  *)
PeoplesOwn == \A b \in Branches : refs[b] \in Commits

(* A commit of Core's stands where the call that made it put it, and a      *)
(* branch a call made stands at its commit.                                 *)
Owned(n) ==
    /\ refs[n] \in NewCommits => by[n] = refs[n].for
    /\ by[n] \in Proposers =>
          name[by[n]] = n /\ refs[n] = Commit(by[n]) /\ refs[n] \in NewCommits

(* What is so of a call by where it is and what it said.                    *)
Placed(p) ==
    /\ pc[p] \notin {"base", "done"} => base[p] \in Commits
    /\ pc[p] \notin {"base", "baseRef", "done"} => baseRef[p] \in Branches
    /\ pc[p] # "done" => outcome[p] = "none" /\ ~rolledBack[p]
    /\ pc[p] \in Early \/ outcome[p] \in Branchless \/ rolledBack[p] => by[name[p]] # p
    /\ pc[p] \in Late \/ outcome[p] = "branch_created" =>
          by[name[p]] = p \/ name[p] \in removed

Placing == \A p \in Proposers : Placed(p)
Owning  == \A n \in Names : Owned(n)

IInv == Types /\ PeoplesOwn /\ Owning /\ Placing

USE ProposalAssumption
USE DEF Nobody, People, repoVars, callVars, Goto, Ends, Raises, Untouched

(* The steps of propose that leave the repository alone.                    *)
Quiet(p) ==
    \/ ReadBase(p) \/ ReadBaseRef(p) \/ Prepare(p) \/ TestsFail(p)
    \/ PatchRefused(p) \/ Ask(p) \/ BeforeRefs(p) \/ BeforeHead(p) \/ Consume(p)
    \/ WriteRefused(p)
    \/ VerifyRef(p) \/ AfterRefs(p) \/ AfterHead(p) \/ Retest(p) \/ Accept(p)

(* The initial state satisfies the invariant.                               *)
LEMMA Initially == Init => IInv
<1> SUFFICES ASSUME Init PROVE IInv
    OBVIOUS
<1>1. PICK m \in Commits : refs = [b \in Branches \cup Names |->
                                      IF b \in Branches THEN m ELSE Absent]
    BY DEF Init
<1>2. Types
    <2>1. refs \in [Branches \cup Names -> Commits \cup NewCommits \cup {Absent}]
        BY <1>1
    <2>2. QED  BY <2>1 DEF Init, Types, Early, Late, Outcomes, Branchless
<1>3. PeoplesOwn
    BY <1>1 DEF PeoplesOwn
<1>4. Owning
    <2>1. \A n \in Names : refs[n] = Absent /\ by[n] = Nobody
        BY <1>1 DEF Init
    <2>2. QED  BY <2>1 DEF Owning, Owned
<1>5. Placing
    BY DEF Init, Placing, Placed, Early, Late, Branchless
<1>6. QED  BY <1>2, <1>3, <1>4, <1>5 DEF IInv

-----------------------------------------------------------------------------
(* What the steps do.                                                       *)

(* HEAD is at a commit of people's.                                         *)
LEMMA HeadIsPeoples == Types /\ PeoplesOwn => HeadCommit \in Commits
BY DEF Types, PeoplesOwn, HeadCommit

(* The commit of a call that knows its base is one of Core's, and no other  *)
(* call's.                                                                  *)
LEMMA CommitIsNew ==
    ASSUME NEW p \in Proposers, base[p] \in Commits
    PROVE  Commit(p) \in NewCommits /\ Commit(p).for = p /\ Commit(p).parent = base[p]
           /\ Commit(p) # Absent
BY DEF Commit, NewCommit, NewCommits

(* A quiet step leaves the repository as it was.                            *)
LEMMA QuietIsQuiet ==
    ASSUME NEW p \in Proposers, Quiet(p)
    PROVE  UNCHANGED <<refs, HEAD, clean, by, removed, name>>
BY DEF Quiet, ReadBase, ReadBaseRef, Prepare, TestsFail, PatchRefused, Ask, BeforeRefs,
       BeforeHead, Consume, WriteRefused, VerifyRef, AfterRefs, AfterHead, Retest, Accept, Checks

(* A step of one call leaves the others where they were.                    *)
LEMMA OneMoves ==
    ASSUME Types, NEW p \in Proposers, NEW q \in Proposers, p # q, Propose(p)
    PROVE  /\ pc'[q] = pc[q] /\ base'[q] = base[q] /\ baseRef'[q] = baseRef[q]
           /\ rolledBack'[q] = rolledBack[q] /\ outcome'[q] = outcome[q]
<1>1. CASE Quiet(p)
    BY <1>1 DEF Types, Quiet, ReadBase, ReadBaseRef, Prepare, TestsFail, PatchRefused, Ask,
                BeforeRefs, BeforeHead, Consume, WriteRefused, VerifyRef, AfterRefs,
                AfterHead, Retest, Accept, Checks
<1>2. CASE CreateBranch(p) \/ Rollback(p)
    BY <1>2 DEF Types, CreateBranch, Rollback
<1>3. QED  BY <1>1, <1>2 DEF Propose, Quiet

(* People do nothing to a call.                                             *)
LEMMA PeopleLeaveCalls ==
    ASSUME World
    PROVE  UNCHANGED <<pc, name, base, baseRef, verified, rolledBack, outcome>>
BY DEF World, PeopleDo

(* Nobody renames a proposal.                                               *)
LEMMA NamesStay == [Next]_vars => name' = name
<1>1. World => name' = name
    BY PeopleLeaveCalls
<1>2. ASSUME NEW p \in Proposers, Propose(p) PROVE name' = name
    <2>1. CASE Quiet(p)  BY <2>1, QuietIsQuiet
    <2>2. CASE CreateBranch(p) \/ Rollback(p)
        BY <2>2 DEF CreateBranch, Rollback
    <2>3. QED  BY <1>2, <2>1, <2>2 DEF Propose, Quiet
<1>3. QED  BY <1>1, <1>2 DEF Next, vars

-----------------------------------------------------------------------------
(* The types.                                                               *)

(* Every step keeps the types.                                              *)
LEMMA KeepsTypes == IInv /\ [Next]_vars => Types'
<1> SUFFICES ASSUME IInv, [Next]_vars PROVE Types'
    OBVIOUS
<1>1. Types /\ PeoplesOwn /\ Placing
    BY DEF IInv
<1>2. ASSUME NEW p \in Proposers, Quiet(p) PROVE Types'
    <2> DEFINE Calls == /\ pc' \in [Proposers -> Early \cup Late \cup {"done"}]
                        /\ outcome' \in [Proposers -> Outcomes]
                        /\ verified' \in [Proposers -> BOOLEAN]
                        /\ rolledBack' \in [Proposers -> BOOLEAN]
    <2>1. UNCHANGED <<refs, HEAD, clean, by, removed, name>>
        BY <1>2, QuietIsQuiet
    <2>2. base' \in [Proposers -> Commits \cup {Absent}]
        <3>1. base' = [base EXCEPT ![p] = HeadCommit] \/ base' = base
            BY <1>2 DEF Quiet, ReadBase, ReadBaseRef, Prepare, TestsFail, PatchRefused, Ask,
                BeforeRefs, BeforeHead, Consume, WriteRefused, VerifyRef, AfterRefs,
                AfterHead, Retest, Accept, Checks
        <3>2. QED  BY <1>1, <3>1, HeadIsPeoples DEF Types
    <2>3. baseRef' \in [Proposers -> Branches \cup {Absent}]
        <3>1. \/ HEAD \in Branches /\ baseRef' = [baseRef EXCEPT ![p] = HEAD]
              \/ baseRef' = baseRef
            BY <1>2 DEF Quiet, ReadBase, ReadBaseRef, Prepare, TestsFail, PatchRefused, Ask,
                BeforeRefs, BeforeHead, Consume, WriteRefused, VerifyRef, AfterRefs,
                AfterHead, Retest, Accept, Checks
        <3>2. QED  BY <1>1, <3>1 DEF Types
    <2>4. CASE ReadBase(p) \/ ReadBaseRef(p) \/ Prepare(p) \/ TestsFail(p) \/ PatchRefused(p)
               \/ Ask(p) \/ BeforeRefs(p) \/ BeforeHead(p) \/ Consume(p) \/ WriteRefused(p)
               \/ Accept(p)
        <3>1. Calls
            BY <1>1, <2>4 DEF Types, Early, Late, Outcomes, Branchless, ReadBase, ReadBaseRef,
                Prepare, TestsFail, PatchRefused, Ask, BeforeRefs, BeforeHead, Consume,
                WriteRefused, Accept
        <3>2. QED  BY <1>1, <2>1, <2>2, <2>3, <3>1 DEF Types
    <2>5. CASE VerifyRef(p) \/ AfterRefs(p) \/ AfterHead(p) \/ Retest(p)
        <3>1. PICK holds \in BOOLEAN, at \in Late : Checks(p, holds, at)
            BY <2>5 DEF VerifyRef, AfterRefs, AfterHead, Retest, Late
        <3>2. (verified[p] /\ holds) \in BOOLEAN
            BY Zenon
        <3>3. /\ pc' \in [Proposers -> Early \cup Late \cup {"done"}]
              /\ outcome' \in [Proposers -> Outcomes]
              /\ rolledBack' = rolledBack
            BY <1>1, <3>1 DEF Types, Outcomes, Checks
        <3>4. verified' \in [Proposers -> BOOLEAN]
            BY <1>1, <3>1, <3>2 DEF Types, Checks
        <3>5. QED  BY <1>1, <2>1, <2>2, <2>3, <3>3, <3>4 DEF Types
    <2>6. QED  BY <1>2, <2>4, <2>5 DEF Quiet
<1>3. ASSUME NEW p \in Proposers, CreateBranch(p) PROVE Types'
    <2>1. Commit(p) \in NewCommits
        BY <1>1, <1>3, CommitIsNew DEF CreateBranch, Placing, Placed
    <2>2. /\ refs' \in [Branches \cup Names -> Commits \cup NewCommits \cup {Absent}]
          /\ by' \in [Names -> Proposers \cup {Nobody, People}]
        BY <1>1, <1>3, <2>1 DEF CreateBranch, Types
    <2>3. /\ pc' \in [Proposers -> Early \cup Late \cup {"done"}]
          /\ outcome' \in [Proposers -> Outcomes]
        BY <1>1, <1>3 DEF CreateBranch, Types, Late, Outcomes
    <2>4. QED  BY <1>1, <1>3, <2>2, <2>3 DEF CreateBranch, Types
<1>4. ASSUME NEW p \in Proposers, Rollback(p) PROVE Types'
    <2>1. /\ refs' \in [Branches \cup Names -> Commits \cup NewCommits \cup {Absent}]
          /\ by' \in [Names -> Proposers \cup {Nobody, People}]
          /\ rolledBack' \in [Proposers -> BOOLEAN]
        <3>1. \/ /\ refs' = [refs EXCEPT ![name[p]] = Absent]
                 /\ by' = [by EXCEPT ![name[p]] = Nobody]
                 /\ rolledBack' = [rolledBack EXCEPT ![p] = TRUE]
              \/ UNCHANGED <<refs, by, rolledBack>>
            BY <1>4 DEF Rollback
        <3>2. refs' \in [Branches \cup Names -> Commits \cup NewCommits \cup {Absent}]
            BY <1>1, <3>1 DEF Types
        <3>3. by' \in [Names -> Proposers \cup {Nobody, People}]
            BY <1>1, <3>1 DEF Types
        <3>4. rolledBack' \in [Proposers -> BOOLEAN]
            BY <1>1, <3>1 DEF Types
        <3>5. QED  BY <3>2, <3>3, <3>4
    <2>2. /\ pc' \in [Proposers -> Early \cup Late \cup {"done"}]
          /\ outcome' \in [Proposers -> Outcomes]
        BY <1>1, <1>4 DEF Rollback, Types, Outcomes
    <2>3. QED  BY <1>1, <1>4, <2>1, <2>2 DEF Rollback, Types
<1>5. CASE World
    <2>1. /\ refs' \in [Branches \cup Names -> Commits \cup NewCommits \cup {Absent}]
          /\ HEAD' \in Branches \cup Commits /\ clean' \in BOOLEAN
          /\ by' \in [Names -> Proposers \cup {Nobody, People}]
          /\ removed' \subseteq Names
        <3>1. ASSUME NEW b \in Branches, CommitsTo(b)
              PROVE  refs' \in [Branches \cup Names -> Commits \cup NewCommits \cup {Absent}]
            BY <1>1, <3>1 DEF CommitsTo, Types
        <3>2. ASSUME NEW n \in Names, Takes(n)
              PROVE  /\ refs' \in [Branches \cup Names -> Commits \cup NewCommits \cup {Absent}]
                     /\ by' \in [Names -> Proposers \cup {Nobody, People}]
            BY <1>1, <3>2 DEF Takes, Types
        <3>3. Edit => clean' \in BOOLEAN
            BY <1>1, Zenon DEF Edit, Types
        <3>4. QED
            BY <1>1, <1>5, <3>1, <3>2, <3>3
               DEF World, PeopleDo, CommitsTo, Switch, Edit, Takes, Types
    <2>2. QED  BY <1>1, <1>5, <2>1, PeopleLeaveCalls DEF Types
<1>6. CASE UNCHANGED vars
    BY <1>1, <1>6 DEF vars, Types
<1>7. QED  BY <1>2, <1>3, <1>4, <1>5, <1>6 DEF Next, Propose, Quiet

(* Only people move the branches they work on.                              *)
LEMMA KeepsPeoplesOwn == IInv /\ [Next]_vars => PeoplesOwn'
<1> SUFFICES ASSUME IInv, [Next]_vars PROVE PeoplesOwn'
    OBVIOUS
<1>1. Types /\ PeoplesOwn
    BY DEF IInv
<1>2. ASSUME NEW p \in Proposers, Propose(p) PROVE PeoplesOwn'
    <2>1. CASE Quiet(p)  BY <1>1, <2>1, QuietIsQuiet DEF PeoplesOwn
    <2>2. CASE CreateBranch(p)
        BY <1>1, <2>2 DEF CreateBranch, Types, PeoplesOwn
    <2>3. CASE Rollback(p)
        BY <1>1, <2>3 DEF Rollback, Types, PeoplesOwn
    <2>4. QED  BY <1>2, <2>1, <2>2, <2>3 DEF Propose, Quiet
<1>3. CASE World
    BY <1>1, <1>3 DEF World, PeopleDo, CommitsTo, Switch, Edit, Takes, Types, PeoplesOwn
<1>4. CASE UNCHANGED vars
    BY <1>1, <1>4 DEF vars, PeoplesOwn
<1>5. QED  BY <1>2, <1>3, <1>4 DEF Next

-----------------------------------------------------------------------------
(* Whose branch it is.                                                      *)

(* Who has put a branch somewhere has fixed the base it was cut from.       *)
LEMMA BaseStays ==
    ASSUME IInv, [Next]_vars, NEW n \in Names, by[n] \in Proposers
    PROVE  base'[by[n]] = base[by[n]]
<1> DEFINE q == by[n]
<1>1. Types /\ name[q] = n /\ pc[q] \notin Early
    BY DEF IInv, Owning, Owned, Placing, Placed
<1>2. CASE World  BY <1>2, PeopleLeaveCalls
<1>3. ASSUME NEW p \in Proposers, Propose(p) PROVE base'[q] = base[q]
    <2>1. CASE p # q  BY <1>1, <1>3, <2>1, OneMoves
    <2>2. CASE p = q /\ ~ReadBase(p)
        BY <1>3, <2>2 DEF Propose, ReadBaseRef, Prepare, TestsFail, PatchRefused, Ask,
            BeforeRefs, BeforeHead, Consume, CreateBranch, WriteRefused, VerifyRef, AfterRefs,
            AfterHead, Retest, Rollback, Accept, Checks
    <2>3. CASE p = q /\ ReadBase(p)
        BY <1>1, <2>3 DEF ReadBase, Early
    <2>4. QED  BY <2>1, <2>2, <2>3
<1>4. QED  BY <1>2, <1>3 DEF Next, vars

(* What is owned stays so while nobody touches it.                          *)
LEMMA OwnedStays ==
    ASSUME IInv, [Next]_vars, NEW n \in Names, refs'[n] = refs[n], by'[n] = by[n]
    PROVE  Owned(n)'
<1>1. Owned(n)  BY DEF IInv, Owning
<1>2. name' = name  BY NamesStay
<1>3. by[n] \in Proposers => base'[by[n]] = base[by[n]]
    BY BaseStays
<1>4. QED  BY <1>1, <1>2, <1>3 DEF Owned, Commit

(* The history of a branch goes with the branch.                            *)
LEMMA KeepsOwning == IInv /\ [Next]_vars => Owning'
<1> SUFFICES ASSUME IInv, [Next]_vars, NEW n \in Names PROVE Owned(n)'
    BY DEF Owning
<1>1. Types /\ Placing  BY DEF IInv
<1>2. ASSUME NEW p \in Proposers, Propose(p) PROVE Owned(n)'
    <2>1. CASE Quiet(p)
        BY <2>1, QuietIsQuiet, OwnedStays
    <2>2. CASE CreateBranch(p)
        <3>1. CASE name[p] = n
            <4>1. base[p] \in Commits
                BY <1>1, <2>2 DEF CreateBranch, Placing, Placed
            <4>2. /\ refs'[n] = Commit(p) /\ by'[n] = p
                  /\ UNCHANGED <<name, base>>
                BY <1>1, <2>2, <3>1 DEF CreateBranch, Types
            <4>3. Commit(p)' = Commit(p)
                BY <4>2 DEF Commit
            <4>4. QED  BY <3>1, <4>1, <4>2, <4>3, CommitIsNew DEF Owned
        <3>2. CASE name[p] # n
            BY <1>1, <2>2, <3>2, OwnedStays DEF CreateBranch, Types
        <3>3. QED  BY <3>1, <3>2
    <2>3. CASE Rollback(p)
        <3>1. CASE UNCHANGED <<refs, by>>  BY <3>1, OwnedStays
        <3>2. CASE name[p] = n /\ refs'[n] = Absent /\ by'[n] = Nobody
            BY <3>2 DEF Owned
        <3>3. CASE name[p] # n
            BY <1>1, <2>3, <3>3, OwnedStays DEF Rollback, Types
        <3>4. QED  BY <1>1, <2>3, <3>1, <3>2, <3>3 DEF Rollback, Types
    <2>4. QED  BY <1>2, <2>1, <2>2, <2>3 DEF Propose, Quiet
<1>3. CASE World
    <2>1. CASE Takes(n)
        <3>1. refs'[n] \notin NewCommits /\ by'[n] \notin Proposers
            BY <1>1, <2>1 DEF Takes, Types
        <3>2. QED  BY <3>1 DEF Owned
    <2>2. CASE ~Takes(n)
        <3>1. \/ UNCHANGED <<refs, by>>
              \/ by' = by /\ \E b \in Branches, m \in Commits : refs' = [refs EXCEPT ![b] = m]
              \/ \E m \in Names : Takes(m)
            BY <1>3 DEF World, PeopleDo, CommitsTo, Switch, Edit
        <3>2. (\E m \in Names : Takes(m)) => refs'[n] = refs[n] /\ by'[n] = by[n]
            <4>1. ASSUME NEW m \in Names, Takes(m), m # n
                  PROVE  refs'[n] = refs[n] /\ by'[n] = by[n]
                BY <1>1, <4>1 DEF Takes, Types
            <4>2. QED  BY <2>2, <4>1
        <3>3. refs'[n] = refs[n] /\ by'[n] = by[n]
            BY <1>1, <3>1, <3>2 DEF Types
        <3>4. QED  BY <3>3, OwnedStays
    <2>3. QED  BY <2>1, <2>2
<1>4. CASE UNCHANGED vars
    BY <1>4, OwnedStays DEF vars
<1>5. QED  BY <1>2, <1>3, <1>4 DEF Next

-----------------------------------------------------------------------------
(* Where a call is.                                                         *)

(* A call that does not move: its branch is taken from it by people alone.  *)
LEMMA PlacedStays ==
    ASSUME IInv, [Next]_vars, NEW q \in Proposers,
           pc'[q] = pc[q], base'[q] = base[q], baseRef'[q] = baseRef[q],
           rolledBack'[q] = rolledBack[q], outcome'[q] = outcome[q],
           by'[name[q]] = q => by[name[q]] = q,
           by[name[q]] = q => by'[name[q]] = q \/ name[q] \in removed',
           removed \subseteq removed'
    PROVE  Placed(q)'
<1>1. Placed(q)  BY DEF IInv, Placing
<1>2. name' = name  BY NamesStay
<1>3. QED  BY <1>1, <1>2 DEF Placed

(* Where a call is after a step of its own.                                 *)
LEMMA MoverPlaced ==
    ASSUME IInv, [Next]_vars, NEW p \in Proposers, Propose(p)
    PROVE  Placed(p)'
<1>1. Types /\ PeoplesOwn /\ Placed(p) /\ HeadCommit \in Commits /\ name[p] \in Names
    BY HeadIsPeoples DEF IInv, Placing, Types
<1> USE DEF Early, Late, Branchless
<1>2. CASE Quiet(p)
    <2>1. UNCHANGED <<by, removed, name>>
        BY <1>2, QuietIsQuiet
    <2>2. CASE ReadBase(p) \/ ReadBaseRef(p)
        BY <1>1, <2>1, <2>2 DEF ReadBase, ReadBaseRef, Placed, Types
    <2>3. CASE Prepare(p) \/ TestsFail(p) \/ PatchRefused(p) \/ Ask(p)
        BY <1>1, <2>1, <2>3 DEF Prepare, TestsFail, PatchRefused, Ask, Placed, Types
    <2>4. CASE BeforeRefs(p) \/ BeforeHead(p) \/ Consume(p) \/ WriteRefused(p)
        BY <1>1, <2>1, <2>4 DEF BeforeRefs, BeforeHead, Consume, WriteRefused, Placed, Types
    <2>5. CASE VerifyRef(p) \/ AfterRefs(p) \/ AfterHead(p) \/ Retest(p)
        <3>1. /\ pc[p] \in Late /\ UNCHANGED <<base, baseRef, rolledBack>>
              /\ \/ pc'[p] \in Late /\ outcome' = outcome
                 \/ pc'[p] = "done" /\ outcome'[p] = "raised"
            BY <1>1, <2>5 DEF VerifyRef, AfterRefs, AfterHead, Retest, Checks, Types
        <3>2. QED  BY <1>1, <2>1, <3>1 DEF Placed
    <2>6. CASE Accept(p)
        BY <1>1, <2>1, <2>6 DEF Accept, Placed, Types
    <2>7. QED  BY <1>2, <2>2, <2>3, <2>4, <2>5, <2>6 DEF Quiet
<1>3. CASE CreateBranch(p)
    <2>1. /\ pc[p] = "write" /\ by'[name[p]] = p
          /\ UNCHANGED <<name, base, baseRef, rolledBack>>
          /\ \/ pc'[p] = "verify" /\ outcome' = outcome
             \/ pc'[p] = "done" /\ outcome'[p] = "raised"
        BY <1>1, <1>3 DEF CreateBranch, Types
    <2>2. QED  BY <1>1, <2>1 DEF Placed
<1>4. CASE Rollback(p)
    <2>1. /\ pc[p] = "judge" /\ pc'[p] = "done" /\ name' = name
          /\ outcome'[p] \in {"verification_failed", "raised"}
          /\ rolledBack'[p] = rolledBack[p] \/ by'[name[p]] = Nobody
        BY <1>1, <1>4 DEF Rollback, Types
    <2>2. QED  BY <1>1, <2>1 DEF Placed
<1>5. QED  BY <1>2, <1>3, <1>4 DEF Propose, Quiet

(* What is so of the calls stays so.                                        *)
LEMMA KeepsPlacing == IInv /\ [Next]_vars => Placing'
<1> SUFFICES ASSUME IInv, [Next]_vars, NEW q \in Proposers PROVE Placed(q)'
    BY DEF Placing
<1>1. Types /\ Owned(name[q]) /\ Owning /\ name[q] \in Names
    BY DEF IInv, Owning, Types
<1>2. ASSUME NEW p \in Proposers, Propose(p), p # q PROVE Placed(q)'
    <2>1. /\ pc'[q] = pc[q] /\ base'[q] = base[q] /\ baseRef'[q] = baseRef[q]
          /\ rolledBack'[q] = rolledBack[q] /\ outcome'[q] = outcome[q]
        BY <1>1, <1>2, OneMoves
    <2>2. /\ by'[name[q]] = q => by[name[q]] = q
          /\ by[name[q]] = q => by'[name[q]] = q
          /\ removed' = removed
        <3>1. CASE Quiet(p)  BY <3>1, QuietIsQuiet
        <3>2. CASE CreateBranch(p)
            BY <1>1, <1>2, <3>2 DEF CreateBranch, Types, Owned
        <3>3. CASE Rollback(p)
            <4>1. by' = by \/ (refs[name[p]] = Commit(p)
                               /\ by' = [by EXCEPT ![name[p]] = Nobody])
                BY <3>3 DEF Rollback
            <4>2. by[name[q]] = q => refs[name[q]] # Commit(p)
                BY <1>1, <1>2 DEF Owned, Commit, NewCommit
            <4>3. QED  BY <1>1, <3>3, <4>1, <4>2 DEF Rollback, Types
        <3>4. QED  BY <1>2, <3>1, <3>2, <3>3 DEF Propose, Quiet
    <2>3. QED  BY <2>1, <2>2, PlacedStays
<1>3. CASE World
    <2>1. /\ by'[name[q]] = q => by[name[q]] = q
          /\ by[name[q]] = q => by'[name[q]] = q \/ name[q] \in removed'
          /\ removed \subseteq removed'
        BY <1>1, <1>3 DEF World, PeopleDo, CommitsTo, Switch, Edit, Takes, Types
    <2>2. QED  BY <1>3, <2>1, PeopleLeaveCalls, PlacedStays
<1>4. CASE UNCHANGED vars
    BY <1>4, PlacedStays DEF vars
<1>5. QED  BY <1>2, <1>3, <1>4, MoverPlaced DEF Next

-----------------------------------------------------------------------------
(* The theorems.                                                            *)

(* Every step keeps the invariant.                                          *)
LEMMA Inductive == IInv /\ [Next]_vars => IInv'
BY KeepsTypes, KeepsPeoplesOwn, KeepsOwning, KeepsPlacing DEF IInv

(* The invariant holds.                                                     *)
LEMMA Invariant == Spec => []IInv
<1>1. Init => IInv  BY Initially
<1>2. IInv /\ [Next]_vars => IInv'  BY Inductive
<1>3. QED  BY <1>1, <1>2, PTL DEF Spec

(* Of several proposals of one name, however they overlap, two are told     *)
(* branch_created only if people took the first branch away                 *)
(* (_create_branch creates, and never updates).                             *)
THEOREM NameIsTakenOnce == Spec => []OneBranchPerName
<1>1. IInv => OneBranchPerName
    BY DEF IInv, Placing, Placed, OneBranchPerName
<1>2. QED  BY <1>1, Invariant, PTL

(* A call that failed its tests, was refused or waits for an approval has   *)
(* made no branch, and one that says it rolled back has none left.          *)
THEOREM OutcomesTellBranches == Spec => []OutcomeTellsBranch
<1>1. IInv => OutcomeTellsBranch
    BY DEF IInv, Placing, Placed, OutcomeTellsBranch, Branchless
<1>2. QED  BY <1>1, Invariant, PTL

(* A branch of Core's appears only by the transaction of its own call, with *)
(* the branch it was cut from at the base.                                  *)
LEMMA CreationIsCut ==
    ASSUME IInv, [Next]_vars, NEW p \in Proposers, NEW n \in Names, by'[n] = p, by[n] # p
    PROVE  refs'[n].parent = refs'[baseRef[p]]
<1>1. Types /\ Placing  BY DEF IInv
<1>2. CASE World
    <2>1. by'[n] = by[n] \/ by'[n] \in {Nobody, People}
        BY <1>1, <1>2 DEF World, PeopleDo, CommitsTo, Switch, Edit, Takes, Types
    <2>2. QED  BY <2>1
<1>3. ASSUME NEW q \in Proposers, Propose(q)
      PROVE  refs'[n].parent = refs'[baseRef[p]]
    <2>1. CASE Quiet(q)  BY <2>1, QuietIsQuiet
    <2>2. CASE Rollback(q)
        <3>1. by'[n] = by[n] \/ by'[n] = Nobody
            BY <1>1, <2>2 DEF Rollback, Types
        <3>2. QED  BY <3>1
    <2>3. CASE CreateBranch(q)
        <3>1. q = p /\ name[p] = n
            BY <1>1, <2>3 DEF CreateBranch, Types
        <3>2. base[p] \in Commits /\ baseRef[p] \in Branches
            BY <1>1, <2>3, <3>1 DEF CreateBranch, Placing, Placed
        <3>3. /\ refs'[n] = Commit(p) /\ refs[baseRef[p]] = base[p]
              /\ refs'[baseRef[p]] = refs[baseRef[p]]
            BY <1>1, <2>3, <3>1, <3>2 DEF CreateBranch, Types
        <3>4. QED  BY <3>2, <3>3, CommitIsNew
    <2>4. QED  BY <1>3, <2>1, <2>2, <2>3 DEF Propose, Quiet
<1>4. QED  BY <1>2, <1>3 DEF Next, vars

(* Whenever a branch of Core's appears, the branch it was cut from stands   *)
(* at its parent (the verify line of _create_branch's transaction).         *)
THEOREM BranchesAreCutFromTheBase == Spec => CutFromTheBase
<1> DEFINE A == \A p \in Proposers, n \in Names :
                    by'[n] = p /\ by[n] # p => refs'[n].parent = refs'[baseRef[p]]
<1>1. IInv /\ [Next]_vars => [A]_vars
    BY CreationIsCut
<1> HIDE DEF A
<1>2. []IInv /\ [][Next]_vars => [][A]_vars
    BY <1>1, PTL
<1>3. QED
    <2>1. Spec => [][A]_vars  BY <1>2, Invariant, PTL DEF Spec
    <2>2. QED  BY <2>1 DEF CutFromTheBase, A

(* A call that is judged takes away its own branch or none.                 *)
LEMMA JudgementIsOwn ==
    ASSUME IInv, [Next]_vars, NEW p \in Proposers, NEW n \in Names,
           pc[p] = "judge", pc'[p] = "done", refs'[n] # refs[n]
    PROVE  by[n] = p
<1>1. Types /\ Placing /\ Owning  BY DEF IInv
<1>2. pc' # pc  BY <1>1 DEF Types
<1>3. CASE World
    BY <1>2, <1>3, PeopleLeaveCalls
<1>4. ASSUME NEW q \in Proposers, Propose(q) PROVE by[n] = p
    <2>1. q = p
        BY <1>1, <1>4, OneMoves
    <2>2. CASE Quiet(q)  BY <2>2, QuietIsQuiet
    <2>3. CASE CreateBranch(q)
        BY <2>1, <2>3 DEF CreateBranch
    <2>4. CASE Rollback(q)
        <3>1. refs[name[p]] = Commit(p) /\ n = name[p]
            BY <1>1, <2>1, <2>4 DEF Rollback, Types
        <3>2. base[p] \in Commits
            BY <1>1 DEF Placing, Placed
        <3>3. QED  BY <1>1, <3>1, <3>2, CommitIsNew DEF Owning, Owned
    <2>5. QED  BY <1>4, <2>2, <2>3, <2>4 DEF Propose, Quiet
<1>5. QED  BY <1>2, <1>3, <1>4 DEF Next, vars

(* A rollback deletes the branch its own call made and no other one, though *)
(* people may have moved it or made another (update-ref -d with the commit).*)
THEOREM RollbacksAreOwn == Spec => RollbackIsOwn
<1> DEFINE A == \A p \in Proposers, n \in Names :
                    pc[p] = "judge" /\ pc'[p] = "done" /\ refs'[n] # refs[n] => by[n] = p
<1>1. IInv /\ [Next]_vars => [A]_vars
    BY JudgementIsOwn
<1> HIDE DEF A
<1>2. []IInv /\ [][Next]_vars => [][A]_vars
    BY <1>1, PTL
<1>3. QED
    <2>1. Spec => [][A]_vars  BY <1>2, Invariant, PTL DEF Spec
    <2>2. QED  BY <2>1 DEF RollbackIsOwn, A

=============================================================================
