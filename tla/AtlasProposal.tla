----------------------------- MODULE AtlasProposal -----------------------------
(***************************************************************************)
(* patch_proposal.propose, called by several hosts on one repository in     *)
(* which people go on working: prepare and test in a clone, ask, and on a   *)
(* yes create a branch through invoke_write, verify it and roll it back.    *)
(*                                                                          *)
(* Each call has its own ApprovalAuthority, its own gateway and a budget of *)
(* one tool call, so of invoke_write (module AtlasGateway) only the checks  *)
(* that can still go either way are left: the expiry, the state of the      *)
(* repository, and what the handler meets.  A step is one git command, but  *)
(* HEAD, its branch and the worktree are read together, as clean_head and   *)
(* the end of _repo_state do in two or three commands.  No two calls make   *)
(* the same commit (it holds the second it was made in).                    *)
(***************************************************************************)
EXTENDS Naturals

CONSTANTS Proposers,
          Branches,    (* local branches people work on                      *)
          Names,       (* atlas/* branches a proposal may name               *)
          Commits,     (* people's commits                                   *)
          Absent,      (* no commit                                          *)
          MaxMoves     (* bound: what people do                              *)

Nobody == "nobody"
People == "people"

(* The commit made in p's clone: its bytes follow from the base, the patch  *)
(* and the second it was made in, here the proposer.                        *)
NewCommit(b, p) == [parent |-> b, for |-> p]
NewCommits      == [parent : Commits, for : Proposers]

ASSUME ProposalAssumption ==
    /\ Branches \cap Names = {} /\ Branches \cap Commits = {}
    /\ Absent \notin Commits \cup Branches \cup NewCommits
    /\ NewCommits \cap Commits = {} /\ Proposers \cap {Nobody, People} = {}
    /\ MaxMoves \in Nat

VARIABLES (* the repository                                                  *)
          refs,       (* refs[b]: a commit, or Absent                        *)
          HEAD,       (* a branch, or a commit when it is detached           *)
          clean,      (* whether the worktree is                             *)
          by,         (* history: who put refs[n] where it is                *)
          removed,    (* history: the names people deleted or moved          *)
          (* the calls of propose; rolledBack is what rollback answered       *)
          pc, name, base, baseRef, before, verified, rolledBack, outcome,
          moves

repoVars == <<refs, HEAD, clean, by, removed>>
callVars == <<pc, name, base, baseRef, before, verified, rolledBack, outcome>>
vars     == <<repoVars, callVars, moves>>

-----------------------------------------------------------------------------
Commit(p)       == NewCommit(base[p], p)

HeadCommit == IF HEAD \in Branches THEN refs[HEAD] ELSE HEAD

(* _repo_state: what the write must leave alone.                            *)
State == [refs |-> refs, HEAD |-> HEAD, at |-> HeadCommit, clean |-> clean]

Init ==
    /\ \E m \in Commits : refs = [b \in Branches \cup Names |->
                                    IF b \in Branches THEN m ELSE Absent]
    /\ HEAD \in Branches /\ clean = TRUE
    /\ by = [n \in Names |-> Nobody] /\ removed = {}
    /\ pc = [p \in Proposers |-> "base"]
    /\ name \in [Proposers -> Names]
    /\ base = [p \in Proposers |-> Absent]
    /\ baseRef = [p \in Proposers |-> Absent]
    /\ before = [p \in Proposers |-> State]
    /\ verified = [p \in Proposers |-> TRUE]
    /\ rolledBack = [p \in Proposers |-> FALSE]
    /\ outcome = [p \in Proposers |-> "none"]
    /\ moves = 0

-----------------------------------------------------------------------------
(* People.                                                                  *)

PeopleDo(action) == action /\ moves < MaxMoves /\ moves' = moves + 1 /\ UNCHANGED callVars

CommitsTo(b) == /\ refs' \in {[refs EXCEPT ![b] = m] : m \in Commits \ {refs[b]}}
                /\ UNCHANGED <<HEAD, clean, by, removed>>

Switch == /\ clean
          /\ HEAD' \in (Branches \cup Commits) \ {HEAD}
          /\ UNCHANGED <<refs, clean, by, removed>>

Edit == clean' = ~clean /\ UNCHANGED <<refs, HEAD, by, removed>>

(* A proposed branch is deleted, moved on, or made by hand.                 *)
Takes(n) == /\ refs' \in {[refs EXCEPT ![n] = m] : m \in (Commits \cup {Absent}) \ {refs[n]}}
            /\ by' = [by EXCEPT ![n] = IF refs'[n] = Absent THEN Nobody ELSE People]
            /\ removed' = removed \cup {n}
            /\ UNCHANGED <<HEAD, clean>>

World == \/ \E b \in Branches : PeopleDo(CommitsTo(b))
         \/ PeopleDo(Switch) \/ PeopleDo(Edit)
         \/ \E n \in Names : PeopleDo(Takes(n))

-----------------------------------------------------------------------------
(* propose.                                                                 *)

Goto(p, at)    == pc' = [pc EXCEPT ![p] = at]
Ends(p, o)     == Goto(p, "done") /\ outcome' = [outcome EXCEPT ![p] = o]
Untouched      == UNCHANGED <<repoVars, moves, name>>

(* An exception leaves propose.                                             *)
Raises(p) == Ends(p, "raised") /\ UNCHANGED <<base, baseRef, before, verified, rolledBack>>

(* prepare: clean_head, then the branch HEAD is on, then that the new name  *)
(* is free; three reads of a repository that may change between them.       *)
ReadBase(p) ==
    /\ pc[p] = "base"
    /\ \/ /\ clean
          /\ base' = [base EXCEPT ![p] = HeadCommit]
          /\ Goto(p, "baseRef")
          /\ UNCHANGED <<baseRef, before, verified, rolledBack, outcome>>
       \/ ~clean /\ Raises(p)
    /\ Untouched

ReadBaseRef(p) ==
    /\ pc[p] = "baseRef"
    /\ \/ /\ HEAD \in Branches
          /\ baseRef' = [baseRef EXCEPT ![p] = HEAD]
          /\ Goto(p, "free")
          /\ UNCHANGED <<base, before, verified, rolledBack, outcome>>
       \/ HEAD \notin Branches /\ Raises(p)
    /\ Untouched

(* The clone, the patch and its tests.                                      *)
Prepare(p) ==
    /\ pc[p] = "free"
    /\ refs[name[p]] = Absent
    /\ Goto(p, "ask")
    /\ UNCHANGED <<base, baseRef, before, verified, rolledBack, outcome>> /\ Untouched

TestsFail(p) ==
    /\ pc[p] = "free"
    /\ refs[name[p]] = Absent
    /\ Ends(p, "tests_failed")
    /\ UNCHANGED <<base, baseRef, before, verified, rolledBack>> /\ Untouched

(* The name is taken, the patch is refused or does not apply.               *)
PatchRefused(p) == pc[p] = "free" /\ Raises(p) /\ Untouched

(* request, then nobody to ask, a wrong answer, or the digest itself.       *)
Ask(p) ==
    /\ pc[p] = "ask"
    /\ \/ Goto(p, "before") /\ UNCHANGED outcome
       \/ \E o \in {"approval_required", "refused", "raised"} : Ends(p, o)
    /\ UNCHANGED <<base, baseRef, before, verified, rolledBack>> /\ Untouched

(* _repo_state reads the refs, and then HEAD and the worktree.              *)
BeforeRefs(p) ==
    /\ pc[p] = "before"
    /\ before' = [before EXCEPT ![p] = State]
    /\ Goto(p, "beforeHead")
    /\ UNCHANGED <<base, baseRef, verified, rolledBack, outcome>> /\ Untouched

BeforeHead(p) ==
    /\ pc[p] = "beforeHead"
    /\ before' = [before EXCEPT ![p] = [State EXCEPT !.refs = before[p].refs]]
    /\ Goto(p, "consume")
    /\ UNCHANGED <<base, baseRef, verified, rolledBack, outcome>> /\ Untouched

(* invoke_write up to the handler: a grant that ran out, a worktree that is *)
(* dirty or a HEAD that moved is refused.                                   *)
Consume(p) ==
    /\ pc[p] = "consume"
    /\ \/ /\ clean /\ HeadCommit = base[p]
          /\ Goto(p, "write")
          /\ UNCHANGED <<base, baseRef, before, verified, rolledBack, outcome>>
       \/ Raises(p)
    /\ Untouched

(* Mutants of CreateBranch: the transaction without its verify line, and    *)
(* with update for create.                                                  *)
CreateBranchUnverified(p) ==
    /\ pc[p] = "write"
    /\ refs[name[p]] = Absent
    /\ refs' = [refs EXCEPT ![name[p]] = Commit(p)]
    /\ by' = [by EXCEPT ![name[p]] = p]
    /\ Goto(p, "verify") /\ UNCHANGED outcome
    /\ UNCHANGED <<HEAD, clean, removed, name, base, baseRef, before, verified, rolledBack,
                   moves>>

CreateBranchOver(p) ==
    /\ pc[p] = "write"
    /\ refs[baseRef[p]] = base[p]
    /\ refs' = [refs EXCEPT ![name[p]] = Commit(p)]
    /\ by' = [by EXCEPT ![name[p]] = p]
    /\ Goto(p, "verify") /\ UNCHANGED outcome
    /\ UNCHANGED <<HEAD, clean, removed, name, base, baseRef, before, verified, rolledBack,
                   moves>>

(* _create_branch: one update-ref transaction, verify and create.  The      *)
(* gateway may still raise after it: the tool's 60 s, the budget's 120 s.   *)
CreateBranch(p) ==
    /\ pc[p] = "write"
    /\ refs[baseRef[p]] = base[p] /\ refs[name[p]] = Absent
    /\ refs' = [refs EXCEPT ![name[p]] = Commit(p)]
    /\ by' = [by EXCEPT ![name[p]] = p]
    /\ \/ Goto(p, "verify") /\ UNCHANGED outcome
       \/ Ends(p, "raised")
    /\ UNCHANGED <<HEAD, clean, removed, name, base, baseRef, before, verified, rolledBack,
                   moves>>

(* A fetch that fails, or a transaction git refuses.                        *)
WriteRefused(p) == pc[p] = "write" /\ Raises(p) /\ Untouched

(* verify_created.  Without the ref the other checks are skipped; a git     *)
(* command that fails raises.                                               *)
Checks(p, holds, at) ==
    /\ \/ /\ verified' = [verified EXCEPT ![p] = @ /\ holds]
          /\ Goto(p, at)
          /\ UNCHANGED <<base, baseRef, before, rolledBack, outcome>>
       \/ Raises(p)
    /\ Untouched

VerifyRef(p) == /\ pc[p] = "verify"
                /\ LET there == refs[name[p]] = Commit(p)
                   IN  Checks(p, there, IF there THEN "afterRefs" ELSE "judge")

AfterRefs(p) ==
    /\ pc[p] = "afterRefs"
    /\ Checks(p, /\ before[p].refs[name[p]] = Absent
                 /\ refs = [before[p].refs EXCEPT ![name[p]] = Commit(p)], "afterHead")

AfterHead(p) ==
    /\ pc[p] = "afterHead"
    /\ Checks(p, HEAD = before[p].HEAD /\ HeadCommit = before[p].at
                 /\ clean = before[p].clean, "retest")

Retest(p) == pc[p] = "retest" /\ \E passed \in BOOLEAN : Checks(p, passed, "judge")

(* Mutants of Rollback: the ref is deleted wherever it points, and a branch *)
(* that could not be deleted is reported as rolled back.                    *)
RollbackAnyway(p) ==
    /\ pc[p] = "judge" /\ ~verified[p]
    /\ refs' = [refs EXCEPT ![name[p]] = Absent]
    /\ by' = [by EXCEPT ![name[p]] = Nobody]
    /\ rolledBack' = [rolledBack EXCEPT ![p] = TRUE]
    /\ Ends(p, "verification_failed")
    /\ UNCHANGED <<HEAD, clean, removed, name, base, baseRef, before, verified, moves>>

RollbackHoping(p) ==
    /\ pc[p] = "judge" /\ ~verified[p]
    /\ rolledBack' = [rolledBack EXCEPT ![p] = TRUE]
    /\ Ends(p, "verification_failed")
    /\ UNCHANGED <<repoVars, name, base, baseRef, before, verified, moves>>

(* rollback: update-ref -d with the commit it must still point at.  git may *)
(* refuse for a reason of its own as well, and the log's append may raise.  *)
Rollback(p) ==
    /\ pc[p] = "judge" /\ ~verified[p]
    /\ \/ /\ refs[name[p]] = Commit(p)
          /\ refs' = [refs EXCEPT ![name[p]] = Absent]
          /\ by' = [by EXCEPT ![name[p]] = Nobody]
          /\ rolledBack' = [rolledBack EXCEPT ![p] = TRUE]
       \/ UNCHANGED <<refs, by, rolledBack>>
    /\ \E o \in {"verification_failed", "raised"} : Ends(p, o)
    /\ UNCHANGED <<HEAD, clean, removed, name, base, baseRef, before, verified, moves>>

Accept(p) == /\ pc[p] = "judge" /\ verified[p]
             /\ \E o \in {"branch_created", "raised"} : Ends(p, o)
             /\ UNCHANGED <<base, baseRef, before, verified, rolledBack>> /\ Untouched

Propose(p) ==
    \/ ReadBase(p) \/ ReadBaseRef(p) \/ Prepare(p) \/ TestsFail(p)
    \/ PatchRefused(p) \/ Ask(p)
    \/ BeforeRefs(p) \/ BeforeHead(p) \/ Consume(p)
    \/ CreateBranch(p) \/ WriteRefused(p)
    \/ VerifyRef(p) \/ AfterRefs(p) \/ AfterHead(p) \/ Retest(p)
    \/ Rollback(p) \/ Accept(p)

Next == World \/ \E p \in Proposers : Propose(p)

Spec == Init /\ [][Next]_vars

-----------------------------------------------------------------------------
(* Properties.                                                              *)

(* Whenever a branch of Core's appears, the branch it was cut from stands   *)
(* at its parent, however long the person read and whatever moved between   *)
(* the check of the approval and the write.                                 *)
CutFromTheBase ==
    [][\A p \in Proposers, n \in Names :
          by'[n] = p /\ by[n] # p => refs'[n].parent = refs'[baseRef[p]]]_vars

(* Two proposals of one name: both are told branch_created only if people   *)
(* took the first branch away.                                              *)
OneBranchPerName ==
    \A p, q \in Proposers :
        /\ p # q /\ name[p] = name[q]
        /\ outcome[p] = "branch_created" /\ outcome[q] = "branch_created"
        => name[p] \in removed

(* A rollback deletes the branch that this call created and no other one: a *)
(* branch someone has since moved or made is left alone.                    *)
RollbackIsOwn ==
    [][\A p \in Proposers, n \in Names :
          pc[p] = "judge" /\ pc'[p] = "done" /\ refs'[n] # refs[n] => by[n] = p]_vars

(* A call that says its branch was rolled back has left none, and one that  *)
(* created a branch and did not say so is not refused or waiting.           *)
OutcomeTellsBranch ==
    \A p \in Proposers :
        \/ outcome[p] = "verification_failed" /\ rolledBack[p]
        \/ outcome[p] \in {"tests_failed", "approval_required", "refused"}
        => by[name[p]] # p
=============================================================================
