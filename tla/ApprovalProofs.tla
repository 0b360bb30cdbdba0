---------------------------- MODULE ApprovalProofs ----------------------------
(***************************************************************************)
(* Theorems about ApprovalPipeline for every set of callers, diffs, tokens *)
(* and keys and every bound on the clock.                                  *)
(*                                                                         *)
(* TypeInv says what the locals of a caller are at each of its labels; it  *)
(* is inductive and gives type correctness.  PayInv relates the callers to *)
(* approval_tokens_used: whoever is about to run `git apply` owns the row  *)
(* of its token, alone.  Together they give single use, the soundness of   *)
(* the two tables and the refinement of ApprovalGrants.  CountInv counts   *)
(* landed patches in the terms of that promise, LockInv says who holds the *)
(* mutex of a server, MemoryInv what a decision row stands for, and KeyInv *)
(* that there is one signing key, where nothing can make two.              *)
(***************************************************************************)
EXTENDS ApprovalPipeline, FiniteSetTheorems, TLAPS

Approving == {"register", "persist", "flush"}
Applying  == {"check", "lookup", "consume", "git", "gitrun", "logfail", "cleanup", "remember"}
Checked   == Applying \ {"check"}
Paying    == {"git", "gitrun", "logfail", "cleanup", "remember"}

Minted(t) == t \in Tokens /\ tokens[t] \in Token

\* What the locals of a caller are, given where it is.
LocalTypes(p) ==
    /\ pc[p] # "idle" => req[p].diff \in Diffs /\ req[p].agent \in Agents
    /\ pc[p] \in {"keywrite", "keyflush", "mint"} \cup Approving => req[p].key \in Keys
    /\ pc[p] \in Approving \cup Applying => Minted(req[p].tid)
    /\ pc[p] \in Applying => req[p].task \in Tasks
    /\ pc[p] = "logfail" => req[p].why \in Reasons

\* Tokens that callers may pick up exist.
Released ==
    /\ \A t \in handed : Minted(t)
    /\ \A d \in Diffs : tokenFile[d] \in Tokens => Minted(tokenFile[d])

TypeInv == TypeOK /\ (\A p \in Procs : LocalTypes(p)) /\ Released

\* The control state of the callers is well typed.
ControlOK ==
    /\ pc \in [Procs -> Labels]
    /\ req \in [Procs -> Request]
    /\ holder \in [Modes -> Procs \cup {None}]

-----------------------------------------------------------------------------
(* Control flow.                                                           *)

\* The locals of an idle caller are a request.
LEMMA BlankType == Blank \in Request
  BY PipelineAssumption DEF Blank, Request

\* Ending a request keeps the control state typed and touches one caller.
LEMMA ReturnType ==
    ASSUME TypeOK, NEW p \in Procs, Return(p)
    PROVE  /\ ControlOK'
           /\ pc' = [pc EXCEPT ![p] = "idle"]
           /\ req' = [req EXCEPT ![p] = Blank]
           /\ pc'[p] = "idle"
  BY BlankType DEF TypeOK, ControlOK, Return, Goto, DropLock, Labels

\* Taking the mutex of a server keeps the control state typed.
LEMMA LockType ==
    ASSUME TypeOK, NEW p \in Procs, TakeLock(p)
    PROVE  holder' \in [Modes -> Procs \cup {None}]
  BY PipelineAssumption DEF TypeOK, TakeLock, Modes, Servers

\* Moving to another label keeps the labels typed.
LEMMA GotoType ==
    ASSUME TypeOK, NEW p \in Procs, NEW l \in Labels, Goto(p, l)
    PROVE  pc' \in [Procs -> Labels] /\ pc' = [pc EXCEPT ![p] = l] /\ pc'[p] = l
  BY DEF TypeOK, Goto

\* The request of an apply call.
LEMMA ApplyRequestType ==
    ASSUME NEW d \in Diffs, NEW a \in Agents, NEW k \in Tasks, NEW t \in Tokens
    PROVE  /\ ApplyRequest(d, a, k, t) \in Request
           /\ ApplyRequest(d, a, k, t).diff = d
           /\ ApplyRequest(d, a, k, t).agent = a
           /\ ApplyRequest(d, a, k, t).task = k
           /\ ApplyRequest(d, a, k, t).tid = t
  BY PipelineAssumption DEF ApplyRequest, Request

-----------------------------------------------------------------------------
(* What every step of a caller leaves alone.                               *)

\* A caller moves alone: the others keep their place and their locals.
LEMMA OneCaller ==
    ASSUME TypeOK, NEW p \in Procs, ApproveStep(p) \/ ApplyStep(p),
           NEW q \in Procs, q # p
    PROVE  pc'[q] = pc[q] /\ req'[q] = req[q]
<1>1. ASSUME NEW d \in Diffs, NEW a \in Agents, BeginApprove(p, d, a) PROVE pc'[q] = pc[q] /\ req'[q] = req[q]
  BY <1>1, ReturnType DEF TypeOK, BeginApprove, Goto
<1>2. ASSUME FindKey(p) PROVE pc'[q] = pc[q] /\ req'[q] = req[q]
  BY <1>2, ReturnType DEF TypeOK, FindKey, Goto
<1>3. ASSUME TruncateKey(p) PROVE pc'[q] = pc[q] /\ req'[q] = req[q]
  BY <1>3, ReturnType DEF TypeOK, TruncateKey, Goto
<1>4. ASSUME FlushKey(p) PROVE pc'[q] = pc[q] /\ req'[q] = req[q]
  BY <1>4, ReturnType DEF TypeOK, FlushKey, Goto
<1>5. ASSUME LoadKey(p) PROVE pc'[q] = pc[q] /\ req'[q] = req[q]
  BY <1>5, ReturnType DEF TypeOK, LoadKey, Goto
<1>6. ASSUME Mint(p) PROVE pc'[q] = pc[q] /\ req'[q] = req[q]
  BY <1>6, ReturnType DEF TypeOK, Mint, Goto
<1>7. ASSUME Register(p) PROVE pc'[q] = pc[q] /\ req'[q] = req[q]
  BY <1>7, ReturnType DEF TypeOK, Register, Goto
<1>8. ASSUME TruncateToken(p) PROVE pc'[q] = pc[q] /\ req'[q] = req[q]
  BY <1>8, ReturnType DEF TypeOK, TruncateToken, Goto
<1>9. ASSUME FlushToken(p) PROVE pc'[q] = pc[q] /\ req'[q] = req[q]
  BY <1>9, ReturnType DEF TypeOK, FlushToken, Goto
<1>10. ASSUME NEW d \in Diffs, BeginCliApply(p, d) PROVE pc'[q] = pc[q] /\ req'[q] = req[q]
  BY <1>10, ReturnType DEF TypeOK, BeginCliApply, Goto
<1>11. ASSUME NEW d \in Diffs, NEW a \in Agents, NEW k \in Tasks, NEW t \in Tokens, BeginServerApply(p, d, a, k, t) PROVE pc'[q] = pc[q] /\ req'[q] = req[q]
  BY <1>11, ReturnType DEF TypeOK, BeginServerApply, Goto
<1>12. ASSUME CheckBindings(p) PROVE pc'[q] = pc[q] /\ req'[q] = req[q]
  BY <1>12, ReturnType DEF TypeOK, CheckBindings, Goto
<1>13. ASSUME CheckSignature(p) PROVE pc'[q] = pc[q] /\ req'[q] = req[q]
  BY <1>13, ReturnType DEF TypeOK, CheckSignature, Goto
<1>14. ASSUME Consume(p) PROVE pc'[q] = pc[q] /\ req'[q] = req[q]
  BY <1>14, ReturnType DEF TypeOK, Consume, Goto
<1>15. ASSUME SpawnGit(p) PROVE pc'[q] = pc[q] /\ req'[q] = req[q]
  BY <1>15, ReturnType DEF TypeOK, SpawnGit, Goto
<1>16. ASSUME GitApplied(p) PROVE pc'[q] = pc[q] /\ req'[q] = req[q]
  BY <1>16, ReturnType DEF TypeOK, GitApplied, Goto
<1>17. ASSUME GitRefused(p) PROVE pc'[q] = pc[q] /\ req'[q] = req[q]
  BY <1>17, ReturnType DEF TypeOK, GitRefused, Goto
<1>18. ASSUME RecordFailure(p) PROVE pc'[q] = pc[q] /\ req'[q] = req[q]
  BY <1>18, ReturnType DEF TypeOK, RecordFailure, Goto
<1>19. ASSUME RemoveToken(p) PROVE pc'[q] = pc[q] /\ req'[q] = req[q]
  BY <1>19, ReturnType DEF TypeOK, RemoveToken, Goto
<1>20. ASSUME Remember(p) PROVE pc'[q] = pc[q] /\ req'[q] = req[q]
  BY <1>20, ReturnType DEF TypeOK, Remember, Goto
<1> QED
  BY <1>1, <1>2, <1>3, <1>4, <1>5, <1>6, <1>7, <1>8, <1>9, <1>10, <1>11, <1>12, <1>13, <1>14, <1>15, <1>16, <1>17, <1>18, <1>19, <1>20
  DEF ApproveStep, ApplyStep

\* A token never changes once it was minted.
LEMMA TokensKept ==
    ASSUME TypeOK, NEW p \in Procs, ApproveStep(p) \/ ApplyStep(p),
           NEW t \in Tokens, tokens[t] # None
    PROVE  tokens'[t] = tokens[t]
<1>1. CASE Mint(p)
  BY <1>1 DEF Mint, TypeOK
<1>2. CASE UNCHANGED tokens
  BY <1>2
<1> QED
  BY <1>1, <1>2
  DEF ApproveStep, ApplyStep, BeginApprove, FindKey, TruncateKey, FlushKey, LoadKey, Register, TruncateToken, FlushToken, BeginCliApply, BeginServerApply, CheckBindings, CheckSignature, Consume, SpawnGit, GitApplied, GitRefused, RecordFailure, RemoveToken, Remember

-----------------------------------------------------------------------------
(* Typing: one step per action.                                            *)

\* A step of a caller keeps the state typed, and its own locals.
LEMMA CallerTyping ==
    ASSUME TypeInv, NEW p \in Procs, ApproveStep(p) \/ ApplyStep(p)
    PROVE  TypeOK' /\ LocalTypes(p)' /\ Released'
<1> DEFINE Typed == TypeOK' /\ LocalTypes(p)' /\ Released'
<1> USE DEF dbVars, fileVars, gitVars
<1>1. ASSUME NEW d \in Diffs, NEW a \in Agents, BeginApprove(p, d, a) PROVE Typed
  <2>1. TypeOK'
    BY <1>1, ReturnType, LockType
    DEF TypeInv, TypeOK, LocalTypes, ControlOK, BeginApprove, At, Goto, Labels, Request, Approving, Applying, Minted
  <2>2. LocalTypes(p)'
    BY <1>1, ReturnType
    DEF TypeInv, TypeOK, LocalTypes, Released, BeginApprove, At, Goto, Approving, Applying, Labels, Minted, Request
  <2>3. Released'
    BY <1>1, PipelineAssumption
    DEF TypeInv, TypeOK, LocalTypes, Released, BeginApprove, At, Approving, Applying, Minted
  <2> QED BY <2>1, <2>2, <2>3
<1>2. ASSUME FindKey(p) PROVE Typed
  <2>1. ControlOK'
    <3>1. pc' \in [Procs -> Labels]
      BY <1>2, ReturnType DEF TypeInv, TypeOK, ControlOK, FindKey, Goto, Labels
    <3>2. req' \in [Procs -> Request]
      BY <1>2, ReturnType DEF TypeInv, TypeOK, ControlOK, FindKey, Request
    <3>3. holder' \in [Modes -> Procs \cup {None}]
      BY <1>2, ReturnType, LockType DEF TypeInv, TypeOK, ControlOK, FindKey
    <3> QED BY <3>1, <3>2, <3>3 DEF ControlOK
  <2>2. TypeOK'
    BY <1>2, <2>1, PipelineAssumption
    DEF TypeInv, TypeOK, LocalTypes, ControlOK, FindKey, At, Approving, Applying, Minted, Token, UsedRow, FailedRow
  <2>3. LocalTypes(p)'
    <3>1. CASE Return(p)
      BY <3>1, ReturnType DEF TypeInv, LocalTypes, Approving, Applying
    <3>2. ASSUME NEW k \in Keys, NEW l \in {"mint", "keywrite"}, Goto(p, l),
                 req' = [req EXCEPT ![p].key = k]
          PROVE  LocalTypes(p)'
      <4>1. pc'[p] = l
        BY <3>2 DEF Goto, TypeInv, TypeOK
      <4>2. req[p].diff \in Diffs /\ req[p].agent \in Agents
        BY <1>2 DEF FindKey, At, TypeInv, LocalTypes
      <4>3. req'[p].diff = req[p].diff /\ req'[p].agent = req[p].agent /\ req'[p].key = k
        BY <3>2 DEF TypeInv, TypeOK, Request
      <4> QED BY <4>1, <4>2, <4>3 DEF LocalTypes, Approving, Applying
    <3> QED BY <1>2, <3>1, <3>2 DEF FindKey
  <2>4. Released'
    BY <1>2, <2>2, PipelineAssumption
    DEF TypeInv, TypeOK, LocalTypes, Released, FindKey, At, Approving, Applying, Minted
  <2> QED BY <2>2, <2>3, <2>4
<1>3. ASSUME TruncateKey(p) PROVE Typed
  <2>1. TypeOK'
    BY <1>3, ReturnType, LockType
    DEF TypeInv, TypeOK, LocalTypes, ControlOK, TruncateKey, At, Goto, Labels, Request, Approving, Applying, Minted
  <2>2. LocalTypes(p)'
    BY <1>3, ReturnType
    DEF TypeInv, TypeOK, LocalTypes, Released, TruncateKey, At, Goto, Approving, Applying, Labels, Minted, Request
  <2>3. Released'
    BY <1>3, PipelineAssumption
    DEF TypeInv, TypeOK, LocalTypes, Released, TruncateKey, At, Approving, Applying, Minted
  <2> QED BY <2>1, <2>2, <2>3
<1>4. ASSUME FlushKey(p) PROVE Typed
  <2>1. TypeOK'
    BY <1>4, ReturnType, LockType
    DEF TypeInv, TypeOK, LocalTypes, ControlOK, FlushKey, At, Goto, Labels, Request, Approving, Applying, Minted
  <2>2. LocalTypes(p)'
    BY <1>4, ReturnType
    DEF TypeInv, TypeOK, LocalTypes, Released, FlushKey, At, Goto, Approving, Applying, Labels, Minted, Request
  <2>3. Released'
    BY <1>4, PipelineAssumption
    DEF TypeInv, TypeOK, LocalTypes, Released, FlushKey, At, Approving, Applying, Minted
  <2> QED BY <2>1, <2>2, <2>3
<1>5. ASSUME LoadKey(p) PROVE Typed
  <2>1. TypeOK'
    BY <1>5, ReturnType, LockType
    DEF TypeInv, TypeOK, LocalTypes, ControlOK, LoadKey, At, Goto, Labels, Request, Approving, Applying, Minted
  <2>2. LocalTypes(p)'
    BY <1>5, ReturnType
    DEF TypeInv, TypeOK, LocalTypes, Released, LoadKey, At, Goto, Approving, Applying, Labels, Minted, Request
  <2>3. Released'
    BY <1>5, PipelineAssumption
    DEF TypeInv, TypeOK, LocalTypes, Released, LoadKey, At, Approving, Applying, Minted
  <2> QED BY <2>1, <2>2, <2>3
<1>6. ASSUME Mint(p) PROVE Typed
  <2>1. ControlOK'
    <3>1. pc' \in [Procs -> Labels]
      BY <1>6, ReturnType DEF TypeInv, TypeOK, ControlOK, Mint, Goto, Labels
    <3>2. req' \in [Procs -> Request]
      BY <1>6, ReturnType DEF TypeInv, TypeOK, ControlOK, Mint, Request
    <3>3. holder' \in [Modes -> Procs \cup {None}]
      BY <1>6, ReturnType, LockType DEF TypeInv, TypeOK, ControlOK, Mint
    <3> QED BY <3>1, <3>2, <3>3 DEF ControlOK
  <2>2. TypeOK'
    BY <1>6, <2>1, PipelineAssumption
    DEF TypeInv, TypeOK, LocalTypes, ControlOK, Mint, IssueTime, At, Approving, Applying, Minted, Token, UsedRow, FailedRow
  <2>3. LocalTypes(p)'
    <3>1. CASE Return(p)
      BY <3>1, ReturnType DEF TypeInv, LocalTypes, Approving, Applying
    <3>2. ASSUME NEW t \in Tokens, tokens[t] = None, Goto(p, "register"),
                 req' = [req EXCEPT ![p].tid = t],
                 tokens' = [tokens EXCEPT ![t] =
                       [diff |-> req[p].diff, agent |-> req[p].agent,
                        key |-> req[p].key, created |-> IssueTime]]
          PROVE  LocalTypes(p)'
      <4>1. pc'[p] = "register"
        BY <3>2 DEF Goto, TypeInv, TypeOK
      <4>2. req[p].diff \in Diffs /\ req[p].agent \in Agents /\ req[p].key \in Keys
        BY <1>6 DEF Mint, At, TypeInv, LocalTypes
      <4>3. req'[p].diff = req[p].diff /\ req'[p].agent = req[p].agent
            /\ req'[p].key = req[p].key /\ req'[p].tid = t
        BY <3>2 DEF TypeInv, TypeOK, Request
      <4>4. tokens'[t] \in Token
        BY <3>2, <4>2 DEF TypeInv, TypeOK, Token, IssueTime
      <4> QED BY <4>1, <4>2, <4>3, <4>4 DEF LocalTypes, Minted, Approving, Applying
    <3> QED BY <1>6, <3>1, <3>2 DEF Mint
  <2>4. Released'
    BY <1>6, <2>2, PipelineAssumption
    DEF TypeInv, TypeOK, LocalTypes, Released, Mint, At, Approving, Applying, Minted, Token
  <2> QED BY <2>2, <2>3, <2>4
<1>7. ASSUME Register(p) PROVE Typed
  <2>1. TypeOK'
    BY <1>7, ReturnType, LockType
    DEF TypeInv, TypeOK, LocalTypes, ControlOK, Register, At, Goto, Labels, Request, Approving, Applying, Minted
  <2>2. LocalTypes(p)'
    BY <1>7, ReturnType
    DEF TypeInv, TypeOK, LocalTypes, Released, Register, At, Goto, Approving, Applying, Labels, Minted, Request
  <2>3. Released'
    BY <1>7, PipelineAssumption
    DEF TypeInv, TypeOK, LocalTypes, Released, Register, At, Approving, Applying, Minted
  <2> QED BY <2>1, <2>2, <2>3
<1>8. ASSUME TruncateToken(p) PROVE Typed
  <2>1. TypeOK'
    BY <1>8, ReturnType, LockType
    DEF TypeInv, TypeOK, LocalTypes, ControlOK, TruncateToken, At, Goto, Labels, Request, Approving, Applying, Minted
  <2>2. LocalTypes(p)'
    BY <1>8, ReturnType
    DEF TypeInv, TypeOK, LocalTypes, Released, TruncateToken, At, Goto, Approving, Applying, Labels, Minted, Request
  <2>3. Released'
    BY <1>8, PipelineAssumption
    DEF TypeInv, TypeOK, LocalTypes, Released, TruncateToken, At, Approving, Applying, Minted
  <2> QED BY <2>1, <2>2, <2>3
<1>9. ASSUME FlushToken(p) PROVE Typed
  <2>1. TypeOK'
    BY <1>9, ReturnType, LockType
    DEF TypeInv, TypeOK, LocalTypes, ControlOK, FlushToken, At, Goto, Labels, Request, Approving, Applying, Minted
  <2>2. LocalTypes(p)'
    BY <1>9, ReturnType
    DEF TypeInv, TypeOK, LocalTypes, Released, FlushToken, At, Goto, Approving, Applying, Labels, Minted, Request
  <2>3. Released'
    BY <1>9, PipelineAssumption
    DEF TypeInv, TypeOK, LocalTypes, Released, FlushToken, At, Approving, Applying, Minted
  <2> QED BY <2>1, <2>2, <2>3
<1>10. ASSUME NEW d \in Diffs, BeginCliApply(p, d) PROVE Typed
  <2>1. TypeOK'
    BY <1>10, ReturnType, LockType, ApplyRequestType, PipelineAssumption
    DEF TypeInv, TypeOK, LocalTypes, ControlOK, BeginCliApply, At, Goto, Labels, Approving, Applying, Minted
  <2>2. LocalTypes(p)'
    BY <1>10, ReturnType, ApplyRequestType, PipelineAssumption
    DEF TypeInv, TypeOK, LocalTypes, Released, BeginCliApply, At, Goto, Approving, Applying, Labels, Minted
  <2>3. Released'
    BY <1>10, PipelineAssumption
    DEF TypeInv, TypeOK, LocalTypes, Released, BeginCliApply, At, Approving, Applying, Minted
  <2> QED BY <2>1, <2>2, <2>3
<1>11. ASSUME NEW d \in Diffs, NEW a \in Agents, NEW k \in Tasks, NEW t \in Tokens, BeginServerApply(p, d, a, k, t) PROVE Typed
  <2>1. TypeOK'
    BY <1>11, ReturnType, LockType, ApplyRequestType
    DEF TypeInv, TypeOK, LocalTypes, ControlOK, BeginServerApply, At, Goto, Labels, Approving, Applying, Minted
  <2>2. LocalTypes(p)'
    BY <1>11, ReturnType, ApplyRequestType
    DEF TypeInv, TypeOK, LocalTypes, Released, BeginServerApply, At, Goto, Approving, Applying, Labels, Minted
  <2>3. Released'
    BY <1>11, PipelineAssumption
    DEF TypeInv, TypeOK, LocalTypes, Released, BeginServerApply, At, Approving, Applying, Minted
  <2> QED BY <2>1, <2>2, <2>3
<1>12. ASSUME CheckBindings(p) PROVE Typed
  <2>1. ControlOK'
    <3>1. pc' \in [Procs -> Labels]
      BY <1>12, ReturnType DEF TypeInv, TypeOK, ControlOK, CheckBindings, Goto, Labels
    <3>2. req' \in [Procs -> Request]
      <4>1. CASE Return(p)
        BY <4>1, ReturnType DEF TypeInv, ControlOK
      <4>2. CASE req' = [req EXCEPT ![p].at = now]
        BY <4>2 DEF TypeInv, TypeOK, Request
      <4> QED BY <1>12, <4>1, <4>2 DEF CheckBindings
    <3>3. holder' \in [Modes -> Procs \cup {None}]
      BY <1>12, ReturnType, LockType DEF TypeInv, TypeOK, ControlOK, CheckBindings
    <3> QED BY <3>1, <3>2, <3>3 DEF ControlOK
  <2>2. TypeOK'
    BY <1>12, <2>1, PipelineAssumption
    DEF TypeInv, TypeOK, LocalTypes, ControlOK, CheckBindings, At, Approving, Applying, Minted, Token, UsedRow, FailedRow
  <2>3. LocalTypes(p)'
    <3>1. CASE Return(p)
      BY <3>1, ReturnType DEF TypeInv, LocalTypes, Approving, Applying
    <3>2. CASE Goto(p, "lookup") /\ req' = [req EXCEPT ![p].at = now]
      <4>1. pc'[p] = "lookup"
        BY <3>2 DEF Goto, TypeInv, TypeOK
      <4>2. req[p].diff \in Diffs /\ req[p].agent \in Agents /\ req[p].task \in Tasks
            /\ req[p].tid \in Tokens /\ tokens[req[p].tid] \in Token
        BY <1>12 DEF CheckBindings, At, TypeInv, LocalTypes, Applying, Minted
      <4>3. req'[p].diff = req[p].diff /\ req'[p].agent = req[p].agent
            /\ req'[p].task = req[p].task /\ req'[p].tid = req[p].tid
        BY <3>2 DEF TypeInv, TypeOK, Request
      <4>4. UNCHANGED tokens
        BY <1>12 DEF CheckBindings
      <4> QED BY <4>1, <4>2, <4>3, <4>4 DEF LocalTypes, Minted, Approving, Applying
    <3> QED BY <1>12, <3>1, <3>2 DEF CheckBindings
  <2>4. Released'
    BY <1>12, <2>2, PipelineAssumption
    DEF TypeInv, TypeOK, LocalTypes, Released, CheckBindings, At, Approving, Applying, Minted
  <2> QED BY <2>2, <2>3, <2>4
<1>13. ASSUME CheckSignature(p) PROVE Typed
  <2>1. TypeOK'
    BY <1>13, ReturnType, LockType
    DEF TypeInv, TypeOK, LocalTypes, ControlOK, CheckSignature, At, Goto, Labels, Request, Approving, Applying, Minted
  <2>2. LocalTypes(p)'
    BY <1>13, ReturnType
    DEF TypeInv, TypeOK, LocalTypes, Released, CheckSignature, At, Goto, Approving, Applying, Labels, Minted, Request
  <2>3. Released'
    BY <1>13, PipelineAssumption
    DEF TypeInv, TypeOK, LocalTypes, Released, CheckSignature, At, Approving, Applying, Minted
  <2> QED BY <2>1, <2>2, <2>3
<1>14. ASSUME Consume(p) PROVE Typed
  <2>1. ControlOK'
    <3>1. pc' \in [Procs -> Labels]
      BY <1>14, ReturnType DEF TypeInv, TypeOK, ControlOK, Consume, Goto, Labels
    <3>2. req' \in [Procs -> Request]
      BY <1>14, ReturnType DEF TypeInv, TypeOK, ControlOK, Consume, Request
    <3>3. holder' \in [Modes -> Procs \cup {None}]
      BY <1>14, ReturnType, LockType DEF TypeInv, TypeOK, ControlOK, Consume
    <3> QED BY <3>1, <3>2, <3>3 DEF ControlOK
  <2>2. TypeOK'
    <3>1. CASE Return(p) /\ UNCHANGED used
      BY <1>14, <2>1, <3>1 DEF TypeInv, TypeOK, ControlOK, Consume
    <3>2. CASE used' = used \cup {[tid |-> req[p].tid, diff |-> tokens[req[p].tid].diff,
                                   task |-> req[p].task, at |-> req[p].at]}
      <4>1. req[p].tid \in Tokens /\ tokens[req[p].tid] \in Token /\ req[p].task \in Tasks
        BY <1>14 DEF TypeInv, LocalTypes, Consume, At, Applying, Minted
      <4>2. req[p].at \in 0..MaxClock
        BY DEF TypeInv, TypeOK, Request
      <4>3. used' \subseteq UsedRow
        BY <3>2, <4>1, <4>2 DEF TypeInv, TypeOK, Token, UsedRow
      <4> QED BY <1>14, <2>1, <4>3 DEF TypeInv, TypeOK, ControlOK, Consume
    <3> QED BY <1>14, <3>1, <3>2 DEF Consume
  <2>3. LocalTypes(p)'
    <3>1. CASE pc'[p] # "idle"
      BY <1>14, <2>2, <3>1, ReturnType
      DEF TypeInv, TypeOK, LocalTypes, Released, Consume, At, Goto, Approving, Applying, Labels, Minted, Request
    <3>2. CASE pc'[p] = "idle"
      BY <3>2 DEF LocalTypes, Approving, Applying
    <3> QED BY <3>1, <3>2
  <2>4. Released'
    BY <1>14, <2>2, PipelineAssumption
    DEF TypeInv, TypeOK, LocalTypes, Released, Consume, At, Approving, Applying, Minted
  <2> QED BY <2>2, <2>3, <2>4
<1>15. ASSUME SpawnGit(p) PROVE Typed
  <2>1. TypeOK'
    BY <1>15, ReturnType, LockType
    DEF TypeInv, TypeOK, LocalTypes, ControlOK, SpawnGit, At, Goto, Labels, Request, Approving, Applying, Minted
  <2>2. LocalTypes(p)'
    BY <1>15, ReturnType
    DEF TypeInv, TypeOK, LocalTypes, Released, SpawnGit, At, Goto, Approving, Applying, Labels, Minted, Request
  <2>3. Released'
    BY <1>15, PipelineAssumption
    DEF TypeInv, TypeOK, LocalTypes, Released, SpawnGit, At, Approving, Applying, Minted
  <2> QED BY <2>1, <2>2, <2>3
<1>16. ASSUME GitApplied(p) PROVE Typed
  <2>1. TypeOK'
    BY <1>16, ReturnType, LockType
    DEF TypeInv, TypeOK, LocalTypes, ControlOK, GitApplied, At, Goto, Labels, Request, Approving, Applying, Minted
  <2>2. LocalTypes(p)'
    BY <1>16, ReturnType
    DEF TypeInv, TypeOK, LocalTypes, Released, GitApplied, At, Goto, Approving, Applying, Labels, Minted, Request
  <2>3. Released'
    BY <1>16, PipelineAssumption
    DEF TypeInv, TypeOK, LocalTypes, Released, GitApplied, At, Approving, Applying, Minted
  <2> QED BY <2>1, <2>2, <2>3
<1>17. ASSUME GitRefused(p) PROVE Typed
  <2>1. TypeOK'
    <3>1. CASE Return(p)
      BY <1>17, <3>1, ReturnType DEF TypeInv, TypeOK, ControlOK, GitRefused
    <3>2. ASSUME NEW w \in Reasons, req' = [req EXCEPT ![p].why = w], Goto(p, "logfail"),
                 UNCHANGED holder
          PROVE  TypeOK'
      <4>1. req' \in [Procs -> Request]
        <5> DEFINE r == [req[p] EXCEPT !.why = w]
        <5>1. req[p] \in Request /\ req \in [Procs -> Request]
          BY DEF TypeInv, TypeOK
        <5>2. r \in Request
          BY <5>1 DEF Request
        <5>3. req' = [req EXCEPT ![p] = r]
          BY <3>2
        <5> QED BY <5>1, <5>2, <5>3
      <4>2. pc' \in [Procs -> Labels]
        BY <3>2 DEF TypeInv, TypeOK, Goto, Labels
      <4> QED BY <1>17, <3>2, <4>1, <4>2 DEF TypeInv, TypeOK, GitRefused
    <3> QED BY <1>17, <3>1, <3>2 DEF GitRefused
  <2>2. LocalTypes(p)'
    BY <1>17, ReturnType
    DEF TypeInv, TypeOK, LocalTypes, Released, GitRefused, At, Goto, Approving, Applying, Labels, Minted, Request
  <2>3. Released'
    BY <1>17, PipelineAssumption
    DEF TypeInv, TypeOK, LocalTypes, Released, GitRefused, At, Approving, Applying, Minted
  <2> QED BY <2>1, <2>2, <2>3
<1>18. ASSUME RecordFailure(p) PROVE Typed
  <2>1. TypeOK'
    <3>1. req[p].task \in Tasks /\ req[p].diff \in Diffs /\ req[p].why \in Reasons
          /\ req[p].tid \in Tokens
      BY <1>18 DEF RecordFailure, At, TypeInv, LocalTypes, Applying, Minted
    <3>2. failures' \subseteq FailedRow
      BY <1>18, <3>1 DEF RecordFailure, TypeInv, TypeOK, FailedRow
    <3> QED BY <1>18, <3>2, ReturnType DEF RecordFailure, TypeInv, TypeOK, ControlOK
  <2>2. LocalTypes(p)'
    BY <1>18, ReturnType
    DEF TypeInv, TypeOK, LocalTypes, Released, RecordFailure, At, Goto, Approving, Applying, Labels, Minted, Request
  <2>3. Released'
    BY <1>18, PipelineAssumption
    DEF TypeInv, TypeOK, LocalTypes, Released, RecordFailure, At, Approving, Applying, Minted
  <2> QED BY <2>1, <2>2, <2>3
<1>19. ASSUME RemoveToken(p) PROVE Typed
  <2>1. TypeOK'
    BY <1>19, ReturnType, LockType
    DEF TypeInv, TypeOK, LocalTypes, ControlOK, RemoveToken, At, Goto, Labels, Request, Approving, Applying, Minted
  <2>2. LocalTypes(p)'
    BY <1>19, ReturnType
    DEF TypeInv, TypeOK, LocalTypes, Released, RemoveToken, At, Goto, Approving, Applying, Labels, Minted, Request
  <2>3. Released'
    BY <1>19, PipelineAssumption
    DEF TypeInv, TypeOK, LocalTypes, Released, RemoveToken, At, Approving, Applying, Minted
  <2> QED BY <2>1, <2>2, <2>3
<1>20. ASSUME Remember(p) PROVE Typed
  <2>1. TypeOK'
    BY <1>20, ReturnType, LockType
    DEF TypeInv, TypeOK, LocalTypes, ControlOK, Remember, At, Goto, Labels, Request, Approving, Applying, Minted
  <2>2. LocalTypes(p)'
    BY <1>20, ReturnType
    DEF TypeInv, TypeOK, LocalTypes, Released, Remember, At, Goto, Approving, Applying, Labels, Minted, Request
  <2>3. Released'
    BY <1>20, PipelineAssumption
    DEF TypeInv, TypeOK, LocalTypes, Released, Remember, At, Approving, Applying, Minted
  <2> QED BY <2>1, <2>2, <2>3
<1> QED
  BY <1>1, <1>2, <1>3, <1>4, <1>5, <1>6, <1>7, <1>8, <1>9, <1>10, <1>11, <1>12, <1>13, <1>14, <1>15, <1>16, <1>17, <1>18, <1>19, <1>20
  DEF ApproveStep, ApplyStep

\* TypeInv is inductive.
LEMMA TypeStep == TypeInv /\ [Next]_vars => TypeInv'
<1> SUFFICES ASSUME TypeInv, [Next]_vars PROVE TypeInv'
  OBVIOUS
<1> USE DEF dbVars, fileVars, gitVars
<1>1. ASSUME NEW p \in Procs, ApproveStep(p) \/ ApplyStep(p) PROVE TypeInv'
  <2>1. TypeOK' /\ LocalTypes(p)' /\ Released'
    BY <1>1, CallerTyping
  <2>2. ASSUME NEW q \in Procs, q # p PROVE LocalTypes(q)'
    <3>1. pc'[q] = pc[q] /\ req'[q] = req[q]
      BY <1>1, <2>2, OneCaller DEF TypeInv
    <3>2. ASSUME NEW t \in Tokens, Minted(t) PROVE Minted(t)'
      BY <1>1, <3>2, TokensKept, NoTokenAssumption DEF TypeInv, Minted
    <3> QED BY <3>1, <3>2 DEF TypeInv, LocalTypes, Minted
  <2> QED BY <2>1, <2>2 DEF TypeInv
<1>2. ASSUME NEW p \in Procs, Fail(p) \/ Crash(p) PROVE TypeInv'
  <2>1. TypeOK'
    <3>1. CASE Crash(p)
      BY <3>1, BlankType DEF TypeInv, TypeOK, Crash, Labels, Modes
    <3>2. CASE Fail(p)
      BY <3>2, ReturnType DEF TypeInv, TypeOK, ControlOK, Fail
    <3> QED BY <1>2, <3>1, <3>2
  <2>2. (\A q \in Procs : LocalTypes(q))'
    BY <1>2 DEF TypeInv, TypeOK, LocalTypes, Fail, Return, Goto, Crash, Minted,
                Approving, Applying, Labels
  <2>3. Released'
    BY <1>2 DEF TypeInv, Released, Fail, Crash, Minted
  <2> QED BY <2>1, <2>2, <2>3 DEF TypeInv
<1>3. CASE SetClock
  BY <1>3 DEF SetClock, TypeInv, TypeOK, LocalTypes, Released, Minted
<1>4. ASSUME NEW d \in Diffs, StoreProposal(d) PROVE TypeInv'
  BY <1>4 DEF StoreProposal, TypeInv, TypeOK, LocalTypes, Released, Minted
<1>5. CASE UNCHANGED vars
  BY <1>5 DEF vars, TypeInv, TypeOK, LocalTypes, Released, Minted
<1> QED
  BY <1>1, <1>2, <1>3, <1>4, <1>5 DEF Next

\* The initial states are typed.
LEMMA TypeInit == Init => TypeInv
  BY BlankType, PipelineAssumption
  DEF Init, TypeInv, TypeOK, LocalTypes, Released, Approving, Applying, Labels, Modes, Servers

\* Every reachable state is typed, whatever the callers, files and crashes do:
\* in particular only minted tokens are handed out, persisted or consumed.
THEOREM TypeCorrect == Spec => []TypeOK
<1>1. TypeInv => TypeOK
  BY DEF TypeInv
<1> QED
  BY TypeInit, TypeStep, <1>1, PTL DEF Spec

-----------------------------------------------------------------------------
(* Paying.                                                                 *)

Launching == {"git", "gitrun"}

\* A caller past the checks was authorised; past the INSERT it owns a row of
\* approval_tokens_used; before the launch that row has paid for nothing.
Owns(u, p) == u.tid = req[p].tid /\ u.diff = req[p].diff /\ u.task = req[p].task
LocalAuth(p) ==
    /\ pc[p] \in Checked => /\ Bound(tokens[req[p].tid], req[p])
                            /\ InTime(tokens[req[p].tid], req[p].at)
    /\ pc[p] \in Paying => \E u \in used : Owns(u, p)
    /\ pc[p] = "git" => launches[req[p].tid] = 0

\* No two callers are about to launch, or running, a child for one token.
Exclusive ==
    \A p, q \in Procs :
        pc[p] \in Launching /\ pc[q] \in Launching /\ req[p].tid = req[q].tid => p = q

\* What was launched was paid for, once.
Paid == \A t \in Tokens : launches[t] \in {0, 1} /\ (launches[t] = 1 => Replayed(t))

PayInv == (\A p \in Procs : LocalAuth(p)) /\ Exclusive /\ Paid /\ UsesAuthorised

\* The rows of approval_tokens_used stay authorised while tokens stay as minted.
LEMMA UsesKept ==
    ASSUME TypeInv, UsesAuthorised, NEW p \in Procs, ApproveStep(p) \/ ApplyStep(p),
           UNCHANGED used
    PROVE  UsesAuthorised'
<1>1. ASSUME NEW u \in used PROVE tokens'[u.tid] = tokens[u.tid]
  BY <1>1, TokensKept DEF TypeInv, TypeOK, UsesAuthorised, UsedRow
<1> QED
  BY <1>1 DEF UsesAuthorised

\* A caller that does not move stays authorised.
LEMMA OthersAuth ==
    ASSUME TypeInv, NEW p \in Procs, ApproveStep(p) \/ ApplyStep(p),
           NEW q \in Procs, q # p, LocalAuth(q), used \subseteq used',
           pc[q] = "git" => launches'[req[q].tid] = launches[req[q].tid]
    PROVE  LocalAuth(q)'
<1>1. pc'[q] = pc[q] /\ req'[q] = req[q]
  BY OneCaller DEF TypeInv
<1>2. pc[q] \in Checked => tokens'[req[q].tid] = tokens[req[q].tid]
  BY TokensKept, NoTokenAssumption DEF TypeInv, LocalTypes, Minted, Checked
<1>3. pc[q] \in Checked => (Bound(tokens[req[q].tid], req[q]) /\ InTime(tokens[req[q].tid], req[q].at))'
  BY <1>1, <1>2 DEF LocalAuth, Bound, InTime
<1>4. pc[q] \in Paying => (\E u \in used : Owns(u, q))'
  BY <1>1 DEF LocalAuth, Owns
<1>5. pc[q] = "git" => launches'[req'[q].tid] = 0
  BY <1>1 DEF LocalAuth
<1> QED
  BY <1>1, <1>3, <1>4, <1>5 DEF LocalAuth

\* A step that consumes no token and launches no child.
LEMMA QuietStep ==
    ASSUME TypeInv, PayInv, NEW p \in Procs, ApproveStep(p) \/ ApplyStep(p),
           UNCHANGED <<used, launches>>, LocalAuth(p)',
           pc'[p] \in Launching => pc[p] \in Launching /\ req'[p].tid = req[p].tid
    PROVE  PayInv'
<1>1. \A q \in Procs : LocalAuth(q)'
  BY OthersAuth DEF PayInv
<1>2. Exclusive'
  BY OneCaller DEF PayInv, Exclusive, TypeInv
<1>3. Paid'
  BY DEF PayInv, Paid, Replayed
<1>4. UsesAuthorised'
  BY UsesKept DEF PayInv
<1> QED
  BY <1>1, <1>2, <1>3, <1>4 DEF PayInv

\* A request that ends leaves nothing to authorise.
LEMMA ReturnAuth ==
    ASSUME TypeInv, NEW p \in Procs, Return(p)
    PROVE  LocalAuth(p)' /\ pc'[p] \notin Launching
  BY ReturnType DEF TypeInv, LocalAuth, Checked, Applying, Paying, Launching

\* Steps before the checks are quiet.
LEMMA UncheckedStep ==
    ASSUME TypeInv, PayInv, NEW p \in Procs,
           \/ ApproveStep(p)
           \/ \E d \in Diffs : BeginCliApply(p, d)
           \/ \E d \in Diffs, a \in Agents, k \in Tasks, t \in Tokens :
                 BeginServerApply(p, d, a, k, t)
    PROVE  PayInv'
<1>1. UNCHANGED <<used, launches>>
  BY DEF ApproveStep, BeginApprove, FindKey, TruncateKey, FlushKey, LoadKey, Mint,
         Register, TruncateToken, FlushToken, BeginCliApply, BeginServerApply,
         dbVars, gitVars
<1>2. pc'[p] \notin Checked
  BY ReturnType
  DEF ApproveStep, BeginApprove, FindKey, TruncateKey, FlushKey, LoadKey, Mint,
      Register, TruncateToken, FlushToken, BeginCliApply, BeginServerApply,
      Goto, TypeInv, TypeOK, Checked, Applying
<1>3. LocalAuth(p)' /\ pc'[p] \notin Launching
  BY <1>2 DEF LocalAuth, Checked, Applying, Paying, Launching
<1> QED
  BY <1>1, <1>3, QuietStep DEF ApplyStep

\* Steps of a checked caller that neither consume nor launch.
LEMMA CheckedStep ==
    ASSUME TypeInv, PayInv, NEW p \in Procs,
           \/ CheckBindings(p) \/ CheckSignature(p) \/ GitApplied(p) \/ GitRefused(p)
           \/ RecordFailure(p) \/ RemoveToken(p) \/ Remember(p)
    PROVE  PayInv'
<1>1. UNCHANGED <<used, launches, tokens>>
  BY DEF CheckBindings, CheckSignature, GitApplied, GitRefused, RecordFailure,
         RemoveToken, Remember, dbVars, gitVars
<1>2. CASE Return(p)
  BY <1>1, <1>2, ReturnAuth, QuietStep DEF ApplyStep
<1>3. CASE CheckBindings(p) /\ ~Return(p)
  <2>1. /\ InTime(tokens[req[p].tid], now) /\ Bound(tokens[req[p].tid], req[p])
        /\ Goto(p, "lookup") /\ req' = [req EXCEPT ![p].at = now]
    BY <1>3 DEF CheckBindings
  <2>2. pc'[p] = "lookup"
    BY <2>1 DEF Goto, TypeInv, TypeOK
  <2>3. /\ req'[p].at = now /\ req'[p].tid = req[p].tid
        /\ req'[p].diff = req[p].diff /\ req'[p].agent = req[p].agent
    BY <2>1 DEF TypeInv, TypeOK, Request
  <2>4. LocalAuth(p)' /\ pc'[p] \notin Launching
    BY <1>1, <2>1, <2>2, <2>3
    DEF LocalAuth, Bound, InTime, Paying, Launching, Checked, Applying
  <2> QED BY <1>1, <1>3, <2>4, QuietStep DEF ApplyStep
<1>4. CASE ~CheckBindings(p) /\ ~Return(p)
  <2>1. /\ pc[p] \in Checked /\ pc'[p] \in Checked \ Launching
        /\ pc'[p] \in Paying => pc[p] \in Paying
    BY <1>4
    DEF CheckSignature, GitApplied, GitRefused, RecordFailure, RemoveToken, Remember,
        At, Goto, TypeInv, TypeOK, Checked, Applying, Paying, Launching
  <2>2. /\ req'[p].tid = req[p].tid /\ req'[p].diff = req[p].diff
        /\ req'[p].agent = req[p].agent /\ req'[p].at = req[p].at
        /\ req'[p].task = req[p].task
    BY <1>4
    DEF CheckSignature, GitApplied, GitRefused, RecordFailure, RemoveToken, Remember,
        TypeInv, TypeOK, Request
  <2>3. LocalAuth(p)'
    BY <1>1, <2>1, <2>2 DEF PayInv, LocalAuth, Bound, InTime, Owns, Launching
  <2> QED BY <1>1, <1>4, <2>1, <2>3, QuietStep DEF ApplyStep
<1> QED
  BY <1>2, <1>3, <1>4

\* The INSERT: it succeeds only for a token no row names, so the caller that
\* made it is alone with that token.
LEMMA ConsumeStep == ASSUME TypeInv, PayInv, NEW p \in Procs, Consume(p) PROVE PayInv'
<1>1. CASE Replayed(req[p].tid)
  BY <1>1, ReturnAuth, QuietStep DEF Consume, ApplyStep, gitVars
<1>2. CASE ~Replayed(req[p].tid)
  <2> DEFINE row == [tid |-> req[p].tid, diff |-> tokens[req[p].tid].diff,
                     task |-> req[p].task, at |-> req[p].at]
  <2>1. /\ used' = used \cup {row} /\ Goto(p, "git")
        /\ UNCHANGED <<req, launches, tokens>>
    BY <1>2 DEF Consume, gitVars
  <2>2. pc'[p] = "git" /\ pc[p] = "consume"
    BY <2>1 DEF Consume, At, Goto, TypeInv, TypeOK
  <2>3. /\ req[p].tid \in Tokens /\ tokens[req[p].tid] \in Token
        /\ tokens[req[p].tid].diff = req[p].diff
        /\ InTime(tokens[req[p].tid], req[p].at)
        /\ Bound(tokens[req[p].tid], req[p])
    BY <2>2 DEF TypeInv, PayInv, LocalTypes, LocalAuth, Minted, Applying, Checked, Bound
  <2>4. LocalAuth(p)'
    <3>1. launches[req[p].tid] = 0
      BY <1>2, <2>3 DEF PayInv, Paid
    <3>2. row.tid = req[p].tid /\ row.diff = req[p].diff /\ row.task = req[p].task
      BY <2>3
    <3>3. (\E u \in used : Owns(u, p))'
      BY <2>1, <3>2 DEF Owns
    <3> QED BY <2>1, <2>2, <2>3, <3>1, <3>3 DEF LocalAuth, Bound, InTime, Paying
  <2>5. \A q \in Procs : LocalAuth(q)'
    BY <2>1, <2>4, OthersAuth DEF PayInv, ApplyStep
  <2>6. ASSUME NEW q \in Procs, q # p, pc'[q] \in Launching PROVE req'[q].tid # req'[p].tid
    <3>1. pc[q] \in Launching
      BY <2>6, OneCaller DEF TypeInv, ApplyStep
    <3>2. Replayed(req[q].tid)
      BY <3>1 DEF PayInv, LocalAuth, Owns, Replayed, Paying, Launching
    <3> QED BY <1>2, <2>1, <3>2
  <2>7. Exclusive'
    <3>1. ASSUME NEW q \in Procs, q # p PROVE pc'[q] = pc[q]
      BY <3>1, OneCaller DEF TypeInv, ApplyStep
    <3> QED BY <2>1, <2>6, <3>1 DEF PayInv, Exclusive
  <2>8. Paid'
    BY <2>1 DEF PayInv, Paid, Replayed
  <2>9. UsesAuthorised'
    <3>1. ASSUME NEW u \in used'
          PROVE  /\ tokens[u.tid] # None /\ tokens[u.tid].diff = u.diff
                 /\ tokens[u.tid].created - Grace <= u.at
                 /\ u.at <= tokens[u.tid].created + TTL + Grace
      <4>1. CASE u \in used
        BY <4>1 DEF PayInv, UsesAuthorised
      <4>2. CASE u = row
        <5>1. /\ u.tid = req[p].tid /\ u.diff = tokens[u.tid].diff /\ u.at = req[p].at
          BY <4>2
        <5>2. tokens[u.tid].created \in Int /\ u.at \in Int /\ Grace \in Int /\ TTL \in Int
          BY <2>3, <5>1, PipelineAssumption DEF Token, TypeInv, TypeOK, Request
        <5>3. tokens[u.tid] # None
          BY <2>3, <5>1, NoTokenAssumption
        <5> QED BY <2>3, <5>1, <5>2, <5>3 DEF InTime
      <4> QED BY <2>1, <3>1, <4>1, <4>2
    <3> QED BY <2>1, <3>1 DEF UsesAuthorised
  <2> QED BY <2>5, <2>7, <2>8, <2>9 DEF PayInv
<1> QED
  BY <1>1, <1>2

\* The launch: the caller is alone with its token, and nothing was launched.
LEMMA SpawnStep == ASSUME TypeInv, PayInv, NEW p \in Procs, SpawnGit(p) PROVE PayInv'
<1>0. UNCHANGED <<used, tokens>> /\ pc[p] = "git"
  BY DEF SpawnGit, dbVars, At
<1>1. CASE Return(p) /\ UNCHANGED launches
  BY <1>0, <1>1, ReturnAuth, QuietStep DEF ApplyStep
<1>2. CASE launches' = [launches EXCEPT ![req[p].tid] = @ + 1] /\ Goto(p, "gitrun") /\ UNCHANGED req
  <2>1. pc'[p] = "gitrun"
    BY <1>2 DEF Goto, TypeInv, TypeOK
  <2>2. req[p].tid \in Tokens /\ launches[req[p].tid] = 0 /\ (\E u \in used : Owns(u, p))
    BY <1>0 DEF TypeInv, PayInv, LocalTypes, LocalAuth, Minted, Applying, Paying
  <2>3. LocalAuth(p)'
    BY <1>0, <1>2, <2>1, <2>2
    DEF PayInv, LocalAuth, Bound, InTime, Owns, Checked, Applying, Paying
  <2>4. ASSUME NEW q \in Procs, q # p PROVE LocalAuth(q)'
    <3>1. pc[q] = "git" => req[q].tid # req[p].tid
      BY <1>0, <2>4 DEF PayInv, Exclusive, Launching
    <3>2. pc[q] = "git" => launches'[req[q].tid] = launches[req[q].tid]
      BY <1>2, <2>2, <3>1 DEF TypeInv, TypeOK, LocalTypes, Minted, Applying
    <3> QED BY <1>0, <2>4, <3>2, OthersAuth DEF PayInv, ApplyStep
  <2>5. Exclusive'
    <3>1. ASSUME NEW q \in Procs, q # p PROVE pc'[q] = pc[q]
      BY <3>1, OneCaller DEF TypeInv, ApplyStep
    <3> QED BY <1>0, <1>2, <3>1 DEF PayInv, Exclusive, Launching
  <2>6. Paid'
    BY <1>0, <1>2, <2>2 DEF PayInv, Paid, Replayed, Owns, TypeInv, TypeOK
  <2>7. UsesAuthorised'
    BY <1>0, UsesKept DEF PayInv, ApplyStep
  <2> QED BY <2>3, <2>4, <2>5, <2>6, <2>7 DEF PayInv
<1> QED
  BY <1>1, <1>2 DEF SpawnGit

\* PayInv is inductive relative to TypeInv.
LEMMA PayStep == TypeInv /\ PayInv /\ [Next]_vars => PayInv'
<1> SUFFICES ASSUME TypeInv, PayInv, [Next]_vars PROVE PayInv'
  OBVIOUS
<1>1. ASSUME NEW p \in Procs, ApproveStep(p) \/ ApplyStep(p) PROVE PayInv'
  BY <1>1, UncheckedStep, CheckedStep, ConsumeStep, SpawnStep DEF ApplyStep
<1>2. ASSUME NEW p \in Procs, Fail(p) \/ Crash(p) PROVE PayInv'
  <2>1. UNCHANGED <<used, launches, tokens>>
    BY <1>2 DEF Fail, Crash, dbVars, gitVars
  <2>2. ASSUME NEW q \in Procs
        PROVE  pc'[q] = "idle" \/ (pc'[q] = pc[q] /\ req'[q] = req[q])
    BY <1>2 DEF Fail, Return, Goto, Crash, TypeInv, TypeOK
  <2>3. ASSUME NEW q \in Procs PROVE LocalAuth(q)'
    BY <2>1, <2>2
    DEF PayInv, LocalAuth, Bound, InTime, Owns, Checked, Applying, Paying
  <2>4. Exclusive'
    BY <2>2 DEF PayInv, Exclusive, Launching
  <2> QED BY <2>1, <2>3, <2>4 DEF PayInv, Paid, Replayed, UsesAuthorised
<1>3. CASE SetClock \/ (\E d \in Diffs : StoreProposal(d)) \/ UNCHANGED vars
  <2>1. UNCHANGED <<used, launches, tokens, pc, req>>
    BY <1>3 DEF SetClock, StoreProposal, vars, dbVars, gitVars
  <2> QED
    BY <2>1 DEF PayInv, LocalAuth, Bound, InTime, Owns, Exclusive, Paid, Replayed, UsesAuthorised
<1> QED
  BY <1>1, <1>2, <1>3 DEF Next

\* Nothing is paid for initially.
LEMMA PayInit == Init => PayInv
  BY DEF Init, PayInv, LocalAuth, Exclusive, Paid, UsesAuthorised, Checked, Applying,
         Paying, Launching

\* In every reachable state of every instance a token has paid for at most one
\* `git apply`: the INSERT into approval_tokens_used admits one caller.
THEOREM TokensAreSingleUse == Spec => []SingleUse
<1>1. PayInv => SingleUse
  BY DEF PayInv, Paid, SingleUse
<1> QED
  BY TypeInit, TypeStep, PayInit, PayStep, <1>1, PTL DEF Spec

\* Every consumed token was minted for the diff it was consumed for and was
\* checked inside its validity window.
THEOREM OnlyAuthorisedUses == Spec => []UsesAuthorised
<1>1. PayInv => UsesAuthorised
  BY DEF PayInv
<1> QED
  BY TypeInit, TypeStep, PayInit, PayStep, <1>1, PTL DEF Spec

\* Of the steps of a caller only the INSERT touches approval_tokens_used, and
\* only record_apply_failed writes diff_apply_failed rows.
LEMMA TableWriters ==
    ASSUME NEW p \in Procs, ApproveStep(p) \/ ApplyStep(p)
    PROVE  /\ ~Consume(p) => UNCHANGED used
           /\ ~RecordFailure(p) => UNCHANGED failures
  BY DEF ApproveStep, ApplyStep, BeginApprove, FindKey, TruncateKey, FlushKey, LoadKey,
         Mint, Register, TruncateToken, FlushToken, BeginCliApply, BeginServerApply,
         CheckBindings, CheckSignature, Consume, SpawnGit, GitApplied, GitRefused,
         RecordFailure, RemoveToken, Remember, dbVars

\* The audit trail is sound on every instance: a diff_apply_failed row always
\* names a token that was consumed, for the same diff and task.
THEOREM FailuresAreTraceable == Spec => []FailuresTraceToUse
<1>1. Init => FailuresTraceToUse
  BY DEF Init, FailuresTraceToUse
<1>2. TypeInv /\ PayInv /\ FailuresTraceToUse /\ [Next]_vars => FailuresTraceToUse'
  <2> SUFFICES ASSUME TypeInv, PayInv, FailuresTraceToUse, [Next]_vars
               PROVE  FailuresTraceToUse'
    OBVIOUS
  <2>1. ASSUME NEW p \in Procs, RecordFailure(p) PROVE FailuresTraceToUse'
    <3>1. PICK u \in used : Owns(u, p)
      BY <2>1 DEF RecordFailure, At, PayInv, LocalAuth, Paying
    <3>2. ASSUME NEW f \in failures' \ failures
          PROVE  f.tid = u.tid /\ f.diff = u.diff /\ f.task = u.task
      BY <2>1, <3>1, <3>2 DEF RecordFailure, Owns
    <3> QED BY <2>1, <3>2 DEF RecordFailure, FailuresTraceToUse
  <2>2. CASE UNCHANGED failures /\ used \subseteq used'
    BY <2>2 DEF FailuresTraceToUse
  <2>3. ASSUME NEW p \in Procs, ApproveStep(p) \/ ApplyStep(p), ~RecordFailure(p)
        PROVE  UNCHANGED failures /\ used \subseteq used'
    BY <2>3, TableWriters DEF Consume
  <2>4. CASE \/ SetClock \/ (\E d \in Diffs : StoreProposal(d)) \/ UNCHANGED vars
             \/ \E p \in Procs : Fail(p) \/ Crash(p)
    <3>1. UNCHANGED <<failures, used>>
      BY <2>4 DEF SetClock, StoreProposal, Fail, Crash, vars, dbVars
    <3> QED BY <2>2, <3>1
  <2> QED BY <2>1, <2>2, <2>3, <2>4 DEF Next
<1> QED
  BY TypeInit, TypeStep, PayInit, PayStep, <1>1, <1>2, PTL DEF Spec

-----------------------------------------------------------------------------
(* Refinement of ApprovalGrants.                                           *)

\* A step that at most ends launches is Fail, or nothing, in the promise.
LEMMA QuietGrants ==
    ASSUME UNCHANGED <<tokens, used, launches, tree>>, Flight' \subseteq Flight
    PROVE  Grants!Next
<1>1. Flight \ Flight' \in SUBSET Tokens /\ Flight' = Flight \ (Flight \ Flight')
  BY DEF Flight
<1>2. Granted' = Granted /\ Spent' = Spent
  BY DEF Granted, Spent
<1>3. Grants!Fail(Flight \ Flight')
  BY <1>1, <1>2 DEF Grants!Fail
<1> QED
  BY <1>1, <1>3 DEF Grants!Next

\* Launches in flight change only at the caller that moves.
LEMMA FlightStep ==
    ASSUME TypeInv, NEW p \in Procs, ApproveStep(p) \/ ApplyStep(p), ~At(p, "gitrun")'
    PROVE  Flight' \subseteq Flight
  BY OneCaller DEF Flight, At, TypeInv

\* The step of a caller, seen through the mapping.
LEMMA CallerGrants ==
    ASSUME TypeInv, PayInv, NEW p \in Procs, ApproveStep(p) \/ ApplyStep(p)
    PROVE  Grants!Next
<1>1. CASE Mint(p)
  <2>1. UNCHANGED <<used, launches, tree>> /\ Flight' = Flight
    BY <1>1, OneCaller, ReturnType DEF Mint, dbVars, gitVars, Flight, At, Goto, ApproveStep, TypeInv, TypeOK
  <2>2. CASE UNCHANGED tokens
    BY <2>1, <2>2, QuietGrants
  <2>3. CASE ~UNCHANGED tokens
    <3>1. PICK t \in Tokens :
             /\ tokens[t] = None
             /\ tokens' = [tokens EXCEPT ![t] =
                   [diff |-> req[p].diff, agent |-> req[p].agent,
                    key |-> req[p].key, created |-> IssueTime]]
      BY <1>1, <2>3 DEF Mint
    <3>2. tokens'[t] = [diff |-> req[p].diff, agent |-> req[p].agent,
                        key |-> req[p].key, created |-> IssueTime]
      BY <3>1 DEF TypeInv, TypeOK
    <3>3. tokens'[t] \in Token /\ req[p].diff \in Diffs
      BY <1>1, <3>2 DEF Mint, At, TypeInv, TypeOK, LocalTypes, Token, IssueTime
    <3>4. Granted[t] = None /\ Granted' = [Granted EXCEPT ![t] = req[p].diff]
      BY <3>1, <3>2, <3>3, NoTokenAssumption DEF Granted, TypeInv, TypeOK
    <3>5. Spent' = Spent
      BY <2>1 DEF Spent
    <3>6. Grants!Grant(t, req[p].diff)
      BY <2>1, <3>4, <3>5 DEF Grants!Grant
    <3> QED BY <3>3, <3>6 DEF Grants!Next, Grants!Grant
  <2> QED BY <2>2, <2>3
<1>2. CASE Consume(p)
  <2>1. UNCHANGED <<tokens, launches, tree>> /\ pc[p] = "consume"
    BY <1>2 DEF Consume, gitVars, At
  <2>2. Flight' = Flight
    BY <1>2, <2>1, OneCaller, ReturnType DEF Consume, Flight, At, Goto, ApplyStep, TypeInv, TypeOK
  <2>3. CASE UNCHANGED used
    BY <2>1, <2>2, <2>3, QuietGrants
  <2>4. CASE ~UNCHANGED used
    <3>1. /\ ~Replayed(req[p].tid)
          /\ used' = used \cup {[tid |-> req[p].tid, diff |-> tokens[req[p].tid].diff,
                                 task |-> req[p].task, at |-> req[p].at]}
      BY <1>2, <2>4 DEF Consume
    <3>2. req[p].tid \in Tokens /\ tokens[req[p].tid] \in Token
      BY <2>1 DEF TypeInv, LocalTypes, Minted, Applying
    <3>3. Granted[req[p].tid] # None
      BY <3>2, PipelineAssumption, NoTokenAssumption DEF Granted, Token
    <3>4. req[p].tid \notin Spent /\ Spent' = Spent \cup {req[p].tid}
      <4> DEFINE row == [tid |-> req[p].tid, diff |-> tokens[req[p].tid].diff,
                         task |-> req[p].task, at |-> req[p].at]
      <4>1. row.tid = req[p].tid
        OBVIOUS
      <4> HIDE DEF row
      <4>2. used' = used \cup {row}
        BY <3>1 DEF row
      <4> QED BY <3>1, <4>1, <4>2 DEF Spent, Replayed
    <3>5. Granted' = Granted
      BY <2>1 DEF Granted
    <3>6. Grants!Spend(req[p].tid)
      BY <2>1, <2>2, <3>3, <3>4, <3>5 DEF Grants!Spend
    <3> QED BY <3>2, <3>6 DEF Grants!Next, Grants!Spend
  <2> QED BY <2>3, <2>4
<1>3. CASE SpawnGit(p)
  <2>1. UNCHANGED <<tokens, used, tree>> /\ pc[p] = "git"
    BY <1>3 DEF SpawnGit, dbVars, At
  <2>2. CASE Return(p) /\ UNCHANGED launches
    BY <1>3, <2>1, <2>2, ReturnType, FlightStep, QuietGrants DEF ApplyStep, At, TypeInv
  <2>3. CASE launches' = [launches EXCEPT ![req[p].tid] = @ + 1] /\ Goto(p, "gitrun") /\ UNCHANGED req
    <3>1. req[p].tid \in Tokens /\ launches[req[p].tid] = 0 /\ (\E u \in used : Owns(u, p))
      BY <2>1 DEF TypeInv, PayInv, LocalTypes, LocalAuth, Minted, Applying, Paying
    <3>2. req[p].tid \in Spent
      BY <3>1 DEF Spent, Owns
    <3>3. launches' = [launches EXCEPT ![req[p].tid] = 1]
      BY <2>3, <3>1 DEF TypeInv, TypeOK
    <3>4. Flight' = Flight \cup {req[p].tid}
      BY <1>3, <2>1, <2>3, <3>1, OneCaller DEF Flight, At, Goto, ApplyStep, TypeInv, TypeOK
    <3>5. Granted' = Granted /\ Spent' = Spent
      BY <2>1 DEF Granted, Spent
    <3>6. Grants!Launch(req[p].tid)
      BY <2>1, <3>5, <3>1, <3>2, <3>3, <3>4 DEF Grants!Launch
    <3> QED BY <3>1, <3>6 DEF Grants!Next, Grants!Launch
  <2> QED BY <1>3, <2>2, <2>3 DEF SpawnGit
<1>4. CASE GitApplied(p)
  <2>1. UNCHANGED <<tokens, used, launches>> /\ pc[p] = "gitrun"
    BY <1>4 DEF GitApplied, dbVars, At
  <2>2. /\ req[p].tid \in Tokens /\ tokens[req[p].tid] \in Token
        /\ tokens[req[p].tid].diff = req[p].diff
    BY <2>1 DEF TypeInv, PayInv, LocalTypes, LocalAuth, Minted, Applying, Checked, Bound
  <2>3. req[p].tid \in Flight /\ Granted[req[p].tid] = req[p].diff
    BY <2>1, <2>2, NoTokenAssumption DEF Flight, Granted, At
  <2>4. pc'[p] # "gitrun"
    BY <1>4, ReturnType DEF GitApplied, Goto, TypeInv, TypeOK
  <2>5. ASSUME NEW q \in Procs, q # p, pc[q] = "gitrun" PROVE req[q].tid # req[p].tid
    BY <2>1, <2>5 DEF PayInv, Exclusive, Launching
  <2>6. Flight' = Flight \ {req[p].tid}
    BY <1>4, <2>4, <2>5, OneCaller DEF Flight, At, ApplyStep, TypeInv
  <2>7. Granted' = Granted /\ Spent' = Spent
    BY <2>1 DEF Granted, Spent
  <2>8. Grants!Land(req[p].tid)
    BY <1>4, <2>1, <2>3, <2>6, <2>7 DEF Grants!Land, GitApplied
  <2> QED BY <2>2, <2>8 DEF Grants!Next, Grants!Land
<1>5. CASE ~(Mint(p) \/ Consume(p) \/ SpawnGit(p) \/ GitApplied(p))
  <2>1. UNCHANGED <<tokens, used, launches, tree>>
    BY <1>5
    DEF ApproveStep, ApplyStep, BeginApprove, FindKey, TruncateKey, FlushKey, LoadKey,
        Register, TruncateToken, FlushToken, BeginCliApply, BeginServerApply,
        CheckBindings, CheckSignature, GitRefused, RecordFailure, RemoveToken,
        Remember, dbVars, gitVars
  <2>2. pc'[p] # "gitrun"
    BY <1>5, ReturnType
    DEF ApproveStep, ApplyStep, BeginApprove, FindKey, TruncateKey, FlushKey, LoadKey,
        Register, TruncateToken, FlushToken, BeginCliApply, BeginServerApply,
        CheckBindings, CheckSignature, GitRefused, RecordFailure, RemoveToken,
        Remember, Goto, TypeInv, TypeOK
  <2> QED BY <2>1, <2>2, FlightStep, QuietGrants DEF At
<1> QED
  BY <1>1, <1>2, <1>3, <1>4, <1>5

\* Every step of the pipeline is a step of the promise, or a stutter.
LEMMA GrantsStep == TypeInv /\ PayInv /\ [Next]_vars => Grants!Next
<1> SUFFICES ASSUME TypeInv, PayInv, [Next]_vars PROVE Grants!Next
  OBVIOUS
<1>1. ASSUME NEW p \in Procs, ApproveStep(p) \/ ApplyStep(p) PROVE Grants!Next
  BY <1>1, CallerGrants
<1>2. ASSUME NEW p \in Procs, Fail(p) \/ Crash(p) PROVE Grants!Next
  <2>1. UNCHANGED <<tokens, used, launches, tree>>
    BY <1>2 DEF Fail, Crash, dbVars, gitVars
  <2>2. Flight' \subseteq Flight
    BY <1>2 DEF Fail, Return, Goto, Crash, Flight, At, TypeInv, TypeOK
  <2> QED BY <2>1, <2>2, QuietGrants
<1>3. CASE SetClock \/ (\E d \in Diffs : StoreProposal(d)) \/ UNCHANGED vars
  <2>1. UNCHANGED <<tokens, used, launches, tree, pc, req>>
    BY <1>3 DEF SetClock, StoreProposal, vars, dbVars, gitVars
  <2>2. Flight' \subseteq Flight
    BY <2>1 DEF Flight, At
  <2> QED BY <2>1, <2>2, QuietGrants
<1> QED
  BY <1>1, <1>2, <1>3 DEF Next

\* The pipeline implements ApprovalGrants on every instance: every launch is
\* paid for by one approval of the diff that lands, and no approval pays twice.
THEOREM PipelineKeepsGrants == Spec => GrantsKept
<1>1. Init => Grants!Init
  BY DEF Init, Grants!Init, Granted, Spent, Flight, At
<1>2. TypeInv /\ PayInv /\ [Next]_vars => [Grants!Next]_(Grants!vars)
  BY GrantsStep
<1> QED
  BY TypeInit, TypeStep, PayInit, PayStep, <1>1, <1>2, PTL DEF Spec, GrantsKept, Grants!Spec

-----------------------------------------------------------------------------
(* Counting, in the terms of the promise.                                  *)

\* Approvals of a diff whose one launch has come to its end.
Landed(d) == {t \in Tokens : Granted[t] = d /\ launches[t] = 1 /\ t \notin Flight}

\* The patch of a diff is in the tree at most once for each such approval.
CountInv ==
    /\ IsFiniteSet({t \in Tokens : Granted[t] # None})
    /\ \A t \in Flight : launches[t] = 1
    /\ \A d \in Diffs : tree[d] <= Cardinality(Landed(d))

\* The landed approvals of a diff are finitely many.
LEMMA LandedFinite ==
    ASSUME IsFiniteSet({t \in Tokens : Granted[t] # None}), NEW d \in Diffs
    PROVE  IsFiniteSet(Landed(d)) /\ Cardinality(Landed(d)) \in Nat
<1>1. Landed(d) \subseteq {t \in Tokens : Granted[t] # None}
  BY PipelineAssumption DEF Landed
<1>2. IsFiniteSet(Landed(d))
  BY <1>1, FS_Subset
<1> QED
  BY <1>2, FS_CardinalityType

\* A step of the promise that loses no landed approval and leaves the tree alone.
LEMMA CountGrows ==
    ASSUME TypeInv, CountInv, UNCHANGED tree,
           IsFiniteSet({t \in Tokens : Granted[t] # None})',
           NEW d \in Diffs, Landed(d) \subseteq Landed(d)'
    PROVE  tree'[d] <= Cardinality(Landed(d)')
<1>1. IsFiniteSet(Landed(d)')
  <2>1. Landed(d)' \subseteq {t \in Tokens : Granted[t] # None}'
    BY PipelineAssumption DEF Landed
  <2> QED BY <2>1, FS_Subset
<1>2. Cardinality(Landed(d)) <= Cardinality(Landed(d)') /\ Cardinality(Landed(d)') \in Nat
  BY <1>1, FS_Subset, FS_CardinalityType
<1>3. Cardinality(Landed(d)) \in Nat /\ tree[d] \in Nat
  BY LandedFinite DEF CountInv, TypeInv, TypeOK
<1> QED
  BY <1>2, <1>3 DEF CountInv

\* CountInv is inductive: one case for each action of the promise.
LEMMA CountStep == TypeInv /\ PayInv /\ CountInv /\ [Next]_vars => CountInv'
<1> SUFFICES ASSUME TypeInv, PayInv, CountInv, [Next]_vars PROVE CountInv'
  OBVIOUS
<1> DEFINE given == {t \in Tokens : Granted[t] # None}
<1>0. /\ Granted \in [Tokens -> Diffs \cup {None}] /\ Flight \subseteq Tokens
      /\ tree \in [Diffs -> Nat] /\ launches \in [Tokens -> Nat]
      /\ None \notin Diffs
  BY PipelineAssumption DEF TypeInv, TypeOK, Granted, Flight, Token
<1>1. ASSUME NEW t \in Tokens, NEW d \in Diffs, Grants!Grant(t, d) PROVE CountInv'
  <2>1. /\ Granted[t] = None /\ Granted' = [Granted EXCEPT ![t] = d]
        /\ Flight' = Flight /\ UNCHANGED <<tree, launches>>
    BY <1>1 DEF Grants!Grant
  <2>2. given' = given \cup {t}
    BY <1>0, <2>1
  <2>3. IsFiniteSet(given)'
    BY <2>2, FS_AddElement DEF CountInv
  <2>4. ASSUME NEW e \in Diffs PROVE Landed(e) \subseteq Landed(e)'
    BY <1>0, <2>1 DEF Landed
  <2> QED BY <2>1, <2>3, <2>4, CountGrows DEF CountInv
<1>2. ASSUME NEW t \in Tokens, Grants!Launch(t) PROVE CountInv'
  <2>1. /\ launches[t] = 0 /\ launches' = [launches EXCEPT ![t] = 1]
        /\ Flight' = Flight \cup {t} /\ UNCHANGED <<tree, Granted>>
    BY <1>2 DEF Grants!Launch
  <2>2. ASSUME NEW e \in Diffs PROVE Landed(e) \subseteq Landed(e)'
    BY <1>0, <2>1 DEF Landed
  <2>3. IsFiniteSet(given)'
    BY <2>1 DEF CountInv
  <2>4. \A u \in Flight' : launches'[u] = 1
    BY <1>0, <2>1 DEF CountInv
  <2> QED BY <2>1, <2>2, <2>3, <2>4, CountGrows DEF CountInv
<1>3. ASSUME NEW t \in Tokens, Grants!Land(t) PROVE CountInv'
  <2>1. /\ t \in Flight /\ Flight' = Flight \ {t} /\ UNCHANGED <<Granted, launches>>
        /\ tree' = [tree EXCEPT ![Granted[t]] = @ + 1]
    BY <1>3 DEF Grants!Land
  <2>2. IsFiniteSet(given)' /\ \A u \in Flight' : launches'[u] = 1
    BY <2>1 DEF CountInv
  <2>3. ASSUME NEW e \in Diffs PROVE tree'[e] <= Cardinality(Landed(e)')
    <3>1. IsFiniteSet(Landed(e)) /\ Cardinality(Landed(e)) \in Nat
      BY LandedFinite DEF CountInv
    <3>2. CASE Granted[t] = e
      <4>1. Landed(e)' = Landed(e) \cup {t} /\ t \notin Landed(e)
        BY <1>0, <2>1, <3>2 DEF Landed, CountInv
      <4>2. Cardinality(Landed(e)') = Cardinality(Landed(e)) + 1
        BY <3>1, <4>1, FS_AddElement
      <4> QED BY <1>0, <2>1, <3>1, <3>2, <4>2 DEF CountInv
    <3>3. CASE Granted[t] # e
      <4>1. Landed(e)' = Landed(e)
        BY <1>0, <2>1, <3>3 DEF Landed
      <4> QED BY <1>0, <2>1, <3>3, <4>1 DEF CountInv
    <3> QED BY <3>2, <3>3
  <2> QED BY <2>2, <2>3 DEF CountInv
<1>4. ASSUME (\E t \in Tokens : Grants!Spend(t)) \/ (\E S \in SUBSET Tokens : Grants!Fail(S))
      PROVE  CountInv'
  <2>1. Flight' \subseteq Flight /\ UNCHANGED <<tree, Granted, launches>>
    BY <1>4 DEF Grants!Spend, Grants!Fail
  <2>2. ASSUME NEW e \in Diffs PROVE Landed(e) \subseteq Landed(e)'
    BY <2>1 DEF Landed
  <2>3. IsFiniteSet(given)'
    BY <2>1 DEF CountInv
  <2> QED BY <2>1, <2>2, <2>3, CountGrows DEF CountInv
<1> QED
  BY <1>1, <1>2, <1>3, <1>4, GrantsStep DEF Grants!Next

\* No patch is in the work tree more often than its diff was approved, on every
\* instance: each landing uses up an approval of that diff that no other had.
THEOREM ApprovalsBoundApplies == Spec => []AppliesWithinApprovals
<1>1. Init => CountInv
  <2> SUFFICES ASSUME Init PROVE CountInv
    OBVIOUS
  <2>1. {t \in Tokens : Granted[t] # None} = {} /\ Flight = {}
    BY DEF Init, Granted, Flight, At
  <2>2. ASSUME NEW d \in Diffs PROVE Landed(d) = {} /\ tree[d] = 0
    BY DEF Init, Landed
  <2> QED BY <2>1, <2>2, FS_EmptySet DEF CountInv
<1>2. TypeInv /\ CountInv => AppliesWithinApprovals
  <2> SUFFICES ASSUME TypeInv, CountInv, NEW d \in Diffs
               PROVE  tree[d] <= Cardinality(Approvals(d))
    BY DEF AppliesWithinApprovals
  <2>1. /\ Approvals(d) \subseteq {t \in Tokens : Granted[t] # None}
        /\ Landed(d) \subseteq Approvals(d)
    BY NoTokenAssumption, PipelineAssumption
    DEF Approvals, Landed, Granted, TypeInv, TypeOK, Token
  <2>2. IsFiniteSet(Approvals(d))
    BY <2>1, FS_Subset DEF CountInv
  <2>3. Cardinality(Landed(d)) <= Cardinality(Approvals(d)) /\ Cardinality(Approvals(d)) \in Nat
    BY <2>1, <2>2, FS_Subset, FS_CardinalityType
  <2>4. Cardinality(Landed(d)) \in Nat /\ tree[d] \in Nat
    BY LandedFinite DEF CountInv, TypeInv, TypeOK
  <2> QED BY <2>3, <2>4 DEF CountInv
<1> QED
  BY TypeInit, TypeStep, PayInit, PayStep, CountStep, <1>1, <1>2, PTL DEF Spec

-----------------------------------------------------------------------------
(* The connection mutex.                                                   *)

Locked == {"lookup", "consume", "git", "gitrun", "logfail"}

\* A handler from the signature check to the end of its git child holds the
\* mutex of its server.
LockInv == \A p \in Procs : Mode[p] \in Servers /\ pc[p] \in Locked => holder[Mode[p]] = p

\* What a step of a caller does to the mutexes: nothing, or it gives back its
\* own, or it takes that of its server, which nobody else has.
LEMMA LockMoves ==
    ASSUME TypeInv, NEW p \in Procs, ApproveStep(p) \/ ApplyStep(p)
    PROVE  \/ UNCHANGED holder /\ (pc'[p] \in Locked => pc[p] \in Locked)
           \/ DropLock(p) /\ pc'[p] \notin Locked
           \/ TakeLock(p) /\ holder[Mode[p]] \in {None, p}
<1> USE DEF TypeInv, TypeOK, Locked, At, Goto
<1>1. CASE ApproveStep(p)
  BY <1>1, ReturnType
  DEF ApproveStep, BeginApprove, FindKey, TruncateKey, FlushKey, LoadKey, Mint, Register,
      TruncateToken, FlushToken, LockFree, Return
<1>2. CASE ApplyStep(p)
  BY <1>2, ReturnType
  DEF ApplyStep, BeginCliApply, BeginServerApply, CheckBindings, CheckSignature, Consume,
      SpawnGit, GitApplied, GitRefused, RecordFailure, RemoveToken, Remember, LockFree, Return
<1> QED
  BY <1>1, <1>2

\* LockInv is inductive relative to TypeInv.
LEMMA LockStep == TypeInv /\ LockInv /\ [Next]_vars => LockInv'
<1> SUFFICES ASSUME TypeInv, LockInv, [Next]_vars, NEW q \in Procs,
                    Mode[q] \in Servers, pc'[q] \in Locked
             PROVE  holder'[Mode[q]] = q
  BY DEF LockInv
<1>0. Mode[q] \in Modes /\ Mode[q] # "cli"
  BY PipelineAssumption DEF Modes, Servers
<1>1. ASSUME NEW p \in Procs, ApproveStep(p) \/ ApplyStep(p) PROVE holder'[Mode[q]] = q
  <2>1. CASE q = p
    <3>1. CASE UNCHANGED holder /\ pc[p] \in Locked
      BY <2>1, <3>1 DEF LockInv
    <3>2. CASE TakeLock(p)
      BY <1>0, <2>1, <3>2 DEF TakeLock, TypeInv, TypeOK
    <3> QED BY <1>1, <2>1, <3>1, <3>2, LockMoves
  <2>2. CASE q # p
    <3>1. holder[Mode[q]] = q
      BY <1>1, <2>2, OneCaller DEF LockInv, TypeInv
    <3>2. CASE DropLock(p)
      BY <1>0, <2>2, <3>1, <3>2 DEF DropLock
    <3>3. CASE TakeLock(p) /\ holder[Mode[p]] \in {None, p}
      <4>1. Mode[q] # Mode[p]
        BY <2>2, <3>1, <3>3, PipelineAssumption
      <4> QED BY <3>1, <3>3, <4>1 DEF TakeLock, TypeInv, TypeOK
    <3> QED BY <1>1, <3>1, <3>2, <3>3, LockMoves
  <2> QED BY <2>1, <2>2
<1>2. ASSUME NEW p \in Procs, Fail(p) PROVE holder'[Mode[q]] = q
  <2>1. q # p /\ pc[q] \in Locked
    BY <1>2, ReturnType DEF Fail, Locked, TypeInv, TypeOK
  <2> QED BY <1>0, <1>2, <2>1 DEF Fail, Return, DropLock, LockInv
<1>3. ASSUME NEW p \in Procs, Crash(p) PROVE holder'[Mode[q]] = q
  <2>1. ~DiesWith(p, q) /\ pc[q] \in Locked
    BY <1>3 DEF Crash, Locked
  <2> QED BY <1>3, <2>1 DEF Crash, DiesWith, LockInv, TypeInv, TypeOK
<1>4. CASE SetClock \/ (\E d \in Diffs : StoreProposal(d)) \/ UNCHANGED vars
  BY <1>4 DEF SetClock, StoreProposal, vars, LockInv
<1> QED
  BY <1>1, <1>2, <1>3, <1>4 DEF Next

\* The mutex of a server keeps its git children apart, on every instance: two
\* handlers that both wait for one would both hold the connection.
THEOREM ServersApplyOneByOne == Spec => []GitSerialPerServer
<1>1. Init => LockInv
  BY DEF Init, LockInv, Locked
<1>2. LockInv => GitSerialPerServer
  BY DEF LockInv, GitSerialPerServer, At, Locked
<1> QED
  BY TypeInit, TypeStep, LockStep, <1>1, <1>2, PTL DEF Spec

-----------------------------------------------------------------------------
(* What the CLI remembers.                                                 *)

\* A caller past its git child applied the patch, and so did whoever wrote a
\* decision.
MemoryInv ==
    /\ \A p \in Procs : pc[p] \in {"cleanup", "remember"} => tree[req[p].diff] > 0
    /\ DecisionsFollowApply

\* Patches are only ever added to the work tree.
LEMMA TreeGrows ==
    ASSUME TypeInv, NEW p \in Procs, ApproveStep(p) \/ ApplyStep(p)
    PROVE  /\ \A d \in Diffs : tree[d] > 0 => tree'[d] > 0
           /\ GitApplied(p) => tree'[req[p].diff] > 0
<1>1. CASE GitApplied(p)
  <2>1. req[p].diff \in Diffs /\ \A d \in Diffs : tree[d] \in Nat
    BY <1>1 DEF GitApplied, At, TypeInv, TypeOK, LocalTypes
  <2> QED BY <1>1, <2>1 DEF GitApplied, TypeInv, TypeOK
<1>2. CASE ~GitApplied(p)
  <2>1. UNCHANGED tree
    BY <1>2
    DEF ApproveStep, ApplyStep, BeginApprove, FindKey, TruncateKey, FlushKey, LoadKey, Mint,
        Register, TruncateToken, FlushToken, BeginCliApply, BeginServerApply, CheckBindings,
        CheckSignature, Consume, SpawnGit, GitRefused, RecordFailure, RemoveToken, Remember,
        gitVars
  <2> QED BY <1>2, <2>1
<1> QED
  BY <1>1, <1>2

\* Only a child that exits 0, and the steps after it, lead to cleanup.
LEMMA ReachesCleanup ==
    ASSUME TypeInv, NEW p \in Procs, ApproveStep(p) \/ ApplyStep(p),
           pc'[p] \in {"cleanup", "remember"}
    PROVE  req'[p].diff = req[p].diff /\ (GitApplied(p) \/ pc[p] \in {"cleanup", "remember"})
  BY ReturnType
  DEF ApproveStep, ApplyStep, BeginApprove, FindKey, TruncateKey, FlushKey, LoadKey, Mint,
      Register, TruncateToken, FlushToken, BeginCliApply, BeginServerApply, CheckBindings,
      CheckSignature, Consume, SpawnGit, GitApplied, GitRefused, RecordFailure, RemoveToken,
      Remember, At, Goto, TypeInv, TypeOK

\* MemoryInv is inductive relative to TypeInv.
LEMMA MemoryStep == TypeInv /\ MemoryInv /\ [Next]_vars => MemoryInv'
<1> SUFFICES ASSUME TypeInv, MemoryInv, [Next]_vars PROVE MemoryInv'
  OBVIOUS
<1>1. ASSUME NEW p \in Procs, ApproveStep(p) \/ ApplyStep(p) PROVE MemoryInv'
  <2>1. ASSUME NEW q \in Procs, pc'[q] \in {"cleanup", "remember"}
        PROVE  tree'[req'[q].diff] > 0
    <3>1. CASE q = p
      <4>1. req[p].diff \in Diffs
        BY <1>1, <2>1, <3>1, ReachesCleanup DEF GitApplied, At, TypeInv, LocalTypes
      <4> QED BY <1>1, <2>1, <3>1, <4>1, ReachesCleanup, TreeGrows DEF MemoryInv
    <3>2. CASE q # p
      <4>1. pc'[q] = pc[q] /\ req'[q] = req[q]
        BY <1>1, <3>2, OneCaller DEF TypeInv
      <4>2. req[q].diff \in Diffs
        BY <2>1, <4>1 DEF TypeInv, LocalTypes
      <4> QED BY <1>1, <2>1, <4>1, <4>2, TreeGrows DEF MemoryInv
    <3> QED BY <3>1, <3>2
  <2>2. ASSUME NEW d \in decisions' PROVE tree'[d] > 0
    <3>1. CASE d \in decisions
      BY <1>1, <3>1, TreeGrows DEF MemoryInv, DecisionsFollowApply, TypeInv, TypeOK
    <3>2. CASE d \notin decisions
      <4>1. Remember(p) /\ d = req[p].diff
        BY <1>1, <2>2, <3>2
        DEF ApproveStep, ApplyStep, BeginApprove, FindKey, TruncateKey, FlushKey, LoadKey, Mint,
            Register, TruncateToken, FlushToken, BeginCliApply, BeginServerApply, CheckBindings,
            CheckSignature, Consume, SpawnGit, GitApplied, GitRefused, RecordFailure,
            RemoveToken, Remember, dbVars
      <4> QED BY <4>1 DEF Remember, At, MemoryInv, gitVars
    <3> QED BY <3>1, <3>2
  <2> QED BY <2>1, <2>2 DEF MemoryInv, DecisionsFollowApply
<1>2. ASSUME NEW p \in Procs, Fail(p) \/ Crash(p) PROVE MemoryInv'
  <2>1. UNCHANGED <<tree, decisions>>
    BY <1>2 DEF Fail, Crash, dbVars, gitVars
  <2>2. ASSUME NEW q \in Procs
        PROVE  pc'[q] = "idle" \/ (pc'[q] = pc[q] /\ req'[q] = req[q])
    BY <1>2 DEF Fail, Return, Goto, Crash, TypeInv, TypeOK
  <2> QED BY <2>1, <2>2 DEF MemoryInv, DecisionsFollowApply
<1>3. CASE SetClock \/ (\E d \in Diffs : StoreProposal(d)) \/ UNCHANGED vars
  BY <1>3 DEF SetClock, StoreProposal, vars, dbVars, gitVars, MemoryInv, DecisionsFollowApply
<1> QED
  BY <1>1, <1>2, <1>3 DEF Next

\* A decision row is never ahead of its patch, on every instance: no failure,
\* crash or other caller between the child's exit and the INSERT undoes it.
THEOREM DecisionsAreTrue == Spec => []DecisionsFollowApply
<1>1. Init => MemoryInv
  BY DEF Init, MemoryInv, DecisionsFollowApply
<1>2. MemoryInv => DecisionsFollowApply
  BY DEF MemoryInv
<1> QED
  BY TypeInit, TypeStep, MemoryStep, <1>1, <1>2, PTL DEF Spec

-----------------------------------------------------------------------------
(* The signing key.                                                        *)

\* CLI processes, which may create the key file, run one at a time.
OneCli == \A p, q \in Procs : Mode[p] = "cli" /\ Mode[q] = "cli" => p = q

\* A caller with a key has the one in the key file, and past register_signing_key
\* it is the key registered for the agent; a caller that makes a key found none.
KeyLocal(p) ==
    /\ pc[p] \in {"key", "keywrite", "keyflush"} => Mode[p] = "cli"
    /\ pc[p] \in {"keywrite", "keyflush"} => keyFile \notin Keys
    /\ pc[p] \in {"mint"} \cup Approving => keyFile \in Keys /\ req[p].key = keyFile
    /\ pc[p] \in Approving => tokens[req[p].tid].agent = req[p].agent
    /\ pc[p] \in {"persist", "flush"} => signingKeys[req[p].agent] = keyFile

\* There is one key, as long as one caller at most can make it.
KeyInv ==
    /\ \A p \in Procs : KeyLocal(p)
    /\ keyFile \notin Keys => OneCli
    /\ \A t \in Tokens : tokens[t] # None => keyFile \in Keys /\ tokens[t].key = keyFile
    /\ \A d \in Diffs : tokenFile[d] \in Tokens =>
           signingKeys[tokens[tokenFile[d]].agent] = keyFile

\* A key file that holds a key keeps it, and so does an agent registered with it.
LEMMA KeyKept ==
    ASSUME TypeInv, KeyInv, keyFile \in Keys, NEW p \in Procs, ApproveStep(p) \/ ApplyStep(p)
    PROVE  /\ UNCHANGED keyFile
           /\ \A a \in Agents : signingKeys[a] = keyFile => signingKeys'[a] = keyFile
<1>1. ~TruncateKey(p) /\ ~FlushKey(p)
  BY DEF TruncateKey, FlushKey, At, KeyInv, KeyLocal
<1>2. UNCHANGED keyFile
  BY <1>1
  DEF ApproveStep, ApplyStep, BeginApprove, FindKey, LoadKey, Mint, Register, TruncateToken,
      FlushToken, BeginCliApply, BeginServerApply, CheckBindings, CheckSignature, Consume,
      SpawnGit, GitApplied, GitRefused, RecordFailure, RemoveToken, Remember, fileVars
<1>3. CASE Register(p)
  <2>1. req[p].key = keyFile
    BY <1>3 DEF Register, At, KeyInv, KeyLocal, Approving
  <2> QED BY <1>2, <1>3, <2>1 DEF Register, TypeInv, TypeOK
<1>4. CASE ~Register(p)
  <2>1. UNCHANGED signingKeys
    BY <1>4
    DEF ApproveStep, ApplyStep, BeginApprove, FindKey, TruncateKey, FlushKey, LoadKey, Mint,
        TruncateToken, FlushToken, BeginCliApply, BeginServerApply, CheckBindings,
        CheckSignature, Consume, SpawnGit, GitApplied, GitRefused, RecordFailure, RemoveToken,
        Remember, dbVars
  <2> QED BY <1>2, <2>1
<1> QED
  BY <1>2, <1>3, <1>4

\* Without a key there is no approval under way, and no token.
LEMMA KeylessQuiet ==
    ASSUME TypeInv, KeyInv, keyFile \notin Keys
    PROVE  /\ \A p \in Procs : pc[p] \notin {"mint"} \cup Approving
           /\ \A t \in Tokens : tokens[t] = None
           /\ \A d \in Diffs : tokenFile[d] \notin Tokens
  BY NoTokenAssumption DEF TypeInv, KeyInv, KeyLocal, Released, Minted

\* The key file of a keyless state changes only by the hand of the one CLI.
LEMMA KeyMade ==
    ASSUME TypeInv, KeyInv, NEW p \in Procs, TruncateKey(p) \/ FlushKey(p)
    PROVE  KeyInv'
<1>1. keyFile \notin Keys /\ Mode[p] = "cli"
  BY DEF TruncateKey, FlushKey, At, KeyInv, KeyLocal
<1>2. UNCHANGED <<tokens, tokenFile, signingKeys, req>>
  BY DEF TruncateKey, FlushKey, dbVars
<1>3. ASSUME NEW q \in Procs, q # p PROVE KeyLocal(q)'
  <2>1. pc'[q] = pc[q]
    BY <1>3, OneCaller DEF TypeInv, ApproveStep
  <2>2. pc[q] \notin {"key", "keywrite", "keyflush"}
    BY <1>1, <1>3 DEF KeyInv, KeyLocal, OneCli
  <2> QED BY <1>1, <2>1, <2>2, KeylessQuiet DEF KeyLocal, Approving
<1>4. KeyLocal(p)'
  BY <1>1, <1>2, PipelineAssumption
  DEF TruncateKey, FlushKey, At, Goto, KeyLocal, TypeInv, TypeOK, LocalTypes, Approving
<1> QED
  BY <1>1, <1>2, <1>3, <1>4, KeylessQuiet DEF KeyInv

\* The locals of the caller that moves.
LEMMA KeyLocalStep ==
    ASSUME TypeInv, KeyInv, NEW p \in Procs, ApproveStep(p) \/ ApplyStep(p),
           ~TruncateKey(p), ~FlushKey(p)
    PROVE  KeyLocal(p)'
<1> USE DEF TypeInv, TypeOK, KeyInv, KeyLocal, Approving, At, Goto
<1>0. UNCHANGED keyFile
  BY DEF ApproveStep, ApplyStep, BeginApprove, FindKey, LoadKey, Mint, Register, TruncateToken,
      FlushToken, BeginCliApply, BeginServerApply, CheckBindings, CheckSignature, Consume,
      SpawnGit, GitApplied, GitRefused, RecordFailure, RemoveToken, Remember, fileVars
<1>1. CASE Return(p)
  BY <1>1, ReturnType
<1>2. ASSUME NEW d \in Diffs, NEW a \in Agents, BeginApprove(p, d, a), ~Return(p) PROVE KeyLocal(p)'
  BY <1>2 DEF BeginApprove
<1>3. CASE (FindKey(p) \/ LoadKey(p)) /\ ~Return(p)
  <2>1. CASE keyFile \in Keys
    <3>1. pc'[p] = "mint" /\ req' = [req EXCEPT ![p].key = keyFile]
      BY <1>3, <2>1, PipelineAssumption DEF FindKey, LoadKey
    <3>2. req'[p].key = keyFile
      BY <3>1 DEF Request
    <3> QED BY <1>0, <2>1, <3>1, <3>2
  <2>2. CASE keyFile \notin Keys
    BY <1>0, <1>3, <2>2 DEF FindKey, LoadKey
  <2> QED BY <2>1, <2>2
<1>4. CASE Mint(p) /\ ~Return(p)
  <2>1. PICK t \in Tokens :
           /\ tokens[t] = None
           /\ tokens' = [tokens EXCEPT ![t] = [diff |-> req[p].diff, agent |-> req[p].agent,
                                               key |-> req[p].key, created |-> IssueTime]]
           /\ req' = [req EXCEPT ![p].tid = t]
    BY <1>4 DEF Mint
  <2>2. /\ tokens'[t].agent = req[p].agent /\ req'[p].tid = t
        /\ req'[p].agent = req[p].agent /\ req'[p].key = req[p].key
    BY <2>1 DEF Request
  <2>3. pc'[p] = "register" /\ pc[p] = "mint"
    BY <1>4 DEF Mint
  <2> QED BY <1>0, <2>2, <2>3
<1>5. CASE Register(p) /\ ~Return(p)
  <2>1. /\ pc'[p] = "persist" /\ UNCHANGED <<req, tokens>> /\ pc[p] = "register"
        /\ signingKeys' = [signingKeys EXCEPT ![req[p].agent] = req[p].key]
    BY <1>5 DEF Register
  <2>2. req[p].agent \in Agents
    BY <2>1 DEF LocalTypes
  <2> QED BY <1>0, <2>1, <2>2
<1>6. CASE TruncateToken(p)
  BY <1>0, <1>6 DEF TruncateToken, dbVars
<1>7. CASE ApplyStep(p) /\ ~Return(p)
  <2>1. pc'[p] \in Applying
    BY <1>7
    DEF ApplyStep, BeginCliApply, BeginServerApply, CheckBindings, CheckSignature, Consume,
        SpawnGit, GitApplied, GitRefused, RecordFailure, RemoveToken, Remember, Applying
  <2> QED BY <2>1 DEF Applying
<1> QED
  BY <1>1, <1>2, <1>3, <1>4, <1>5, <1>6, <1>7 DEF ApproveStep, FlushToken

\* KeyInv is inductive relative to TypeInv.
LEMMA KeyStep == TypeInv /\ KeyInv /\ [Next]_vars => KeyInv'
<1> SUFFICES ASSUME TypeInv, KeyInv, [Next]_vars PROVE KeyInv'
  OBVIOUS
<1>1. ASSUME NEW p \in Procs, ApproveStep(p) \/ ApplyStep(p), ~TruncateKey(p), ~FlushKey(p)
      PROVE  KeyInv'
  <2>1. UNCHANGED keyFile
    BY <1>1
    DEF ApproveStep, ApplyStep, BeginApprove, FindKey, LoadKey, Mint, Register, TruncateToken,
        FlushToken, BeginCliApply, BeginServerApply, CheckBindings, CheckSignature, Consume,
        SpawnGit, GitApplied, GitRefused, RecordFailure, RemoveToken, Remember, fileVars
  <2>2. ASSUME NEW q \in Procs, q # p PROVE KeyLocal(q)'
    <3>1. pc'[q] = pc[q] /\ req'[q] = req[q]
      BY <1>1, <2>2, OneCaller DEF TypeInv
    <3>2. pc[q] \in Approving =>
             /\ req[q].tid \in Tokens /\ tokens[req[q].tid] # None /\ req[q].agent \in Agents
             /\ keyFile \in Keys
      BY NoTokenAssumption DEF TypeInv, TypeOK, LocalTypes, Minted, Approving, KeyInv, KeyLocal
    <3>3. pc[q] \in Approving => tokens'[req[q].tid] = tokens[req[q].tid]
      BY <1>1, <3>2, TokensKept DEF TypeInv
    <3>4. pc[q] \in {"persist", "flush"} => signingKeys'[req[q].agent] = keyFile
      BY <1>1, <3>2, KeyKept DEF KeyInv, KeyLocal, Approving
    <3> QED BY <2>1, <3>1, <3>3, <3>4 DEF KeyInv, KeyLocal
  <2>3. KeyLocal(p)'
    BY <1>1, KeyLocalStep
  <2>4. ASSUME NEW t \in Tokens, tokens'[t] # None
        PROVE  keyFile \in Keys /\ tokens'[t].key = keyFile
    <3>1. CASE tokens[t] # None
      BY <1>1, <3>1, TokensKept DEF TypeInv, KeyInv
    <3>2. CASE tokens[t] = None
      <4>1. Mint(p)
        BY <1>1, <2>4, <3>2
        DEF ApproveStep, ApplyStep, BeginApprove, FindKey, TruncateKey, FlushKey, LoadKey,
            Register, TruncateToken, FlushToken, BeginCliApply, BeginServerApply, CheckBindings,
            CheckSignature, Consume, SpawnGit, GitApplied, GitRefused, RecordFailure,
            RemoveToken, Remember
      <4>2. tokens'[t].key = req[p].key
        BY <2>4, <3>2, <4>1 DEF Mint, TypeInv, TypeOK
      <4> QED BY <4>1, <4>2 DEF Mint, At, KeyInv, KeyLocal
    <3> QED BY <3>1, <3>2
  <2>5. ASSUME NEW d \in Diffs, tokenFile'[d] \in Tokens
        PROVE  signingKeys'[tokens'[tokenFile'[d]].agent] = keyFile
    <3>1. CASE tokenFile'[d] = tokenFile[d]
      <4>1. tokens[tokenFile[d]] \in Token /\ keyFile \in Keys
        BY <2>5, <3>1, NoTokenAssumption DEF TypeInv, Released, Minted, KeyInv
      <4>2. tokens'[tokenFile[d]] = tokens[tokenFile[d]]
        BY <1>1, <2>5, <3>1, <4>1, TokensKept, NoTokenAssumption DEF TypeInv
      <4>3. tokens[tokenFile[d]].agent \in Agents
        BY <4>1 DEF Token
      <4> QED BY <1>1, <2>5, <3>1, <4>1, <4>2, <4>3, KeyKept DEF KeyInv
    <3>2. CASE tokenFile'[d] # tokenFile[d]
      <4>1. FlushToken(p)
        BY <1>1, <2>5, <3>2, PipelineAssumption
        DEF ApproveStep, ApplyStep, BeginApprove, FindKey, TruncateKey, FlushKey, LoadKey, Mint,
            Register, TruncateToken, FlushToken, BeginCliApply, BeginServerApply, CheckBindings,
            CheckSignature, Consume, SpawnGit, GitApplied, GitRefused, RecordFailure,
            RemoveToken, Remember, fileVars, TypeInv, TypeOK
      <4>2. /\ tokenFile'[d] = req[p].tid /\ UNCHANGED <<tokens, signingKeys>>
            /\ pc[p] = "flush"
        BY <3>2, <4>1 DEF FlushToken, At, dbVars, TypeInv, TypeOK
      <4> QED BY <4>2 DEF KeyInv, KeyLocal, Approving
    <3> QED BY <3>1, <3>2
  <2> QED BY <2>1, <2>2, <2>3, <2>4, <2>5 DEF KeyInv
<1>2. ASSUME NEW p \in Procs, TruncateKey(p) \/ FlushKey(p) PROVE KeyInv'
  BY <1>2, KeyMade
<1>3. ASSUME NEW p \in Procs, Fail(p) \/ Crash(p) PROVE KeyInv'
  <2>1. UNCHANGED <<keyFile, tokens, tokenFile, signingKeys>>
    BY <1>3 DEF Fail, Crash, dbVars, fileVars
  <2>2. ASSUME NEW q \in Procs
        PROVE  pc'[q] = "idle" \/ (pc'[q] = pc[q] /\ req'[q] = req[q])
    BY <1>3 DEF Fail, Return, Goto, Crash, TypeInv, TypeOK
  <2> QED BY <2>1, <2>2 DEF KeyInv, KeyLocal, Approving
<1>4. CASE SetClock \/ (\E d \in Diffs : StoreProposal(d)) \/ UNCHANGED vars
  <2>1. UNCHANGED <<keyFile, tokens, tokenFile, signingKeys, pc, req>>
    BY <1>4 DEF SetClock, StoreProposal, vars, dbVars, fileVars
  <2> QED BY <2>1 DEF KeyInv, KeyLocal
<1> QED
  BY <1>1, <1>2, <1>3, <1>4 DEF Next

\* The token `scos apply` loads always verifies if there is a key file at the
\* start, or if CLI processes run one at a time, so that no two create one.  The
\* run with two first approvals shows that the condition is needed.
THEOREM PersistedTokensVerify ==
    ASSUME InitialKey \in Keys \/ OneCli
    PROVE  Spec => []PersistedTokenVerifies
<1>1. Init => KeyInv
  BY PipelineAssumption DEF Init, KeyInv, KeyLocal, Approving
<1>2. TypeInv /\ KeyInv => PersistedTokenVerifies
  BY NoTokenAssumption DEF TypeInv, Released, Minted, KeyInv, PersistedTokenVerifies
<1> QED
  BY TypeInit, TypeStep, KeyStep, <1>1, <1>2, PTL DEF Spec
=============================================================================
