------------------------- MODULE HarnessChains_proofs -------------------------
(***************************************************************************)
(* Theorems about HarnessChains, for any runners, sweepers, tasks and      *)
(* bounds. A step of AgentTasks is the business of AgentTasks_proofs; what *)
(* is shown here is about the chains, and what ties the sessions to them.  *)
(***************************************************************************)
EXTENDS HarnessChains, AgentTasks_proofs

RunnerStates == {"absent", "idle", "busy", "fenced", "offline"}
ChainStates == {"none", "running", "queued", "done"} \cup Pinned
Attempts == 1..MaxAttempt
RunnerRows == [state : RunnerStates, chain : Roots \cup {Nobody}]
ChainRows == [state : ChainStates, runner : Runners \cup {Nobody},
              attempt : Attempts, clean : BOOLEAN]
Calls == [at : {"none", "poll", "deliver", "gone"}, task : Tasks \cup {Nobody},
          chain : Roots \cup {Nobody}, attempt : 0..MaxAttempt, pinned : BOOLEAN]
Grants == [chain : Roots \cup {Nobody}, attempt : 0..MaxAttempt]
Endings == [on : BOOLEAN, chain : Roots \cup {Nobody}]

(* The type invariant, row by row.                                         *)
LEMMA Rows ==
    HarnessTypeOK <=>
        /\ TasksTypeOK
        /\ runner \in [Runners -> RunnerRows] /\ chain \in [Roots -> ChainRows]
        /\ claims \subseteq Tasks \X Attempts
        /\ call \in [Runners -> Calls] /\ grant \in [Runners -> Grants]
        /\ ending \in [Runners -> Endings] /\ sweep \in [Sweepers -> Grants]
  BY DEF HarnessTypeOK, RunnerRows, RunnerStates, ChainRows, ChainStates, Attempts, Calls,
         Grants, Endings

(* A chain is named by its root, and a root is a chain of its own.         *)
LEMMA ChainIsRoot ==
    /\ \A t \in Tasks : Chain(t) \in Roots /\ t \in TasksOf(Chain(t))
    /\ \A c \in Roots : c \in Tasks /\ Chain(c) = c /\ c # Nobody
    /\ \A t \in Tasks : Parent[t] # Nobody =>
           Parent[t] \in Roots /\ Chain(t) = Parent[t] /\ Chain(Parent[t]) = Parent[t]
  BY RunnersAssumption, TasksAssumption DEF Chain, Roots, TasksOf

(* What each step changes, for the steps that change rows.                 *)
LEMMA FenceRow ==
    ASSUME chain \in [Roots -> ChainRows], NEW c \in Roots, chain' = Fence(c)
    PROVE  /\ chain'[c].state = "fencing" /\ chain'[c].attempt = chain[c].attempt + 1
           /\ chain'[c].runner = chain[c].runner /\ chain'[c].clean = chain[c].clean
           /\ \A d \in Roots \ {c} : chain'[d] = chain[d]
           /\ MayFence(c) => chain' \in [Roots -> ChainRows]
  <1> DEFINE row == [chain[c] EXCEPT !.state = "fencing", !.attempt = @ + 1]
  <1>1. chain' = [chain EXCEPT ![c] = row]
    BY DEF Fence
  <1>2. chain[c] \in ChainRows
    OBVIOUS
  <1>3. /\ row.state = "fencing" /\ row.attempt = chain[c].attempt + 1
        /\ row.runner = chain[c].runner /\ row.clean = chain[c].clean
    BY <1>2 DEF ChainRows
  <1>4. MayFence(c) => chain[c].attempt + 1 \in Attempts
    BY <1>2, RunnersAssumption DEF ChainRows, Attempts, MayFence
  <1>5. MayFence(c) => row \in ChainRows
    BY <1>2, <1>4 DEF ChainRows, ChainStates, Pinned
  <1> HIDE DEF row
  <1>6. chain'[c] = row /\ \A d \in Roots \ {c} : chain'[d] = chain[d]
    BY <1>1
  <1>7. row \in ChainRows => chain' \in [Roots -> ChainRows]
    BY <1>1
  <1> QED
    BY <1>3, <1>5, <1>6, <1>7
LEMMA ClaimRow ==
    ASSUME HarnessTypeOK, NEW r \in Runners, NEW t \in Tasks, Claim(r, t)
    PROVE  /\ chain'[Chain(t)].state = "running" /\ chain'[Chain(t)].runner = r
           /\ chain'[Chain(t)].attempt = chain[Chain(t)].attempt
           /\ ~chain'[Chain(t)].clean
           /\ \A d \in Roots \ {Chain(t)} : chain'[d] = chain[d]
           /\ chain' \in [Roots -> ChainRows]
           /\ runner'[r] = [state |-> "busy", chain |-> Chain(t)]
           /\ \A s \in Runners \ {r} : runner'[s] = runner[s]
           /\ runner' \in [Runners -> RunnerRows]
           /\ call'[r] = [at |-> "deliver", task |-> t, chain |-> Chain(t),
                          attempt |-> chain[Chain(t)].attempt, pinned |-> TRUE]
           /\ \A s \in Runners \ {r} : call'[s] = call[s]
           /\ call' \in [Runners -> Calls]
           /\ claims' \subseteq Tasks \X Attempts
  <1> DEFINE c == Chain(t)
             row == [chain[c] EXCEPT !.state = "running", !.runner = r, !.clean = FALSE]
             one == [state |-> "busy", chain |-> c]
             answer == [at |-> "deliver", task |-> t, chain |-> c,
                        attempt |-> chain[c].attempt, pinned |-> TRUE]
  <1>1. c \in Roots
    BY ChainIsRoot
  <1>2. /\ chain \in [Roots -> ChainRows] /\ runner \in [Runners -> RunnerRows]
        /\ call \in [Runners -> Calls] /\ claims \subseteq Tasks \X Attempts
    BY Rows
  <1>3. chain' = [chain EXCEPT ![c] = row]
    BY DEF Claim
  <1>4. runner' = [runner EXCEPT ![r] = one] /\ call' = [call EXCEPT ![r] = answer]
        /\ claims' = claims \cup {<<t, chain[c].attempt>>}
    BY DEF Claim
  <1>5. chain[c] \in ChainRows /\ chain[c].attempt \in Attempts
    BY <1>1, <1>2 DEF ChainRows
  <1>6. row \in ChainRows /\ row.state = "running" /\ row.runner = r
        /\ row.attempt = chain[c].attempt /\ ~row.clean
    BY <1>5 DEF ChainRows, ChainStates
  <1>7. one \in RunnerRows
    BY <1>1 DEF RunnerRows, RunnerStates
  <1>8. answer \in Calls
    BY <1>1, <1>5 DEF Calls, Attempts
  <1>9. claims' \subseteq Tasks \X Attempts
    BY <1>2, <1>4, <1>5
  <1> HIDE DEF row, one, answer, c
  <1>10. chain'[c] = row /\ chain' \in [Roots -> ChainRows]
         /\ \A d \in Roots \ {c} : chain'[d] = chain[d]
    BY <1>1, <1>2, <1>3, <1>6
  <1>11. /\ runner'[r] = one /\ runner' \in [Runners -> RunnerRows]
         /\ call'[r] = answer /\ call' \in [Runners -> Calls]
         /\ \A s \in Runners \ {r} : runner'[s] = runner[s] /\ call'[s] = call[s]
    BY <1>2, <1>4, <1>7, <1>8
  <1> QED
    BY <1>6, <1>9, <1>10, <1>11 DEF c, one, answer

(* The chain of a claim that is given up: free again, or done.             *)
LEMMA ReleaseRow ==
    ASSUME HarnessTypeOK, NEW r \in Runners, ReleaseClaim(r), call[r].pinned,
           call[r].chain \in Roots
    PROVE  LET c == call[r].chain IN
           /\ \A d \in Roots \ {c} : chain'[d] = chain[d]
           /\ chain' \in [Roots -> ChainRows]
           /\ chain[c].runner # r => chain' = chain
           /\ chain[c].runner = r =>
                 /\ chain'[c].state = IF ChainOpen(c) THEN "queued" ELSE "done"
                 /\ chain'[c].runner = Nobody
                 /\ chain'[c].attempt = chain[c].attempt /\ chain'[c].clean = chain[c].clean
           /\ \A s \in Runners \ {r} : runner'[s] = runner[s]
           /\ runner' \in [Runners -> RunnerRows]
           /\ IF runner[r].state = "busy" THEN runner'[r] = [state |-> "idle", chain |-> Nobody]
                                          ELSE runner'[r] = runner[r]
  <1> DEFINE c == call[r].chain
             st == IF ChainOpen(c) THEN "queued" ELSE "done"
             row == [chain[c] EXCEPT !.state = st, !.runner = Nobody]
             one == [state |-> "idle", chain |-> Nobody]
  <1>1. /\ chain \in [Roots -> ChainRows] /\ runner \in [Runners -> RunnerRows]
    BY Rows
  <1>2. chain' = IF chain[c].runner # r THEN chain ELSE [chain EXCEPT ![c] = row]
    BY DEF ReleaseClaim
  <1>3. runner' = IF runner[r].state # "busy" THEN runner ELSE [runner EXCEPT ![r] = one]
    BY DEF ReleaseClaim
  <1> HIDE DEF c
  <1>0. c \in Roots
    BY DEF c
  <1>4. st \in {"queued", "done"}
    OBVIOUS
  <1> HIDE DEF st
  <1>5. row \in ChainRows /\ row.state = st /\ row.runner = Nobody
        /\ row.attempt = chain[c].attempt /\ row.clean = chain[c].clean
    BY <1>0, <1>1, <1>4 DEF ChainRows, ChainStates
  <1>6. one \in RunnerRows
    BY DEF RunnerRows, RunnerStates
  <1> HIDE DEF row, one
  <1>7. \A d \in Roots \ {c} : chain'[d] = chain[d]
    BY <1>1, <1>2
  <1>8. chain' \in [Roots -> ChainRows]
    BY <1>1, <1>2, <1>5
  <1>9. chain[c].runner = r => chain'[c] = row
    BY <1>0, <1>1, <1>2
  <1>10. /\ \A s \in Runners \ {r} : runner'[s] = runner[s]
         /\ runner' \in [Runners -> RunnerRows]
         /\ IF runner[r].state = "busy" THEN runner'[r] = one ELSE runner'[r] = runner[r]
    BY <1>1, <1>3, <1>6
  <1> QED
    BY <1>2, <1>5, <1>7, <1>8, <1>9, <1>10 DEF c, st, one
(* A sweeper records the result of the fencers.                            *)
LEMMA ResultRow ==
    ASSUME HarnessTypeOK, NEW s \in Sweepers, NEW ok \in BOOLEAN, SetFenceResult(s, ok)
    PROVE  /\ chain' \in [Roots -> ChainRows]
           /\ \A d \in Roots :
                 \/ chain'[d] = chain[d]
                 \/ /\ chain[d].state \in {"fencing", "stuck"}
                    /\ chain'[d] = [chain[d] EXCEPT !.state = IF ok THEN "fencing" ELSE "stuck",
                                                    !.clean = ok]
                    /\ d = sweep[s].chain
           /\ \A d \in Roots \ {sweep[s].chain} : chain'[d] = chain[d]
  <1> DEFINE c == sweep[s].chain
             row == [chain[c] EXCEPT !.state = IF ok THEN "fencing" ELSE "stuck", !.clean = ok]
             hit == chain[c].attempt = sweep[s].attempt /\ chain[c].state \in {"fencing", "stuck"}
  <1>1. chain \in [Roots -> ChainRows]
    BY Rows
  <1>2. chain' = IF hit THEN [chain EXCEPT ![c] = row] ELSE chain
    BY DEF SetFenceResult
  <1>3. c \in Roots => row \in ChainRows
    BY <1>1 DEF ChainRows, ChainStates, Pinned
  <1>4. hit => chain[c].state \in {"fencing", "stuck"}
    OBVIOUS
  <1> HIDE DEF row, hit, c
  <1>5. chain' \in [Roots -> ChainRows]
    <2>1. CASE c \in Roots
      BY <1>1, <1>2, <1>3, <2>1
    <2>2. CASE c \notin Roots
      BY <1>1, <1>2, <2>2
    <2> QED
      BY <2>1, <2>2
  <1>6. \A d \in Roots \ {c} : chain'[d] = chain[d]
    BY <1>1, <1>2
  <1>7. c \in Roots /\ hit => chain'[c] = row
    BY <1>1, <1>2
  <1>8. ~hit => chain' = chain
    BY <1>2
  <1>9. ASSUME NEW d \in Roots
        PROVE  \/ chain'[d] = chain[d]
               \/ d = c /\ chain[c].state \in {"fencing", "stuck"} /\ chain'[c] = row
    BY <1>4, <1>6, <1>7, <1>8
  <1> QED
    BY <1>5, <1>6, <1>9 DEF row, c

(* A lost runner; its chain, if it holds one, goes to the fencers.         *)
LEMMA ExpireRow ==
    ASSUME HarnessTypeOK, NEW r \in Runners, Expire(r)
    PROVE  /\ \A s \in Runners \ {r} : runner'[s] = runner[s]
           /\ runner' \in [Runners -> RunnerRows] /\ chain' \in [Roots -> ChainRows]
           /\ runner'[r].chain = runner[r].chain
           /\ \/ /\ runner[r].chain = Nobody /\ chain' = chain
                 /\ runner'[r].state = "offline"
              \/ /\ runner[r].chain \in Roots
                 /\ ~Holds(r, runner[r].chain) /\ chain' = chain
                 /\ runner'[r].state = "fenced"
              \/ /\ runner[r].chain \in Roots
                 /\ Holds(r, runner[r].chain) /\ chain' = Fence(runner[r].chain)
                 /\ runner'[r].state = "fenced"
  <1> DEFINE c == runner[r].chain
  <1>1. chain \in [Roots -> ChainRows] /\ runner \in [Runners -> RunnerRows]
    BY Rows
  <1>2. c \in Roots \cup {Nobody}
    BY <1>1 DEF RunnerRows
  <1>3. \/ c = Nobody /\ runner' = [runner EXCEPT ![r].state = "offline"] /\ chain' = chain
        \/ /\ c # Nobody /\ runner' = [runner EXCEPT ![r].state = "fenced"] /\ MayFence(c)
           /\ \/ Holds(r, c) /\ chain' = Fence(c)
              \/ ~Holds(r, c) /\ chain' = chain
    BY DEF Expire
  <1>4. \E st \in {"offline", "fenced"} : runner' = [runner EXCEPT ![r].state = st]
    BY <1>3
  <1>5. /\ \A s \in Runners \ {r} : runner'[s] = runner[s]
        /\ runner' \in [Runners -> RunnerRows]
        /\ runner'[r].chain = c
    BY <1>1, <1>4 DEF RunnerRows, RunnerStates
  <1>6. /\ c = Nobody => runner'[r].state = "offline"
        /\ c # Nobody => runner'[r].state = "fenced"
    BY <1>1, <1>3 DEF RunnerRows
  <1> HIDE DEF c
  <1>7. chain' \in [Roots -> ChainRows]
    BY <1>1, <1>2, <1>3, FenceRow
  <1>8. QED
    BY <1>2, <1>3, <1>5, <1>6, <1>7 DEF c

(* A runner that finishes: its chain is done, or goes to the fencers.      *)
LEMMA FinishRow ==
    ASSUME HarnessTypeOK, NEW r \in Runners, Finish(r)
    PROVE  LET c == ending[r].chain IN
           /\ \A s \in Runners \ {r} : runner'[s] = runner[s]
           /\ runner' \in [Runners -> RunnerRows] /\ chain' \in [Roots -> ChainRows]
           /\ runner'[r].chain = runner[r].chain
           /\ \/ /\ ~(c \in Roots /\ Holds(r, c)) /\ chain' = chain
                 /\ runner'[r].state = "offline"
              \/ /\ c \in Roots /\ Holds(r, c) /\ ChainOpen(c)
                 /\ chain' = Fence(c) /\ runner'[r].state = "fenced"
              \/ /\ c \in Roots /\ Holds(r, c) /\ ~ChainOpen(c)
                 /\ chain'[c] = [chain[c] EXCEPT !.state = "done"]
                 /\ \A d \in Roots \ {c} : chain'[d] = chain[d]
                 /\ runner'[r].state = "offline"
  <1> DEFINE c == ending[r].chain
             row == [chain[c] EXCEPT !.state = "done"]
  <1>1. chain \in [Roots -> ChainRows] /\ runner \in [Runners -> RunnerRows]
    BY Rows
  <1>2. c \in Roots \cup {Nobody}
    BY Rows DEF Endings
  <1>3. \/ /\ ~(c # Nobody /\ Holds(r, c)) /\ chain' = chain
           /\ runner' = [runner EXCEPT ![r].state = "offline"]
        \/ /\ c # Nobody /\ Holds(r, c) /\ ChainOpen(c) /\ MayFence(c)
           /\ chain' = Fence(c) /\ runner' = [runner EXCEPT ![r].state = "fenced"]
        \/ /\ c # Nobody /\ Holds(r, c) /\ ~ChainOpen(c)
           /\ chain' = [chain EXCEPT ![c] = row]
           /\ runner' = [runner EXCEPT ![r].state = "offline"]
    BY DEF Finish
  <1>4. \E st \in {"offline", "fenced"} : runner' = [runner EXCEPT ![r].state = st]
    BY <1>3
  <1>5. /\ \A s \in Runners \ {r} : runner'[s] = runner[s]
        /\ runner' \in [Runners -> RunnerRows]
        /\ runner'[r].chain = runner[r].chain
    BY <1>1, <1>4 DEF RunnerRows, RunnerStates
  <1>6. \A st \in {"offline", "fenced"} :
            runner' = [runner EXCEPT ![r].state = st] => runner'[r].state = st
    BY <1>1 DEF RunnerRows
  <1>7. c \in Roots => row \in ChainRows
    BY <1>1 DEF ChainRows, ChainStates
  <1>8. Nobody \notin Roots
    BY ChainIsRoot
  <1> HIDE DEF c, row
  <1>9. CASE ~(c # Nobody /\ Holds(r, c)) /\ chain' = chain
             /\ runner' = [runner EXCEPT ![r].state = "offline"]
    BY <1>1, <1>5, <1>6, <1>8, <1>9 DEF c
  <1>10. CASE /\ c # Nobody /\ Holds(r, c) /\ ChainOpen(c) /\ MayFence(c)
              /\ chain' = Fence(c) /\ runner' = [runner EXCEPT ![r].state = "fenced"]
    BY <1>1, <1>2, <1>5, <1>6, <1>10, FenceRow DEF c
  <1>11. CASE /\ c # Nobody /\ Holds(r, c) /\ ~ChainOpen(c)
              /\ chain' = [chain EXCEPT ![c] = row]
              /\ runner' = [runner EXCEPT ![r].state = "offline"]
    <2>1. chain'[c] = row /\ chain' \in [Roots -> ChainRows]
          /\ \A d \in Roots \ {c} : chain'[d] = chain[d]
      BY <1>1, <1>2, <1>7, <1>11
    <2> QED
      BY <1>2, <1>5, <1>6, <1>11, <2>1 DEF c, row
  <1> QED
    BY <1>3, <1>9, <1>10, <1>11

(* The requeue of a chain: its open tasks lose their sessions.             *)
LEMMA RequeueRow ==
    ASSUME HarnessTypeOK, NEW c \in Roots, Requeue(c)
    PROVE  /\ \A t \in Tasks :
                 IF t \in TasksOf(c) /\ Working(t)
                 THEN /\ Free(t) /\ status'[t] = Requeued(t)
                      /\ \A k \in Keys : session'[t][k] = IF session[t][k] = "open" THEN "closed"
                                                          ELSE session[t][k]
                 ELSE status'[t] = status[t] /\ session'[t] = session[t]
           /\ status' \in [Tasks -> Statuses] /\ session' \in [Tasks -> [Keys -> SessionStates]]
           /\ chain'[c].state \in {"queued", "done"}
           /\ chain'[c].state = "done" =>
                 \A t \in TasksOf(c) : Working(t) => Requeued(t) = "closed"
           /\ chain'[c].runner = Nobody /\ chain'[c].attempt = chain[c].attempt
           /\ chain'[c].clean = chain[c].clean
           /\ \A d \in Roots \ {c} : chain'[d] = chain[d]
           /\ chain' \in [Roots -> ChainRows]
           /\ \A r \in Runners :
                 \/ runner'[r] = runner[r]
                 \/ /\ r = chain[c].runner /\ runner[r].state = "fenced"
                    /\ runner'[r] = [runner[r] EXCEPT !.state = "offline"]
           /\ runner' \in [Runners -> RunnerRows]
  <1> DEFINE open == {t \in TasksOf(c) : Working(t)}
             st == IF \E t \in open : Requeued(t) # "closed" THEN "queued" ELSE "done"
             row == [chain[c] EXCEPT !.state = st, !.runner = Nobody]
             wiped == [t \in Tasks |-> IF t \in open
                      THEN [k \in Keys |-> IF session[t][k] = "open" THEN "closed"
                                           ELSE session[t][k]]
                      ELSE session[t]]
  <1>1. /\ chain \in [Roots -> ChainRows] /\ runner \in [Runners -> RunnerRows]
        /\ TasksTypeOK
    BY Rows
  <1>2. /\ \A t \in open : Free(t)
        /\ status' = [t \in Tasks |-> IF t \in open THEN Requeued(t) ELSE status[t]]
        /\ session' = wiped
    BY DEF Requeue, RequeueChain
  <1>3. chain' = [chain EXCEPT ![c] = row]
    BY DEF Requeue
  <1>4. runner' = [r \in Runners |->
            IF r = chain[c].runner /\ runner[r].state = "fenced"
            THEN [runner[r] EXCEPT !.state = "offline"] ELSE runner[r]]
    BY DEF Requeue
  <1>5. \A t \in Tasks : t \in open <=> t \in TasksOf(c) /\ Working(t)
    OBVIOUS
  <1>6. st \in {"queued", "done"} /\ (st = "done" => \A t \in open : Requeued(t) = "closed")
    OBVIOUS
  <1>7. \A t \in Tasks : status[t] \in Statuses /\ Requeued(t) \in Statuses
    BY <1>1 DEF TasksTypeOK, Requeued, Statuses
  <1> HIDE DEF st
  <1>8. row \in ChainRows /\ row.state = st /\ row.runner = Nobody
        /\ row.attempt = chain[c].attempt /\ row.clean = chain[c].clean
    BY <1>1, <1>6 DEF ChainRows, ChainStates
  <1>9. \A r \in Runners : [runner[r] EXCEPT !.state = "offline"] \in RunnerRows
    BY <1>1 DEF RunnerRows, RunnerStates
  <1>10. /\ wiped \in [Tasks -> [Keys -> SessionStates]]
         /\ \A t \in Tasks : IF t \in open
               THEN \A k \in Keys : wiped[t][k] = IF session[t][k] = "open" THEN "closed"
                                                  ELSE session[t][k]
               ELSE wiped[t] = session[t]
    BY <1>1 DEF TasksTypeOK, SessionStates
  <1>11. TasksOf(c) \subseteq Tasks
    BY DEF TasksOf
  <1> HIDE DEF row, wiped, open
  <1>12. chain'[c] = row /\ chain' \in [Roots -> ChainRows]
         /\ \A d \in Roots \ {c} : chain'[d] = chain[d]
    BY <1>1, <1>3, <1>8
  <1>13. /\ \A r \in Runners :
                 \/ runner'[r] = runner[r]
                 \/ /\ r = chain[c].runner /\ runner[r].state = "fenced"
                    /\ runner'[r] = [runner[r] EXCEPT !.state = "offline"]
         /\ runner' \in [Runners -> RunnerRows]
    BY <1>1, <1>4, <1>9
  <1>14. status' \in [Tasks -> Statuses]
    BY <1>2, <1>7
  <1>15. \A t \in Tasks :
                 IF t \in TasksOf(c) /\ Working(t)
                 THEN /\ Free(t) /\ status'[t] = Requeued(t)
                      /\ \A k \in Keys : session'[t][k] = IF session[t][k] = "open" THEN "closed"
                                                          ELSE session[t][k]
                 ELSE status'[t] = status[t] /\ session'[t] = session[t]
    BY <1>2, <1>5, <1>10
  <1>16. chain'[c].state = "done" => \A t \in TasksOf(c) : Working(t) => Requeued(t) = "closed"
    BY <1>5, <1>6, <1>8, <1>11, <1>12
  <1> QED
    BY <1>2, <1>6, <1>8, <1>10, <1>12, <1>13, <1>14, <1>15, <1>16
-----------------------------------------------------------------------------
LEMMA RunnerTypes ==
    ASSUME HarnessTypeOK, NEW r \in Runners, RunnerStep(r)
    PROVE  HarnessTypeOK'
  <1>0. /\ TasksTypeOK
        /\ runner \in [Runners -> RunnerRows] /\ chain \in [Roots -> ChainRows]
        /\ claims \subseteq Tasks \X Attempts
        /\ call \in [Runners -> Calls] /\ grant \in [Runners -> Grants]
        /\ ending \in [Runners -> Endings] /\ sweep \in [Sweepers -> Grants]
    BY Rows
  <1> SUFFICES
        /\ TasksTypeOK'
        /\ runner' \in [Runners -> RunnerRows] /\ chain' \in [Roots -> ChainRows]
        /\ claims' \subseteq Tasks \X Attempts
        /\ call' \in [Runners -> Calls] /\ grant' \in [Runners -> Grants]
        /\ ending' \in [Runners -> Endings] /\ sweep' \in [Sweepers -> Grants]
    BY DEF HarnessTypeOK, RunnerRows, RunnerStates, ChainRows, ChainStates, Attempts, Calls,
           Grants, Endings
  <1>1. UNCHANGED taskVars
    BY DEF RunnerStep, Register, Poll, PollEnds, Deliver, LoseClaim, ReleaseClaim, Claim,
           ClaimChild, SendFinish, Finish, Expire
  <1>2. TasksTypeOK'
    BY <1>0, <1>1 DEF taskVars, TasksTypeOK
  <1>3. NoCall \in Calls /\ [NoCall EXCEPT !.at = "poll"] \in Calls
        /\ Unanswered(r) \in Calls /\ NoEnding \in Endings /\ NoGrant \in Grants
    <2>1. 0 \in 0..MaxAttempt
      BY RunnersAssumption
    <2>2. NoCall \in Calls /\ NoEnding \in Endings /\ NoGrant \in Grants
      BY <2>1 DEF NoCall, Calls, NoEnding, Endings, NoGrant, Grants
    <2>3. \A where \in {"none", "poll", "gone"} : [NoCall EXCEPT !.at = where] \in Calls
      BY <2>2 DEF Calls
    <2> QED
      BY <2>2, <2>3 DEF Unanswered
  <1>4. CASE Register(r)
    BY <1>0, <1>2, <1>4 DEF Register, RunnerRows, RunnerStates
  <1>5. CASE Poll(r) \/ PollEnds(r)
    BY <1>0, <1>2, <1>3, <1>5 DEF Poll, PollEnds, Calls
  <1>6. CASE Deliver(r)
    <2>1. [chain |-> call[r].chain, attempt |-> call[r].attempt] \in Grants
      BY <1>0 DEF Calls, Grants
    <2> QED
      BY <1>0, <1>2, <1>3, <1>6, <2>1 DEF Deliver
  <1>7. CASE LoseClaim(r)
    BY <1>0, <1>2, <1>3, <1>7 DEF LoseClaim
  <1>8. CASE ReleaseClaim(r)
    <2>1. call' \in [Runners -> Calls] /\ claims' \subseteq Tasks \X Attempts
          /\ UNCHANGED <<grant, ending, sweep>>
      BY <1>0, <1>3, <1>8 DEF ReleaseClaim
    <2>2. call[r].pinned /\ call[r].chain \in Roots =>
              runner' \in [Runners -> RunnerRows] /\ chain' \in [Roots -> ChainRows]
      BY <1>8, ReleaseRow
    <2>3. ~call[r].pinned => runner' = runner /\ chain' = chain
      BY <1>8 DEF ReleaseClaim
    <2>4. call[r].chain \notin Roots => chain' \in [Roots -> ChainRows]
      <3> DEFINE row == [chain[call[r].chain] EXCEPT
                            !.state = IF ChainOpen(call[r].chain) THEN "queued" ELSE "done",
                            !.runner = Nobody]
      <3>1. chain' = chain \/ chain' = [chain EXCEPT ![call[r].chain] = row]
        BY <1>8 DEF ReleaseClaim
      <3> HIDE DEF row
      <3> QED
        BY <1>0, <3>1
    <2>5. runner' \in [Runners -> RunnerRows]
      <3>1. [state |-> "idle", chain |-> Nobody] \in RunnerRows
        BY DEF RunnerRows, RunnerStates
      <3> QED
        BY <1>0, <1>8, <3>1 DEF ReleaseClaim
    <2>6. call[r].pinned \in BOOLEAN
      BY <1>0 DEF Calls
    <2> QED
      BY <1>0, <1>2, <2>1, <2>2, <2>3, <2>4, <2>5, <2>6
  <1>9. ASSUME NEW t \in Tasks, Claim(r, t) PROVE HarnessTypeOK'
    BY <1>0, <1>2, <1>9, ClaimRow DEF Claim, HarnessTypeOK, RunnerRows, RunnerStates,
       ChainRows, ChainStates, Attempts, Calls, Grants, Endings
  <1>10. ASSUME NEW t \in Tasks, ClaimChild(r, t) PROVE HarnessTypeOK'
    <2> DEFINE answer == [at |-> "deliver", task |-> t, chain |-> Chain(t),
                          attempt |-> chain[Chain(t)].attempt, pinned |-> FALSE]
    <2>1. Chain(t) \in Roots /\ chain[Chain(t)].attempt \in Attempts
      BY <1>0, ChainIsRoot DEF ChainRows
    <2>2. answer \in Calls
      BY <2>1 DEF Calls, Attempts
    <2>3. call' = [call EXCEPT ![r] = answer]
          /\ claims' = claims \cup {<<t, chain[Chain(t)].attempt>>}
          /\ UNCHANGED <<runner, chain, grant, ending, sweep>>
      BY <1>10 DEF ClaimChild
    <2> HIDE DEF answer
    <2>4. call' \in [Runners -> Calls] /\ claims' \subseteq Tasks \X Attempts
      BY <1>0, <2>1, <2>2, <2>3
    <2> QED
      BY <1>0, <1>2, <2>3, <2>4 DEF HarnessTypeOK, RunnerRows, RunnerStates,
         ChainRows, ChainStates, Attempts, Calls, Grants, Endings
  <1>11. CASE SendFinish(r)
    <2>1. [on |-> TRUE, chain |-> runner[r].chain] \in Endings
      BY <1>0 DEF RunnerRows, Endings
    <2> QED
      BY <1>0, <1>2, <1>11, <2>1 DEF SendFinish
  <1>12. CASE Finish(r)
    <2>1. runner' \in [Runners -> RunnerRows] /\ chain' \in [Roots -> ChainRows]
      BY <1>12, FinishRow
    <2> QED
      BY <1>0, <1>2, <1>3, <1>12, <2>1 DEF Finish
  <1>13. CASE Expire(r)
    BY <1>0, <1>2, <1>13, ExpireRow DEF Expire
  <1> QED
    <2>1. CASE \E t \in Tasks : Claim(r, t) \/ ClaimChild(r, t)
      BY <1>9, <1>10, <2>1, Rows DEF HarnessTypeOK, RunnerRows, RunnerStates, ChainRows,
         ChainStates, Attempts, Calls, Grants, Endings
    <2> QED
      BY <1>4, <1>5, <1>6, <1>7, <1>8, <1>11, <1>12, <1>13, <2>1 DEF RunnerStep

LEMMA SweepTypes ==
    ASSUME HarnessTypeOK, SweepStep
    PROVE  HarnessTypeOK'
  <1>0. /\ TasksTypeOK
        /\ runner \in [Runners -> RunnerRows] /\ chain \in [Roots -> ChainRows]
        /\ claims \subseteq Tasks \X Attempts
        /\ call \in [Runners -> Calls] /\ grant \in [Runners -> Grants]
        /\ ending \in [Runners -> Endings] /\ sweep \in [Sweepers -> Grants]
    BY Rows
  <1> SUFFICES
        /\ TasksTypeOK'
        /\ runner' \in [Runners -> RunnerRows] /\ chain' \in [Roots -> ChainRows]
        /\ claims' \subseteq Tasks \X Attempts
        /\ call' \in [Runners -> Calls] /\ grant' \in [Runners -> Grants]
        /\ ending' \in [Runners -> Endings] /\ sweep' \in [Sweepers -> Grants]
    BY DEF HarnessTypeOK, RunnerRows, RunnerStates, ChainRows, ChainStates, Attempts, Calls,
           Grants, Endings
  <1>1. NoGrant \in Grants
    BY RunnersAssumption DEF NoGrant, Grants
  <1>2. UNCHANGED taskVars => TasksTypeOK'
    BY <1>0 DEF taskVars, TasksTypeOK
  <1>3. ASSUME NEW s \in Sweepers, NEW c \in Roots, ReadFencing(s, c)
        PROVE  sweep' \in [Sweepers -> Grants]
    <2>1. [chain |-> c, attempt |-> chain[c].attempt] \in Grants
      BY <1>0 DEF ChainRows, Attempts, Grants
    <2> QED
      BY <1>0, <1>3, <2>1 DEF ReadFencing
  <1>4. CASE \E s \in Sweepers, c \in Roots : ReadFencing(s, c)
    <2>1. PICK s \in Sweepers, c \in Roots : ReadFencing(s, c)
      BY <1>4
    <2> QED
      BY <1>0, <1>2, <1>3, <2>1 DEF ReadFencing
  <1>5. CASE \E s \in Sweepers : \E ok \in BOOLEAN : SetFenceResult(s, ok)
    <2>1. PICK s \in Sweepers, ok \in BOOLEAN : SetFenceResult(s, ok)
      BY <1>5
    <2>2. chain' \in [Roots -> ChainRows]
      BY <2>1, ResultRow
    <2> QED
      BY <1>0, <1>1, <1>2, <2>1, <2>2 DEF SetFenceResult
  <1>6. CASE \E c \in Roots : Requeue(c)
    <2>1. PICK c \in Roots : Requeue(c)
      BY <1>6
    <2>2. /\ status' \in [Tasks -> Statuses] /\ session' \in [Tasks -> [Keys -> SessionStates]]
          /\ runner' \in [Runners -> RunnerRows] /\ chain' \in [Roots -> ChainRows]
      BY <2>1, RequeueRow
    <2>3. UNCHANGED <<control, request, opening, claims, call, grant, ending, sweep>>
      BY <2>1 DEF Requeue, RequeueChain
    <2> QED
      BY <1>0, <2>2, <2>3 DEF TasksTypeOK, SessionStates
  <1> QED
    BY <1>4, <1>5, <1>6 DEF SweepStep

LEMMA HarnessStepTypes ==
    ASSUME HarnessTypeOK, [HarnessNext]_vars
    PROVE  HarnessTypeOK'
  <1>1. CASE UNCHANGED vars
    BY <1>1 DEF vars, harnessVars, taskVars, HarnessTypeOK, TasksTypeOK
  <1>2. CASE \E t \in Tasks : \/ TaskStep(t) /\ UNCHANGED harnessVars
                              \/ \E k \in Keys : OpenBy(t, k)
    <2>1. TasksTypeOK' /\ UNCHANGED harnessVars
      BY <1>2, StepTypes, SendTypes DEF OpenBy, HarnessTypeOK
    <2> QED
      BY <2>1 DEF HarnessTypeOK, harnessVars
  <1> QED
    BY <1>1, <1>2, RunnerTypes, SweepTypes DEF HarnessNext

(* Every variable keeps its type, and no attempt goes past its bound.       *)
THEOREM HarnessTyping == HarnessSpec => []HarnessTypeOK
<1>1. HarnessInit => HarnessTypeOK
  BY InitTypes, RunnersAssumption
     DEF HarnessInit, HarnessTypeOK, NoCall, NoGrant, NoEnding, Pinned
<1> QED
  BY <1>1, HarnessStepTypes, PTL DEF HarnessSpec
-----------------------------------------------------------------------------
(* What a runner has and asks for. One that polls, or waits for the answer  *)
(* to its claim, has no token yet; a token is for the chain of its row.     *)
RunnerInv(r) ==
    /\ runner[r].state \in {"absent", "idle"} => runner[r].chain = Nobody /\ grant[r] = NoGrant
    /\ runner[r].state \in {"busy", "fenced"} => runner[r].chain \in Roots
    /\ call[r].at = "poll" => grant[r] = NoGrant
    /\ call[r].at = "deliver" =>
          /\ call[r].task \in Tasks /\ call[r].chain \in Roots /\ call[r].attempt > 0
          /\ runner[r].state \notin {"absent", "idle"}
          /\ IF call[r].pinned THEN grant[r] = NoGrant /\ runner[r].chain = call[r].chain
                               ELSE grant[r].chain = call[r].chain
    /\ grant[r] # NoGrant => grant[r].chain \in Roots
    /\ ending[r].on = FALSE => ending[r] = NoEnding

(* A chain has the runner that has the chain; a free one has none; one that *)
(* was claimed has a task, and a done one no open task.                     *)
ChainInv(c) ==
    /\ chain[c].state \in {"none", "queued"} => chain[c].runner = Nobody
    /\ chain[c].state \in Pinned => chain[c].runner \in Runners
    /\ chain[c].runner \in Runners =>
          /\ runner[chain[c].runner].chain = c
          /\ runner[chain[c].runner].state \notin {"absent", "idle"}
    /\ chain[c].state # "none" => status[c] # "absent"
    /\ chain[c].state = "done" => ~ChainOpen(c)

(* Work in progress is of the runner that the chain is pinned to, with the  *)
(* token it has for that chain.                                             *)
PinnedTo(c, r) ==
    chain[c].state \in Pinned /\ chain[c].runner = r /\ grant[r].chain = c

WorkInv(t) ==
    /\ \A r \in Runners : session[t][r] = "open" => PinnedTo(Chain(t), r)
    /\ opening[t] # Nothing => /\ opening[t].at # "none" /\ status[t] # "absent"
                               /\ Working(t) => PinnedTo(Chain(t), opening[t].key)

SweepInv(s) == sweep[s] # NoGrant => sweep[s].chain \in Roots

HarnessInv ==
    /\ \A t \in Tasks : TaskInv(t) /\ WorkInv(t)
    /\ \A r \in Runners : RunnerInv(r)
    /\ \A c \in Roots : ChainInv(c)
    /\ \A s \in Sweepers : SweepInv(s)

(* A step of a task: a session opens for the opening that was counted, an   *)
(* opening goes on or ends, and a task is made or ends.                     *)
LEMMA WorkSteps ==
    ASSUME TasksTypeOK, NEW t \in Tasks, TaskInv(t), TaskStep(t)
    PROVE  /\ \A k \in Keys : session'[t][k] = "open" =>
                 session[t][k] = "open" \/ (opening[t].at = "counted" /\ opening[t].key = k)
           /\ \/ opening'[t] = Nothing
              \/ /\ opening[t] # Nothing /\ opening'[t].key = opening[t].key
                 /\ opening[t].at # "none" => opening'[t].at # "none"
           /\ status'[t] # "absent"
                \/ (status[t] = "absent" /\ opening'[t] \in {opening[t], Nothing})
           /\ status[t] # "absent" => status'[t] # "absent"
           /\ Working(t)' => Working(t) \/ Create(t)
  <1> USE DEF Working, TasksTypeOK
  <1>1. CASE Create(t)
    BY <1>1 DEF Create
  <1>2. ASSUME NEW c \in Commands, SetControl(t, c)
        PROVE  /\ UNCHANGED <<session, opening>> /\ Working(t) /\ status'[t] # "absent"
    <2>1. c \in {"run", "pause", "cancel"}
      BY TasksAssumption
    <2>2. UNCHANGED <<session, opening>> /\ Working(t) /\ status'[t] = Controlled(t, c)
      BY <1>2 DEF SetControl
    <2> QED
      BY <2>1, <2>2 DEF Controlled, IdleStatus
  <1>3. CASE LockTask(t) \/ CountSessions(t) \/ BreakOpen(t)
    <2>1. UNCHANGED <<status, session>>
      BY <1>3 DEF LockTask, CountSessions, BreakOpen
    <2>2. \/ opening'[t] = Nothing
          \/ /\ opening'[t] \in {[opening[t] EXCEPT !.at = "locked"],
                                [opening[t] EXCEPT !.at = "counted"]}
             /\ opening[t].at \in {"sent", "locked"}
      BY <1>3 DEF LockTask, CountSessions, BreakOpen
    <2>3. \/ opening'[t] = Nothing
          \/ /\ opening[t] # Nothing /\ opening'[t].key = opening[t].key
             /\ opening'[t].at # "none"
      BY <2>2 DEF Nothing
    <2>4. status[t] = "absent" => opening'[t] \in {opening[t], Nothing}
      BY <1>3 DEF LockTask, CountSessions, BreakOpen, TaskInv, Free
    <2> QED
      BY <2>1, <2>3, <2>4
  <1>4. CASE InsertSession(t)
    <2>1. \A k \in Keys : session'[t][k] = "open" =>
                 session[t][k] = "open" \/ (opening[t].at = "counted" /\ opening[t].key = k)
      BY <1>4 DEF InsertSession
    <2>2. opening'[t] = Nothing /\ Working(t)
      BY <1>4 DEF InsertSession, TaskInv, Free
    <2>3. status'[t] \in {status[t], "running"}
      BY <1>4 DEF InsertSession
    <2> QED
      BY <2>1, <2>2, <2>3
  <1>5. ASSUME NEW k \in Keys, CloseSession(t, k)
        PROVE  /\ UNCHANGED opening /\ Working(t) /\ status'[t] # "absent"
               /\ \A j \in Keys : session'[t][j] = "open" => session[t][j] = "open"
    BY <1>5 DEF CloseSession
  <1>6. ASSUME NEW q \in Requests, OpenRequest(t, q) \/ ResolveRequest(t, q)
        PROVE  /\ UNCHANGED <<session, opening>> /\ Working(t) /\ status'[t] # "absent"
    <2>1. UNCHANGED <<session, opening>> /\ Working(t)
          /\ status'[t] \in {"blocked", status[t], Resolved(t)}
      BY <1>6 DEF OpenRequest, ResolveRequest
    <2>2. control[t] \in {"run", "pause", "cancel"}
      BY DEF Controls
    <2> QED
      BY <2>1, <2>2 DEF Resolved, IdleStatus
  <1>7. ASSUME NEW q \in Requests, LapseRequest(t, q)
        PROVE  UNCHANGED <<status, session, opening>>
    BY <1>7 DEF LapseRequest
  <1>8. CASE SetOutcome(t) \/ ExceedCeiling(t)
    BY <1>8, Closing
  <1>9. UNCHANGED opening => opening'[t] = opening[t]
    OBVIOUS
  <1>10. opening[t] = Nothing \/ opening[t] # Nothing
    OBVIOUS
  <1> QED
    BY <1>1, <1>2, <1>3, <1>4, <1>5, <1>6, <1>7, <1>8, <1>9, <1>10 DEF TaskStep
LEMMA TaskStepKeeps ==
    ASSUME HarnessTypeOK, HarnessInv, NEW t \in Tasks, TaskStep(t), UNCHANGED harnessVars
    PROVE  HarnessInv'
  <1>0. TasksTypeOK /\ UNCHANGED <<runner, chain, claims, call, grant, ending, sweep>>
    BY DEF HarnessTypeOK, harnessVars
  <1>1. TaskInv(t) /\ WorkInv(t)
    BY DEF HarnessInv
  <1>2. \A u \in Tasks \ {t} : /\ status'[u] = status[u] /\ control'[u] = control[u]
                               /\ session'[u] = session[u] /\ request'[u] = request[u]
                               /\ opening'[u] = opening[u]
    BY <1>0, OthersStay
  <1>3. \A c \in Roots, r \in Runners : PinnedTo(c, r)' = PinnedTo(c, r)
    BY <1>0 DEF PinnedTo
  <1>4. ASSUME NEW u \in Tasks PROVE TaskInv(u)' /\ WorkInv(u)'
    <2>1. CASE u # t
      <3>1. TaskInv(u) /\ WorkInv(u)
        BY DEF HarnessInv
      <3>2. TaskInv(u)'
        BY <1>2, <2>1, <3>1 DEF TaskInv, Working, Free, SessionOpen, RequestOpen
      <3>3. WorkInv(u)'
        BY <1>0, <1>2, <2>1, <3>1 DEF WorkInv, Working, PinnedTo
      <3> QED
        BY <3>2, <3>3
    <2>2. TaskInv(t)'
      BY <1>0, <1>1, StepAgrees
    <2>3. \A k \in Keys : session'[t][k] = "open" => PinnedTo(Chain(t), k)
      <3> SUFFICES ASSUME NEW k \in Keys, session'[t][k] = "open" PROVE PinnedTo(Chain(t), k)
        OBVIOUS
      <3>1. session[t][k] = "open" \/ (opening[t].at = "counted" /\ opening[t].key = k)
        BY <1>0, <1>1, WorkSteps
      <3>2. session[t][k] = "open" => PinnedTo(Chain(t), k)
        BY <1>1, RunnersAssumption DEF WorkInv
      <3>3. opening[t].at = "counted" => opening[t] # Nothing /\ Working(t)
        BY <1>1 DEF TaskInv, Free, Nothing
      <3>4. opening[t].at = "counted" /\ opening[t].key = k => PinnedTo(Chain(t), k)
        BY <1>1, <3>3 DEF WorkInv
      <3> QED
        BY <3>1, <3>2, <3>4
    <2>4. opening'[t] # Nothing =>
              /\ opening'[t].at # "none" /\ status'[t] # "absent"
              /\ Working(t)' => PinnedTo(Chain(t), opening'[t].key)
      <3> SUFFICES ASSUME opening'[t] # Nothing
                   PROVE  /\ opening'[t].at # "none" /\ status'[t] # "absent"
                          /\ Working(t)' => PinnedTo(Chain(t), opening'[t].key)
        OBVIOUS
      <3>1. /\ opening[t] # Nothing /\ opening'[t].key = opening[t].key
            /\ opening[t].at # "none" => opening'[t].at # "none"
        BY <1>0, <1>1, WorkSteps
      <3>2. opening[t].at # "none" /\ status[t] # "absent"
            /\ (Working(t) => PinnedTo(Chain(t), opening[t].key))
        BY <1>1, <3>1 DEF WorkInv
      <3>3. status'[t] # "absent"
        BY <1>0, <1>1, <3>2, WorkSteps
      <3>4. Working(t)' => Working(t)
        BY <1>0, <1>1, <3>2, WorkSteps DEF Create
      <3> QED
        BY <3>1, <3>2, <3>3, <3>4
    <2>5. WorkInv(t)'
      BY <1>0, <2>3, <2>4, RunnersAssumption DEF WorkInv, PinnedTo
    <2> QED
      BY <2>1, <2>2, <2>5
  <1>5. ASSUME NEW c \in Roots PROVE ChainInv(c)'
    <2>1. ChainInv(c)
      BY DEF HarnessInv
    <2>2. c \in Tasks /\ Chain(c) = c /\ c # Nobody
      BY ChainIsRoot
    <2>3. status[c] # "absent" => status'[c] # "absent"
      BY <1>0, <1>1, <1>2, <2>2, WorkSteps
    <2>4. ASSUME chain[c].state = "done" PROVE ~ChainOpen(c)'
      <3>1. ~ChainOpen(c) /\ status[c] # "absent"
        BY <2>1, <2>4 DEF ChainInv
      <3> SUFFICES ASSUME NEW u \in Tasks, Chain(u) = c, Working(u)' PROVE FALSE
        BY DEF ChainOpen, TasksOf
      <3>2. ~Working(u)
        BY <3>1 DEF ChainOpen, TasksOf
      <3>3. u = t
        BY <1>2, <3>2 DEF Working
      <3>4. Create(t)
        BY <1>0, <1>1, <3>2, <3>3, WorkSteps
      <3>5. CASE Parent[t] = Nobody
        BY <3>1, <3>3, <3>4, <3>5 DEF Create, Chain
      <3>6. CASE Parent[t] # Nobody
        <4>1. Working(Parent[t])
          BY <3>4, <3>6 DEF Create
        <4>2. Parent[t] \in Tasks /\ Chain(Parent[t]) = c
          BY <3>3, <3>6, ChainIsRoot
        <4> QED
          BY <3>1, <4>1, <4>2 DEF ChainOpen, TasksOf
      <3> QED
        BY <3>5, <3>6
    <2> QED
      BY <1>0, <2>1, <2>3, <2>4 DEF ChainInv
  <1>6. \A r \in Runners : RunnerInv(r)'
    BY <1>0 DEF HarnessInv, RunnerInv
  <1>7. \A s \in Sweepers : SweepInv(s)'
    BY <1>0 DEF HarnessInv, SweepInv
  <1> QED
    BY <1>4, <1>5, <1>6, <1>7 DEF HarnessInv

LEMMA OpenByKeeps ==
    ASSUME HarnessTypeOK, HarnessInv, NEW t \in Tasks, NEW k \in Keys, OpenBy(t, k)
    PROVE  HarnessInv'
  <1>0. TasksTypeOK /\ SendOpen(t, k)
        /\ UNCHANGED <<runner, chain, claims, call, grant, ending, sweep>>
    BY DEF HarnessTypeOK, harnessVars, OpenBy
  <1>1. TaskInv(t) /\ WorkInv(t)
    BY DEF HarnessInv
  <1>2. UNCHANGED <<status, control, session, request>> /\ Working(t)
        /\ opening'[t] = [at |-> "sent", key |-> k]
        /\ \A u \in Tasks \ {t} : opening'[u] = opening[u]
    BY <1>0 DEF SendOpen, TasksTypeOK
  <1>3. PinnedTo(Chain(t), k)
    BY DEF OpenBy, Current, Holds, PinnedTo, Pinned
  <1>4. ASSUME NEW u \in Tasks PROVE TaskInv(u)' /\ WorkInv(u)'
    <2>1. TaskInv(u) /\ WorkInv(u)
      BY DEF HarnessInv
    <2>2. CASE u # t
      <3>1. TaskInv(u)'
        BY <1>2, <2>1, <2>2 DEF TaskInv, Working, Free, SessionOpen, RequestOpen
      <3>2. WorkInv(u)'
        BY <1>0, <1>2, <2>1, <2>2 DEF WorkInv, Working, PinnedTo
      <3> QED
        BY <3>1, <3>2
    <2>3. CASE u = t
      <3>1. TaskInv(t)'
        BY <1>0, <1>1, StepAgrees
      <3>2. WorkInv(t)'
        BY <1>0, <1>1, <1>2, <1>3 DEF WorkInv, Working, PinnedTo
      <3> QED
        BY <2>3, <3>1, <3>2
    <2> QED
      BY <2>2, <2>3
  <1>5. \A c \in Roots : ChainInv(c)'
    BY <1>0, <1>2 DEF HarnessInv, ChainInv, ChainOpen, Working
  <1>6. \A r \in Runners : RunnerInv(r)'
    BY <1>0 DEF HarnessInv, RunnerInv
  <1>7. \A s \in Sweepers : SweepInv(s)'
    BY <1>0 DEF HarnessInv, SweepInv
  <1> QED
    BY <1>4, <1>5, <1>6, <1>7 DEF HarnessInv
(* The work on a task stays pinned as long as what it is pinned to stays.   *)
LEMMA WorkStays ==
    ASSUME UNCHANGED taskVars, NEW t \in Tasks, TaskInv(t), WorkInv(t),
           Working(t) =>
              \A r \in Runners : PinnedTo(Chain(t), r) => PinnedTo(Chain(t), r)'
    PROVE  TaskInv(t)' /\ WorkInv(t)'
  <1>1. TaskInv(t)'
    BY DEF taskVars, TaskInv, Working, Free, SessionOpen, RequestOpen
  <1>2. \A k \in Keys : session[t][k] = "open" => Working(t)
    BY DEF TaskInv, Working, SessionOpen
  <1>3. opening[t].at # "none" => opening[t].key \in Runners
    BY RunnersAssumption DEF TaskInv
  <1>4. \A k \in Runners : session'[t][k] = "open" => PinnedTo(Chain(t), k)'
    BY <1>2, RunnersAssumption DEF WorkInv, taskVars
  <1>5. opening[t] # Nothing =>
            /\ opening[t].at # "none" /\ status[t] # "absent"
            /\ Working(t) => PinnedTo(Chain(t), opening[t].key)'
    BY <1>3 DEF WorkInv, PinnedTo, taskVars
  <1>6. opening' = opening /\ status' = status /\ (Working(t)' = Working(t))
    BY DEF taskVars, Working
  <1> QED
    BY <1>1, <1>4, <1>5, <1>6, RunnersAssumption DEF WorkInv, PinnedTo

(* A step of one runner leaves what the others have.                        *)
LEMMA OthersKeep ==
    ASSUME NEW s \in Runners, RunnerInv(s),
           runner'[s] = runner[s], call'[s] = call[s], grant'[s] = grant[s],
           ending'[s] = ending[s]
    PROVE  RunnerInv(s)'
  BY DEF RunnerInv

(* The steps of a runner that are no business of its chain.                 *)
LEMMA QuietRunnerKeeps ==
    ASSUME HarnessTypeOK, HarnessInv, NEW r \in Runners,
           \/ Register(r) \/ Poll(r) \/ PollEnds(r) \/ LoseClaim(r) \/ SendFinish(r)
           \/ Deliver(r)
           \/ \E t \in Tasks : ClaimChild(r, t)
           \/ ReleaseClaim(r) /\ ~call[r].pinned
    PROVE  HarnessInv'
  <1> USE DEF Register, Poll, PollEnds, LoseClaim, SendFinish, Deliver, ClaimChild, ReleaseClaim
  <1>0. /\ runner \in [Runners -> RunnerRows] /\ chain \in [Roots -> ChainRows]
        /\ call \in [Runners -> Calls] /\ grant \in [Runners -> Grants]
        /\ ending \in [Runners -> Endings]
    BY Rows
  <1>1. UNCHANGED taskVars /\ chain' = chain /\ sweep' = sweep
    OBVIOUS
  <1>2. RunnerInv(r)
    BY DEF HarnessInv
  <1>3. \A s \in Runners \ {r} : /\ runner'[s] = runner[s] /\ call'[s] = call[s]
                                 /\ grant'[s] = grant[s] /\ ending'[s] = ending[s]
    BY <1>0
  <1>4. \/ runner' = runner
        \/ runner[r].state = "absent" /\ runner'[r] = [runner[r] EXCEPT !.state = "idle"]
    BY <1>0
  <1>5. grant' = grant \/ (call[r].at = "deliver"
             /\ grant'[r] = [chain |-> call[r].chain, attempt |-> call[r].attempt])
    BY <1>0
  <1>6. RunnerInv(r)'
    <2> USE DEF RunnerInv
    <2>1. CASE Register(r)
      <3>1. runner'[r] = [runner[r] EXCEPT !.state = "idle"] /\ runner[r].state = "absent"
            /\ UNCHANGED <<call, grant, ending>>
        BY <1>0, <2>1
      <3>2. runner'[r].state = "idle" /\ runner'[r].chain = runner[r].chain
        BY <1>0, <3>1 DEF RunnerRows
      <3> QED
        BY <1>2, <3>1, <3>2
    <2>2. CASE Poll(r)
      <3>1. call'[r] = [call[r] EXCEPT !.at = "poll"] /\ runner[r].state = "idle"
            /\ UNCHANGED <<runner, grant, ending>>
        BY <1>0, <2>2
      <3>2. call'[r].at = "poll"
        BY <1>0, <3>1 DEF Calls
      <3> QED
        BY <1>2, <3>1, <3>2
    <2>3. CASE PollEnds(r) \/ LoseClaim(r) \/ (ReleaseClaim(r) /\ ~call[r].pinned)
      <3>1. call'[r] \in {NoCall, Unanswered(r)} /\ UNCHANGED <<runner, grant, ending>>
        BY <1>0, <2>3
      <3>2. call'[r].at \in {"none", "gone"}
        BY <3>1 DEF NoCall, Unanswered
      <3> QED
        BY <1>2, <3>1, <3>2
    <2>4. CASE SendFinish(r)
      <3>1. ending'[r].on = TRUE /\ UNCHANGED <<runner, call, grant>>
        BY <1>0, <2>4
      <3> QED
        BY <1>2, <3>1
    <2>5. CASE Deliver(r)
      <3>1. /\ grant'[r] = [chain |-> call[r].chain, attempt |-> call[r].attempt]
            /\ call'[r] = NoCall /\ call[r].at = "deliver" /\ UNCHANGED <<runner, ending>>
        BY <1>0, <2>5
      <3> QED
        BY <1>2, <3>1 DEF NoCall
    <2>6. ASSUME NEW t \in Tasks, ClaimChild(r, t) PROVE RunnerInv(r)'
      <3>1. /\ call'[r] = [at |-> "deliver", task |-> t, chain |-> Chain(t),
                           attempt |-> chain[Chain(t)].attempt, pinned |-> FALSE]
            /\ grant[r].chain = Chain(t) /\ Live(r)
            /\ UNCHANGED <<runner, grant, ending>>
        BY <1>0, <2>6
      <3>2. Chain(t) \in Roots /\ Chain(t) # Nobody
        BY ChainIsRoot
      <3>3. chain[Chain(t)].attempt > 0
        BY <1>0, <3>2 DEF ChainRows, Attempts
      <3>4. runner[r].state # "absent" /\ runner[r].state # "idle"
        BY <1>2, <3>1, <3>2 DEF Live, NoGrant
      <3> QED
        BY <1>2, <3>1, <3>2, <3>3, <3>4
    <2> QED
      BY <2>1, <2>2, <2>3, <2>4, <2>5, <2>6
  <1>7. ASSUME NEW s \in Runners PROVE RunnerInv(s)'
    BY <1>3, <1>6, OthersKeep DEF HarnessInv
  <1>8. ASSUME NEW c \in Roots PROVE ChainInv(c)'
    <2>1. ChainInv(c) /\ (status'[c] = status[c])
      BY <1>1 DEF HarnessInv, taskVars
    <2>2. ChainOpen(c)' = ChainOpen(c)
      BY <1>1 DEF ChainOpen, Working, taskVars
    <2>3. chain[c].runner \in Runners => runner'[chain[c].runner] = runner[chain[c].runner]
      BY <1>3, <1>4, <2>1 DEF ChainInv
    <2> QED
      BY <1>1, <2>1, <2>2, <2>3 DEF ChainInv
  <1>9. ASSUME NEW c \in Roots, NEW s \in Runners, PinnedTo(c, s) PROVE PinnedTo(c, s)'
    <2>1. CASE grant'[s] = grant[s]
      BY <1>1, <1>9, <2>1 DEF PinnedTo
    <2>2. CASE grant'[s] # grant[s]
      <3>1. s = r /\ call[r].at = "deliver" /\ grant'[r].chain = call[r].chain
        BY <1>3, <1>5, <2>2
      <3>2. grant[r].chain = c /\ c # Nobody
        BY <1>9, <3>1, ChainIsRoot DEF PinnedTo
      <3>3. grant[r] # NoGrant
        BY <3>2 DEF NoGrant
      <3>4. call[r].chain = grant[r].chain
        BY <1>2, <3>1, <3>3 DEF RunnerInv
      <3> QED
        BY <1>1, <1>9, <3>1, <3>2, <3>4 DEF PinnedTo
    <2> QED
      BY <2>1, <2>2
  <1>10. ASSUME NEW t \in Tasks PROVE TaskInv(t)' /\ WorkInv(t)'
    <2>1. TaskInv(t) /\ WorkInv(t) /\ Chain(t) \in Roots
      BY ChainIsRoot DEF HarnessInv
    <2> QED
      BY <1>1, <1>9, <2>1, WorkStays
  <1>11. \A s \in Sweepers : SweepInv(s)'
    BY <1>1 DEF HarnessInv, SweepInv
  <1> QED
    BY <1>7, <1>8, <1>10, <1>11 DEF HarnessInv
(* A claim takes a chain that is free, for a runner that has nothing.       *)
LEMMA ClaimKeeps ==
    ASSUME HarnessTypeOK, HarnessInv, NEW r \in Runners, NEW t \in Tasks, Claim(r, t)
    PROVE  HarnessInv'
  <1> DEFINE c == Chain(t)
  <1>0. /\ runner \in [Runners -> RunnerRows] /\ chain \in [Roots -> ChainRows]
        /\ call \in [Runners -> Calls] /\ c \in Roots /\ c # Nobody /\ c \in Tasks
    BY Rows, ChainIsRoot
  <1>1. UNCHANGED taskVars /\ UNCHANGED <<grant, ending, sweep>>
        /\ call[r].at = "poll" /\ runner[r].state = "idle" /\ Claimable(t)
    BY DEF Claim
  <1>2. /\ chain'[c].state = "running" /\ chain'[c].runner = r
        /\ \A d \in Roots \ {c} : chain'[d] = chain[d]
    BY ClaimRow
  <1>3. /\ runner'[r] = [state |-> "busy", chain |-> c]
        /\ \A s \in Runners \ {r} : runner'[s] = runner[s] /\ call'[s] = call[s]
        /\ call'[r] = [at |-> "deliver", task |-> t, chain |-> c,
                       attempt |-> chain[c].attempt, pinned |-> TRUE]
    BY ClaimRow
  <1>4. RunnerInv(r) /\ ChainInv(c)
    BY <1>0 DEF HarnessInv
  <1>5. chain[c].state \in {"none", "queued"} /\ chain[c].runner = Nobody
    BY <1>1, <1>4 DEF Claimable, ChainInv
  <1>6. status[c] # "absent"
    <2>1. CASE chain[c].state = "none"
      BY <1>1, <2>1 DEF Claimable, Chain
    <2>2. CASE chain[c].state = "queued"
      BY <1>4, <2>2 DEF ChainInv
    <2> QED
      BY <1>5, <2>1, <2>2
  <1>7. chain[c].attempt > 0
    BY <1>0 DEF ChainRows, Attempts
  <1> HIDE DEF c
  <1>8. RunnerInv(r)'
    BY <1>0, <1>1, <1>3, <1>4, <1>7 DEF RunnerInv
  <1>9. ASSUME NEW s \in Runners PROVE RunnerInv(s)'
    <2>1. CASE s # r
      BY <1>1, <1>3, <2>1, OthersKeep DEF HarnessInv
    <2> QED
      BY <1>8, <2>1
  <1>10. ASSUME NEW d \in Roots PROVE ChainInv(d)'
    <2>1. ChainOpen(d)' = ChainOpen(d) /\ ChainInv(d) /\ status'[d] = status[d]
      BY <1>1 DEF ChainOpen, Working, taskVars, HarnessInv
    <2>2. CASE d = c
      BY <1>0, <1>1, <1>2, <1>3, <1>6, <2>1, <2>2 DEF ChainInv, Pinned
    <2>3. CASE d # c
      <3>1. chain[d].runner # r
        BY <1>1, <2>1 DEF ChainInv
      <3> QED
        BY <1>2, <1>3, <2>1, <2>3, <3>1 DEF ChainInv
    <2> QED
      BY <2>2, <2>3
  <1>11. ASSUME NEW d \in Roots, NEW s \in Runners, PinnedTo(d, s) PROVE PinnedTo(d, s)'
    BY <1>1, <1>2, <1>5, <1>11 DEF PinnedTo, Pinned
  <1>12. ASSUME NEW u \in Tasks PROVE TaskInv(u)' /\ WorkInv(u)'
    <2>1. TaskInv(u) /\ WorkInv(u) /\ Chain(u) \in Roots
      BY ChainIsRoot DEF HarnessInv
    <2> QED
      BY <1>1, <1>11, <2>1, WorkStays
  <1>13. \A s \in Sweepers : SweepInv(s)'
    BY <1>1 DEF HarnessInv, SweepInv
  <1> QED
    BY <1>9, <1>10, <1>12, <1>13 DEF HarnessInv

(* A claim that is given up: nothing has begun on its chain.                *)
LEMMA ReleaseKeeps ==
    ASSUME HarnessTypeOK, HarnessInv, NEW r \in Runners, ReleaseClaim(r), call[r].pinned
    PROVE  HarnessInv'
  <1> DEFINE c == call[r].chain
  <1>0. /\ runner \in [Runners -> RunnerRows] /\ chain \in [Roots -> ChainRows]
        /\ call \in [Runners -> Calls]
    BY Rows
  <1>1. UNCHANGED taskVars /\ UNCHANGED <<grant, ending, sweep>> /\ call[r].at = "deliver"
    BY DEF ReleaseClaim
  <1>2. RunnerInv(r)
    BY DEF HarnessInv
  <1>3. /\ c \in Roots /\ grant[r] = NoGrant /\ runner[r].chain = c
        /\ runner[r].state \notin {"absent", "idle"}
    BY <1>1, <1>2 DEF RunnerInv
  <1>4. c \in Tasks /\ c # Nobody
    BY <1>3, ChainIsRoot
  <1>5. /\ \A d \in Roots \ {c} : chain'[d] = chain[d]
        /\ chain[c].runner # r => chain' = chain
        /\ chain[c].runner = r =>
                 /\ chain'[c].state = IF ChainOpen(c) THEN "queued" ELSE "done"
                 /\ chain'[c].runner = Nobody
        /\ \A s \in Runners \ {r} : runner'[s] = runner[s]
        /\ IF runner[r].state = "busy" THEN runner'[r] = [state |-> "idle", chain |-> Nobody]
                                       ELSE runner'[r] = runner[r]
    BY <1>3, ReleaseRow
  <1>6. call'[r] \in {Unanswered(r), [NoCall EXCEPT !.at = "poll"]}
        /\ \A s \in Runners \ {r} : call'[s] = call[s]
    BY <1>0 DEF ReleaseClaim
  <1>7. call'[r].at \in {"none", "poll", "gone"}
    BY <1>6 DEF Unanswered, NoCall
  <1> HIDE DEF c
  <1>8. RunnerInv(r)'
    BY <1>1, <1>2, <1>3, <1>5, <1>7 DEF RunnerInv
  <1>9. ASSUME NEW s \in Runners PROVE RunnerInv(s)'
    <2>1. CASE s # r
      BY <1>1, <1>5, <1>6, <2>1, OthersKeep DEF HarnessInv
    <2> QED
      BY <1>8, <2>1
  <1>10. ASSUME NEW d \in Roots PROVE ChainInv(d)'
    <2>1. ChainOpen(d)' = ChainOpen(d) /\ ChainInv(d) /\ status'[d] = status[d]
      BY <1>1 DEF ChainOpen, Working, taskVars, HarnessInv
    <2>2. CASE d = c /\ chain[c].runner = r
      <3>1. status[c] # "absent"
        BY <2>1, <2>2, RunnersAssumption DEF ChainInv
      <3>2. chain'[c].state \in {"queued", "done"} /\ chain'[c].runner = Nobody
            /\ (chain'[c].state = "done" => ~ChainOpen(c))
        BY <1>5, <2>2
      <3> QED
        BY <2>1, <2>2, <3>1, <3>2, RunnersAssumption DEF ChainInv, Pinned
    <2>3. CASE chain[d].runner # r
      <3>1. chain'[d] = chain[d]
        BY <1>5, <2>3
      <3> QED
        BY <1>5, <2>1, <2>3, <3>1 DEF ChainInv
    <2>4. CASE d # c /\ chain[d].runner = r
      BY <1>3, <2>1, <2>4 DEF ChainInv
    <2> QED
      BY <2>2, <2>3, <2>4
  <1>11. ASSUME NEW d \in Roots, NEW s \in Runners, PinnedTo(d, s) PROVE PinnedTo(d, s)'
    <2>1. s # r
      BY <1>3, <1>11, ChainIsRoot DEF PinnedTo, NoGrant
    <2> QED
      BY <1>1, <1>5, <1>11, <2>1 DEF PinnedTo
  <1>12. ASSUME NEW u \in Tasks PROVE TaskInv(u)' /\ WorkInv(u)'
    <2>1. TaskInv(u) /\ WorkInv(u) /\ Chain(u) \in Roots
      BY ChainIsRoot DEF HarnessInv
    <2> QED
      BY <1>1, <1>11, <2>1, WorkStays
  <1>13. \A s \in Sweepers : SweepInv(s)'
    BY <1>1 DEF HarnessInv, SweepInv
  <1> QED
    BY <1>9, <1>10, <1>12, <1>13 DEF HarnessInv

(* The end of a runner, by its request or by its lease: its chain is done,  *)
(* or is fenced and stays pinned.                                           *)
LEMMA EndKeeps ==
    ASSUME HarnessTypeOK, HarnessInv, NEW r \in Runners, Finish(r) \/ Expire(r)
    PROVE  HarnessInv'
  <1>0. /\ runner \in [Runners -> RunnerRows] /\ chain \in [Roots -> ChainRows]
        /\ ending \in [Runners -> Endings]
    BY Rows
  <1>1. UNCHANGED taskVars /\ UNCHANGED <<call, grant, sweep>>
    BY DEF Finish, Expire
  <1>2. RunnerInv(r)
    BY DEF HarnessInv
  <1>3. \A s \in Runners \ {r} : ending'[s] = ending[s]
    BY <1>0 DEF Finish, Expire
  <1>4. ending'[r] \in {ending[r], NoEnding}
    BY <1>0 DEF Finish, Expire
  <1>5. /\ \A s \in Runners \ {r} : runner'[s] = runner[s]
        /\ runner'[r].chain = runner[r].chain
        /\ runner'[r].state \in {"offline", "fenced"}
        /\ runner'[r].state = "fenced" => runner[r].chain \in Roots
    <2>1. CASE Expire(r)
      BY <2>1, ExpireRow
    <2>2. CASE Finish(r)
      <3>1. runner'[r].state \in {"offline", "fenced"}
        BY <2>2, FinishRow
      <3>2. runner'[r].state = "fenced" =>
                ending[r].chain \in Roots /\ Holds(r, ending[r].chain)
        BY <2>2, FinishRow
      <3>3. ending[r].chain \in Roots /\ Holds(r, ending[r].chain)
                => runner[r].chain = ending[r].chain
        BY DEF HarnessInv, ChainInv, Holds
      <3>4. /\ \A s \in Runners \ {r} : runner'[s] = runner[s]
            /\ runner'[r].chain = runner[r].chain
        BY <2>2, FinishRow
      <3> QED
        BY <3>1, <3>2, <3>3, <3>4
    <2> QED
      BY <2>1, <2>2
  <1>6. \/ chain' = chain
        \/ \E c \in Roots :
              /\ Holds(r, c) /\ chain'[c].runner = r
              /\ \A d \in Roots \ {c} : chain'[d] = chain[d]
              /\ \/ chain'[c].state = "fencing"
                 \/ chain'[c].state = "done" /\ ~ChainOpen(c)
    <2>1. CASE Expire(r)
      <3>1. chain' = chain \/ (runner[r].chain \in Roots /\ Holds(r, runner[r].chain)
                               /\ chain' = Fence(runner[r].chain))
        BY <2>1, ExpireRow
      <3>2. ASSUME NEW c \in Roots, chain' = Fence(c), Holds(r, c)
            PROVE  /\ chain'[c].runner = r /\ chain'[c].state = "fencing"
                   /\ \A d \in Roots \ {c} : chain'[d] = chain[d]
        BY <1>0, <3>2, FenceRow DEF Holds
      <3> QED
        BY <3>1, <3>2
    <2>2. CASE Finish(r)
      <3> DEFINE c == ending[r].chain
      <3>1. \/ chain' = chain
            \/ c \in Roots /\ Holds(r, c) /\ chain' = Fence(c)
            \/ /\ c \in Roots /\ Holds(r, c) /\ ~ChainOpen(c)
               /\ chain'[c] = [chain[c] EXCEPT !.state = "done"]
               /\ \A d \in Roots \ {c} : chain'[d] = chain[d]
        BY <2>2, FinishRow
      <3> HIDE DEF c
      <3>2. CASE c \in Roots /\ Holds(r, c) /\ chain' = Fence(c)
        <4>1. /\ chain'[c].runner = r /\ chain'[c].state = "fencing"
              /\ \A d \in Roots \ {c} : chain'[d] = chain[d]
          BY <1>0, <3>2, FenceRow DEF Holds
        <4> QED
          BY <3>2, <4>1
      <3>3. CASE /\ c \in Roots /\ Holds(r, c) /\ ~ChainOpen(c)
                 /\ chain'[c] = [chain[c] EXCEPT !.state = "done"]
                 /\ \A d \in Roots \ {c} : chain'[d] = chain[d]
        <4>1. chain'[c].state = "done" /\ chain'[c].runner = r
          BY <1>0, <3>3 DEF Holds, ChainRows
        <4> QED
          BY <3>3, <4>1
      <3> QED
        BY <3>1, <3>2, <3>3
    <2> QED
      BY <2>1, <2>2
  <1>6a. ASSUME NEW d \in Roots, chain'[d] # chain[d]
         PROVE  /\ Holds(r, d) /\ chain'[d].runner = r
                /\ \/ chain'[d].state = "fencing"
                   \/ chain'[d].state = "done" /\ ~ChainOpen(d)
    BY <1>6, <1>6a
  <1>7. RunnerInv(r)'
    BY <1>1, <1>2, <1>4, <1>5 DEF RunnerInv, NoEnding
  <1>8. ASSUME NEW s \in Runners PROVE RunnerInv(s)'
    <2>1. CASE s # r
      BY <1>1, <1>3, <1>5, <2>1, OthersKeep DEF HarnessInv
    <2> QED
      BY <1>7, <2>1
  <1>9. ASSUME NEW d \in Roots PROVE ChainInv(d)'
    <2>1. ChainOpen(d)' = ChainOpen(d) /\ ChainInv(d) /\ status'[d] = status[d]
      BY <1>1 DEF ChainOpen, Working, taskVars, HarnessInv
    <2>2. CASE chain'[d] = chain[d]
      BY <1>5, <2>1, <2>2 DEF ChainInv
    <2>3. CASE chain'[d] # chain[d]
      <3>1. /\ Holds(r, d) /\ chain'[d].runner = r
            /\ \/ chain'[d].state = "fencing"
               \/ chain'[d].state = "done" /\ ~ChainOpen(d)
        BY <1>6a, <2>3
      <3> QED
        BY <1>5, <2>1, <3>1 DEF ChainInv, Holds, Pinned
    <2> QED
      BY <2>2, <2>3
  <1>10. ASSUME NEW u \in Tasks PROVE TaskInv(u)' /\ WorkInv(u)'
    <2>1. TaskInv(u) /\ WorkInv(u) /\ Chain(u) \in Roots
      BY ChainIsRoot DEF HarnessInv
    <2>2. ASSUME Working(u), NEW s \in Runners, PinnedTo(Chain(u), s)
          PROVE  PinnedTo(Chain(u), s)'
      <3>1. ChainOpen(Chain(u))
        BY <2>2 DEF ChainOpen, TasksOf
      <3>2. \/ chain'[Chain(u)] = chain[Chain(u)]
            \/ /\ Holds(r, Chain(u)) /\ chain'[Chain(u)].runner = r
               /\ chain'[Chain(u)].state = "fencing"
        BY <1>6a, <2>1, <3>1
      <3> QED
        BY <1>1, <2>2, <3>2 DEF PinnedTo, Holds, Pinned
    <2> QED
      BY <1>1, <2>1, <2>2, WorkStays
  <1>11. \A s \in Sweepers : SweepInv(s)'
    BY <1>1 DEF HarnessInv, SweepInv
  <1> QED
    BY <1>8, <1>9, <1>10, <1>11 DEF HarnessInv
(* The sweep of a chain up to its fencers: it stays pinned.                 *)
LEMMA FencingKeeps ==
    ASSUME HarnessTypeOK, HarnessInv, NEW s \in Sweepers,
           (\E c \in Roots : ReadFencing(s, c)) \/ (\E ok \in BOOLEAN : SetFenceResult(s, ok))
    PROVE  HarnessInv'
  <1>0. chain \in [Roots -> ChainRows] /\ sweep \in [Sweepers -> Grants]
    BY Rows
  <1>1. UNCHANGED taskVars /\ UNCHANGED <<runner, claims, call, grant, ending>>
    BY DEF ReadFencing, SetFenceResult
  <1>2. \A z \in Sweepers \ {s} : sweep'[z] = sweep[z]
    BY <1>0 DEF ReadFencing, SetFenceResult
  <1>3. SweepInv(s)'
    <2>1. ASSUME NEW c \in Roots, ReadFencing(s, c) PROVE sweep'[s].chain \in Roots
      BY <1>0, <2>1 DEF ReadFencing
    <2>2. ASSUME NEW ok \in BOOLEAN, SetFenceResult(s, ok) PROVE sweep'[s] = NoGrant
      BY <1>0, <2>2 DEF SetFenceResult
    <2> QED
      BY <2>1, <2>2 DEF SweepInv
  <1>4. ASSUME NEW c \in Roots
        PROVE  /\ chain'[c].runner = chain[c].runner
               /\ chain'[c].state = chain[c].state
                    \/ (chain[c].state \in Pinned /\ chain'[c].state \in {"fencing", "stuck"})
    <2>1. CASE \E d \in Roots : ReadFencing(s, d)
      BY <2>1 DEF ReadFencing
    <2>2. ASSUME NEW ok \in BOOLEAN, SetFenceResult(s, ok)
          PROVE  /\ chain'[c].runner = chain[c].runner
                 /\ chain'[c].state = chain[c].state
                      \/ (chain[c].state \in Pinned /\ chain'[c].state \in {"fencing", "stuck"})
      <3>1. \/ chain'[c] = chain[c]
            \/ /\ chain[c].state \in {"fencing", "stuck"}
               /\ chain'[c] = [chain[c] EXCEPT !.state = IF ok THEN "fencing" ELSE "stuck",
                                               !.clean = ok]
        BY <2>2, ResultRow
      <3>2. chain[c] \in ChainRows
        BY <1>0
      <3> QED
        BY <3>1, <3>2 DEF ChainRows, Pinned
    <2> QED
      BY <2>1, <2>2
  <1>5. ASSUME NEW r \in Runners PROVE RunnerInv(r)'
    BY <1>1, OthersKeep DEF HarnessInv
  <1>6. ASSUME NEW c \in Roots PROVE ChainInv(c)'
    <2>1. ChainOpen(c)' = ChainOpen(c) /\ ChainInv(c) /\ status'[c] = status[c]
      BY <1>1 DEF ChainOpen, Working, taskVars, HarnessInv
    <2> QED
      BY <1>1, <1>4, <2>1 DEF ChainInv, Pinned
  <1>7. ASSUME NEW t \in Tasks PROVE TaskInv(t)' /\ WorkInv(t)'
    <2>1. TaskInv(t) /\ WorkInv(t) /\ Chain(t) \in Roots
      BY ChainIsRoot DEF HarnessInv
    <2>2. \A r \in Runners : PinnedTo(Chain(t), r) => PinnedTo(Chain(t), r)'
      BY <1>1, <1>4, <2>1 DEF PinnedTo, Pinned
    <2> QED
      BY <1>1, <2>1, <2>2, WorkStays
  <1>8. \A z \in Sweepers : SweepInv(z)'
    BY <1>2, <1>3 DEF HarnessInv, SweepInv
  <1> QED
    BY <1>5, <1>6, <1>7, <1>8 DEF HarnessInv

(* A chain goes back when no opening is under way: its tasks have no        *)
(* session, and a status that agrees with that.                             *)
LEMMA RequeueKeeps ==
    ASSUME HarnessTypeOK, HarnessInv, NEW c \in Roots, Requeue(c)
    PROVE  HarnessInv'
  <1>0. /\ TasksTypeOK /\ chain \in [Roots -> ChainRows] /\ runner \in [Runners -> RunnerRows]
        /\ c \in Tasks /\ Chain(c) = c
    BY Rows, ChainIsRoot
  <1>1. UNCHANGED <<control, request, opening, claims, call, grant, ending, sweep>>
        /\ GraceIsOver(c)
    BY DEF Requeue, RequeueChain
  <1>2. \A t \in Tasks :
            IF t \in TasksOf(c) /\ Working(t)
            THEN /\ status'[t] = Requeued(t)
                 /\ \A k \in Keys : session'[t][k] = IF session[t][k] = "open" THEN "closed"
                                                     ELSE session[t][k]
            ELSE status'[t] = status[t] /\ session'[t] = session[t]
    BY RequeueRow
  <1>3. /\ chain'[c].state \in {"queued", "done"} /\ chain'[c].runner = Nobody
        /\ chain'[c].state = "done" =>
              \A t \in TasksOf(c) : Working(t) => Requeued(t) = "closed"
        /\ \A d \in Roots \ {c} : chain'[d] = chain[d]
    BY RequeueRow
  <1>4. \A r \in Runners :
            /\ runner'[r].chain = runner[r].chain
            /\ \/ runner'[r] = runner[r]
               \/ runner[r].state = "fenced" /\ runner'[r].state = "offline"
    <2> SUFFICES ASSUME NEW r \in Runners
                 PROVE  /\ runner'[r].chain = runner[r].chain
                        /\ \/ runner'[r] = runner[r]
                           \/ runner[r].state = "fenced" /\ runner'[r].state = "offline"
      OBVIOUS
    <2>1. \/ runner'[r] = runner[r]
          \/ /\ runner[r].state = "fenced"
             /\ runner'[r] = [runner[r] EXCEPT !.state = "offline"]
      BY RequeueRow
    <2>2. runner[r] \in RunnerRows
      BY <1>0
    <2> QED
      BY <2>1, <2>2 DEF RunnerRows
  <1>5. ASSUME NEW r \in Runners PROVE RunnerInv(r)'
    BY <1>1, <1>4 DEF HarnessInv, RunnerInv
  <1>6. \A t \in Tasks : Requeued(t) # "absent"
    BY DEF Requeued
  <1>7. ASSUME NEW d \in Roots PROVE ChainInv(d)'
    <2>1. ChainInv(d)
      BY DEF HarnessInv
    <2>2. d \in Tasks /\ (status[d] # "absent" => status'[d] # "absent")
      BY <1>2, <1>6, ChainIsRoot
    <2>3. chain[d].state # "none" => status[d] # "absent"
      BY <2>1 DEF ChainInv
    <2>4. CASE d = c
      <3>1. chain[c].state # "none"
        BY DEF Requeue
      <3>2. ASSUME chain'[c].state = "done" PROVE ~ChainOpen(c)'
        <4> SUFFICES ASSUME NEW t \in TasksOf(c), Working(t)' PROVE FALSE
          BY DEF ChainOpen, TasksOf
        <4>1. t \in Tasks
          BY DEF TasksOf
        <4>2. CASE Working(t)
          BY <1>2, <1>3, <3>2, <4>1, <4>2 DEF Working
        <4>3. CASE ~Working(t)
          BY <1>2, <4>1, <4>3 DEF Working
        <4> QED
          BY <4>2, <4>3
      <3> QED
        BY <1>3, <2>2, <2>3, <2>4, <3>1, <3>2, RunnersAssumption DEF ChainInv, Pinned
    <2>5. CASE d # c
      <3>1. chain'[d] = chain[d]
        BY <1>3, <2>5
      <3>2. \A t \in TasksOf(d) : t \in Tasks /\ t \notin TasksOf(c)
        BY <2>5 DEF TasksOf
      <3>3. ChainOpen(d)' = ChainOpen(d)
        BY <1>2, <3>2 DEF ChainOpen, Working, TasksOf
      <3> QED
        BY <1>4, <2>1, <2>2, <2>3, <3>1, <3>3 DEF ChainInv
    <2> QED
      BY <2>4, <2>5
  <1>8. ASSUME NEW t \in Tasks, t \in TasksOf(c), Working(t) PROVE TaskInv(t)' /\ WorkInv(t)'
    <2>1. TaskInv(t) /\ opening[t] = Nothing /\ opening'[t] = Nothing
      BY <1>1, <1>8 DEF HarnessInv, GraceIsOver
    <2>2. status'[t] = Requeued(t) /\ \A k \in Keys : session'[t][k] # "open"
      BY <1>2, <1>8
    <2>3. ~SessionOpen(t)' /\ (RequestOpen(t)' = RequestOpen(t))
      BY <1>1, <2>2 DEF SessionOpen, RequestOpen
    <2>4. control'[t] = control[t] /\ control[t] \in {"run", "pause", "cancel"}
      BY <1>0, <1>1 DEF TasksTypeOK, Controls
    <2>5. TaskInv(t)'
      BY <2>1, <2>2, <2>3, <2>4 DEF TaskInv, Free, Working, Requeued, Nothing
    <2>6. WorkInv(t)'
      BY <2>1, <2>2, RunnersAssumption DEF WorkInv
    <2> QED
      BY <2>5, <2>6
  <1>9. ASSUME NEW t \in Tasks, ~(t \in TasksOf(c) /\ Working(t)) PROVE TaskInv(t)' /\ WorkInv(t)'
    <2>1. TaskInv(t) /\ WorkInv(t)
      BY DEF HarnessInv
    <2>2. /\ status'[t] = status[t] /\ session'[t] = session[t]
          /\ control'[t] = control[t] /\ request'[t] = request[t] /\ opening'[t] = opening[t]
      BY <1>1, <1>2, <1>9
    <2>3. TaskInv(t)'
      BY <2>1, <2>2 DEF TaskInv, Working, Free, SessionOpen, RequestOpen
    <2>4. CASE t \in TasksOf(c)
      <3>1. opening[t] = Nothing /\ \A k \in Keys : session[t][k] # "open"
        BY <1>1, <1>9, <2>1, <2>4 DEF TaskInv, Working, SessionOpen, GraceIsOver
      <3>2. WorkInv(t)'
        BY <2>2, <3>1, RunnersAssumption DEF WorkInv
      <3> QED
        BY <2>3, <3>2
    <2>5. CASE t \notin TasksOf(c)
      <3>1. Chain(t) \in Roots \ {c}
        BY <2>5, ChainIsRoot DEF TasksOf
      <3>2. chain'[Chain(t)] = chain[Chain(t)] /\ grant' = grant
        BY <1>1, <1>3, <3>1
      <3>3. WorkInv(t)'
        BY <2>1, <2>2, <3>2 DEF WorkInv, PinnedTo, Working
      <3> QED
        BY <2>3, <3>3
    <2> QED
      BY <2>4, <2>5
  <1>10. \A s \in Sweepers : SweepInv(s)'
    BY <1>1 DEF HarnessInv, SweepInv
  <1> QED
    BY <1>5, <1>7, <1>8, <1>9, <1>10 DEF HarnessInv

LEMMA HarnessKeeps ==
    ASSUME HarnessTypeOK, HarnessInv, [HarnessNext]_vars
    PROVE  HarnessInv'
  <1>1. CASE UNCHANGED vars
    BY <1>1 DEF vars, harnessVars, taskVars, HarnessInv, TaskInv, WorkInv, RunnerInv, ChainInv,
       SweepInv, PinnedTo, ChainOpen, Working, Free, SessionOpen, RequestOpen
  <1>2. ASSUME NEW t \in Tasks, (TaskStep(t) /\ UNCHANGED harnessVars)
                               \/ \E k \in Keys : OpenBy(t, k)
        PROVE  HarnessInv'
    BY <1>2, TaskStepKeeps, OpenByKeeps
  <1>3. ASSUME NEW r \in Runners, RunnerStep(r) PROVE HarnessInv'
    <2>1. call[r].pinned \in BOOLEAN
      BY Rows DEF Calls
    <2> QED
      BY <1>3, <2>1, QuietRunnerKeeps, ClaimKeeps, ReleaseKeeps, EndKeeps DEF RunnerStep
  <1>4. SweepStep => HarnessInv'
    BY FencingKeeps, RequeueKeeps DEF SweepStep
  <1> QED
    BY <1>1, <1>2, <1>3, <1>4 DEF HarnessNext

LEMMA HarnessInitially == HarnessInit => HarnessInv
  <1> SUFFICES ASSUME HarnessInit PROVE HarnessInv
    OBVIOUS
  <1>1. \A t \in Tasks : TaskInv(t) /\ WorkInv(t)
    BY RunnersAssumption
       DEF HarnessInit, TasksInit, TaskInv, WorkInv, Working, Free, SessionOpen, RequestOpen, Nothing
  <1>2. \A r \in Runners : RunnerInv(r)
    BY DEF HarnessInit, RunnerInv, NoCall, NoEnding
  <1>3. \A c \in Roots : ChainInv(c)
    BY RunnersAssumption DEF HarnessInit, ChainInv, Pinned
  <1>4. \A s \in Sweepers : SweepInv(s)
    BY DEF HarnessInit, SweepInv
  <1> QED
    BY <1>1, <1>2, <1>3, <1>4 DEF HarnessInv

LEMMA HarnessAlways == HarnessSpec => []HarnessInv
<1> QED
  BY HarnessInitially, HarnessKeeps, HarnessTyping, PTL DEF HarnessSpec

(* A session of a runner is open only while its chain is pinned to that     *)
(* runner, even when SIGTERM makes it finish at any time: two runners never *)
(* work on one chain, however late a request of the first of them lands.    *)
THEOREM SoleWorkerAlways == HarnessSpec => []SoleWorker
<1>1. HarnessInv => SoleWorker
  BY RunnersAssumption DEF HarnessInv, WorkInv, PinnedTo, SoleWorker
<1> QED
  BY <1>1, HarnessAlways, PTL

(* No task is left open in a chain that is done, or is made in one.         *)
THEOREM DoneStaysClosed == HarnessSpec => []DoneIsClosed
<1>1. HarnessInv => DoneIsClosed
  BY DEF HarnessInv, ChainInv, DoneIsClosed
<1> QED
  BY <1>1, HarnessAlways, PTL
-----------------------------------------------------------------------------
(* Attempts: who has the token of an attempt, or is about to get it, holds  *)
(* the chain as long as the attempt is the last, and has it alone.          *)
Has(r, c, a) ==
    \/ grant[r].chain = c /\ grant[r].attempt = a
    \/ call[r].at = "deliver" /\ call[r].chain = c /\ call[r].attempt = a

AttemptInv ==
    /\ \A r \in Runners, c \in Roots, a \in Attempts : Has(r, c, a) =>
          /\ a <= chain[c].attempt
          /\ a = chain[c].attempt => chain[c].runner = r /\ chain[c].state \in {"running", "done"}
    /\ \A r, s \in Runners, c \in Roots, a \in Attempts : Has(r, c, a) /\ Has(s, c, a) => r = s
    /\ \A r \in Runners : grant[r] # NoGrant => grant[r].attempt > 0

(* A step that gives nobody an attempt.                                     *)
LEMMA NoNewAttempt ==
    ASSUME HarnessTypeOK, HarnessTypeOK', AttemptInv,
           \A r \in Runners, c \in Roots, a \in Attempts : Has(r, c, a)' => Has(r, c, a),
           \A r \in Runners : grant'[r] # NoGrant => grant'[r].attempt > 0,
           \A c \in Roots :
              \/ chain'[c].attempt = chain[c].attempt + 1
              \/ /\ chain'[c].attempt = chain[c].attempt
                 /\ \/ chain'[c].runner = chain[c].runner /\ chain'[c].state = chain[c].state
                    \/ chain[c].state = "running" /\ chain'[c].state = "done"
                       /\ chain'[c].runner = chain[c].runner
                    \/ chain[c].state \in {"fencing", "stuck"}
                    \/ \A r \in Runners : ~Has(r, c, chain[c].attempt)
                    \/ \E r \in Runners : /\ chain[c].runner = r
                                          /\ \A a \in Attempts : ~Has(r, c, a)'
    PROVE  AttemptInv'
  <1>1. \A c \in Roots : chain[c].attempt \in Attempts /\ chain'[c].attempt \in Attempts
    BY DEF HarnessTypeOK, Attempts
  <1>2. \A a \in Attempts : a \in Nat
    BY RunnersAssumption DEF Attempts
  <1>3. ASSUME NEW r \in Runners, NEW c \in Roots, NEW a \in Attempts, Has(r, c, a)'
        PROVE  /\ a <= chain'[c].attempt
               /\ a = chain'[c].attempt =>
                     chain'[c].runner = r /\ chain'[c].state \in {"running", "done"}
    <2>1. Has(r, c, a)
      BY <1>3
    <2>2. /\ a <= chain[c].attempt
          /\ a = chain[c].attempt => chain[c].runner = r /\ chain[c].state \in {"running", "done"}
      BY <2>1 DEF AttemptInv
    <2>3. CASE chain'[c].attempt = chain[c].attempt + 1
      BY <1>1, <1>2, <2>2, <2>3
    <2>4. CASE chain'[c].attempt = chain[c].attempt
      <3>1. CASE a # chain[c].attempt
        BY <2>2, <2>4, <3>1
      <3>2. CASE a = chain[c].attempt
        <4>1. chain[c].runner = r /\ chain[c].state \in {"running", "done"}
          BY <2>2, <3>2
        <4>2. /\ Has(r, c, chain[c].attempt) /\ chain[c].attempt \in Attempts
              /\ \E b \in Attempts : Has(r, c, b)'
          BY <1>1, <1>3, <2>1, <3>2
        <4>3. chain'[c].attempt # chain[c].attempt + 1
          BY <1>1, <1>2, <2>4
        <4>4. \/ chain'[c].runner = chain[c].runner /\ chain'[c].state = chain[c].state
              \/ chain'[c].state = "done" /\ chain'[c].runner = chain[c].runner
          BY <4>1, <4>2, <4>3
        <4> QED
          BY <2>2, <2>4, <4>1, <4>4
      <3> QED
        BY <3>1, <3>2
    <2> QED
      BY <2>3, <2>4
  <1>4. \A r, s \in Runners, c \in Roots, a \in Attempts : Has(r, c, a)' /\ Has(s, c, a)' => r = s
    BY DEF AttemptInv
  <1> QED
    BY <1>3, <1>4 DEF AttemptInv

LEMMA AttemptKeeps ==
    ASSUME HarnessTypeOK, HarnessTypeOK', HarnessInv, AttemptInv, [HarnessNext]_vars
    PROVE  AttemptInv'
  <1>0. /\ chain \in [Roots -> ChainRows] /\ call \in [Runners -> Calls]
        /\ grant \in [Runners -> Grants]
    BY Rows
  <1>a. UNCHANGED <<chain, call, grant>> => AttemptInv'
    BY DEF AttemptInv, Has
  <1>b. UNCHANGED <<call, grant>> =>
            /\ \A r \in Runners, c \in Roots, a \in Attempts : Has(r, c, a)' => Has(r, c, a)
            /\ \A r \in Runners : grant'[r] # NoGrant => grant'[r].attempt > 0
    BY DEF AttemptInv, Has
  <1>1. CASE UNCHANGED vars
    BY <1>1, <1>a DEF vars, harnessVars
  <1>2. CASE \E t \in Tasks : (TaskStep(t) /\ UNCHANGED harnessVars)
                              \/ \E k \in Keys : OpenBy(t, k)
    BY <1>2, <1>a DEF harnessVars, OpenBy
  <1>3. ASSUME NEW r \in Runners, Register(r) \/ SendFinish(r) PROVE AttemptInv'
    BY <1>3, <1>a DEF Register, SendFinish
  <1>4. ASSUME NEW r \in Runners, Poll(r) \/ PollEnds(r) \/ LoseClaim(r) \/ Deliver(r)
                                  \/ (ReleaseClaim(r) /\ ~call[r].pinned)
        PROVE  AttemptInv'
    <2> USE DEF Poll, PollEnds, LoseClaim, Deliver, ReleaseClaim
    <2>1. RunnerInv(r) /\ chain' = chain
      BY <1>4 DEF HarnessInv
    <2>2. \A s \in Runners \ {r} : call'[s] = call[s] /\ grant'[s] = grant[s]
      BY <1>0, <1>4
    <2>3. call'[r].at # "deliver"
      <3>1. call'[r] \in {[call[r] EXCEPT !.at = "poll"], NoCall, Unanswered(r),
                          [NoCall EXCEPT !.at = "poll"]}
        BY <1>0, <1>4
      <3> QED
        BY <1>0, <3>1 DEF NoCall, Unanswered, Calls
    <2>4. \/ grant'[r] = grant[r]
          \/ /\ call[r].at = "deliver"
             /\ grant'[r] = [chain |-> call[r].chain, attempt |-> call[r].attempt]
      BY <1>0, <1>4
    <2>5. ASSUME NEW s \in Runners, NEW c \in Roots, NEW a \in Attempts, Has(s, c, a)'
          PROVE  Has(s, c, a)
      <3>1. CASE s = r
        BY <2>3, <2>4, <2>5, <3>1 DEF Has
      <3>2. CASE s # r
        BY <2>2, <2>5, <3>2 DEF Has
      <3> QED
        BY <3>1, <3>2
    <2>6. ASSUME NEW s \in Runners, grant'[s] # NoGrant PROVE grant'[s].attempt > 0
      <3>1. CASE grant'[s] = grant[s]
        BY <2>6, <3>1 DEF AttemptInv
      <3>2. CASE grant'[s] # grant[s]
        <4>1. s = r /\ call[r].at = "deliver" /\ grant'[s].attempt = call[r].attempt
          BY <2>2, <2>4, <3>2
        <4> QED
          BY <2>1, <4>1 DEF RunnerInv
      <3> QED
        BY <3>1, <3>2
    <2> QED
      BY <2>1, <2>5, <2>6, NoNewAttempt
  <1>5. ASSUME NEW r \in Runners, ReleaseClaim(r), call[r].pinned PROVE AttemptInv'
    <2> DEFINE c == call[r].chain
    <2>1. /\ RunnerInv(r) /\ call[r].at = "deliver" /\ grant' = grant
          /\ \A s \in Runners \ {r} : call'[s] = call[s]
      BY <1>0, <1>5 DEF HarnessInv, ReleaseClaim
    <2>2. c \in Roots /\ grant[r] = NoGrant
      BY <1>5, <2>1 DEF RunnerInv
    <2>3. call'[r] \in {Unanswered(r), [NoCall EXCEPT !.at = "poll"]}
      BY <1>0, <1>5 DEF ReleaseClaim
    <2>4. call'[r].at # "deliver"
      BY <2>3 DEF Unanswered, NoCall
    <2>5. \A s \in Runners, d \in Roots, a \in Attempts : Has(s, d, a)' => Has(s, d, a)
      BY <2>1, <2>4 DEF Has
    <2>6. \A d \in Roots, a \in Attempts : ~Has(r, d, a)'
      BY <2>1, <2>2, <2>4, ChainIsRoot DEF Has, NoGrant
    <2>7. /\ \A d \in Roots \ {c} : chain'[d] = chain[d]
          /\ chain[c].runner # r => chain' = chain
          /\ chain[c].runner = r => chain'[c].attempt = chain[c].attempt
      BY <1>5, <2>2, ReleaseRow
    <2>8. \A s \in Runners : grant'[s] # NoGrant => grant'[s].attempt > 0
      BY <2>1 DEF AttemptInv
    <2> HIDE DEF c
    <2>9. ASSUME NEW d \in Roots
          PROVE  /\ chain'[d].attempt = chain[d].attempt
                 /\ \/ chain'[d].runner = chain[d].runner /\ chain'[d].state = chain[d].state
                    \/ \E s \in Runners : /\ chain[d].runner = s
                                          /\ \A a \in Attempts : ~Has(s, d, a)'
      <3>1. CASE chain'[d] = chain[d]
        BY <3>1
      <3>2. CASE chain'[d] # chain[d]
        <4>1. d = c /\ chain[d].runner = r /\ chain'[d].attempt = chain[d].attempt
          BY <2>7, <3>2
        <4> QED
          BY <2>6, <4>1
      <3> QED
        BY <3>1, <3>2
    <2> QED
      BY <2>5, <2>8, <2>9, NoNewAttempt
  <1>6. ASSUME NEW r \in Runners, NEW t \in Tasks, Claim(r, t) \/ ClaimChild(r, t)
        PROVE  AttemptInv'
    <2> DEFINE c == Chain(t)
    <2>1. c \in Roots
      BY ChainIsRoot
    <2>2. /\ grant' = grant /\ call[r].at # "deliver"
          /\ \A s \in Runners \ {r} : call'[s] = call[s]
      BY <1>0, <1>6 DEF Claim, ClaimChild, NoCall
    <2>3. call'[r].chain = c /\ call'[r].attempt = chain[c].attempt
      BY <1>0, <1>6 DEF Claim, ClaimChild
    <2>4. \/ chain' = chain /\ chain[c].runner = r /\ chain[c].state = "running"
          \/ /\ chain[c].runner = Nobody /\ chain'[c].runner = r /\ chain'[c].state = "running"
             /\ chain'[c].attempt = chain[c].attempt
             /\ \A d \in Roots \ {c} : chain'[d] = chain[d]
      <3>1. CASE ClaimChild(r, t)
        BY <3>1 DEF ClaimChild, Holds
      <3>2. CASE Claim(r, t)
        <4>1. chain[c].state \in {"none", "queued"}
          BY <3>2 DEF Claim, Claimable
        <4>2. chain[c].runner = Nobody
          BY <2>1, <4>1 DEF HarnessInv, ChainInv
        <4> QED
          BY <3>2, <4>2, ClaimRow
      <3> QED
        BY <1>6, <3>1, <3>2
    <2> HIDE DEF c
    <2>5. \A s \in Runners, d \in Roots, a \in Attempts : Has(s, d, a)' =>
              Has(s, d, a) \/ (s = r /\ d = c /\ a = chain[c].attempt)
      BY <2>2, <2>3 DEF Has
    <2>6. \A s \in Runners : Has(s, c, chain[c].attempt) => s = r
      <3>1. chain[c].attempt \in Attempts
        BY <1>0, <2>1 DEF ChainRows
      <3>2. \A s \in Runners : Has(s, c, chain[c].attempt) => chain[c].runner = s
        BY <2>1, <3>1 DEF AttemptInv
      <3> QED
        BY <2>4, <3>2, RunnersAssumption
    <2>7. \A d \in Roots : chain'[d].attempt = chain[d].attempt
      BY <2>4
    <2>8. chain'[c].runner = r /\ chain'[c].state = "running"
      BY <2>4
    <2>9. ASSUME NEW s \in Runners, NEW d \in Roots, NEW a \in Attempts, Has(s, d, a)'
          PROVE  /\ a <= chain'[d].attempt
                 /\ a = chain'[d].attempt =>
                       chain'[d].runner = s /\ chain'[d].state \in {"running", "done"}
      <3>1. chain[d].attempt \in Nat
        BY <1>0, RunnersAssumption DEF ChainRows, Attempts
      <3>2. CASE s = r /\ d = c /\ a = chain[c].attempt
        BY <2>7, <2>8, <3>1, <3>2
      <3>3. CASE Has(s, d, a)
        <4>1. /\ a <= chain[d].attempt
              /\ a = chain[d].attempt =>
                    chain[d].runner = s /\ chain[d].state \in {"running", "done"}
          BY <3>3 DEF AttemptInv
        <4>2. CASE d # c
          <5>1. chain'[d] = chain[d]
            BY <2>4, <4>2
          <5> QED
            BY <4>1, <5>1
        <4>3. CASE d = c
          <5>1. a = chain[c].attempt => s = r
            BY <2>6, <3>3, <4>3
          <5> QED
            BY <2>7, <2>8, <4>1, <4>3, <5>1
        <4> QED
          BY <4>2, <4>3
      <3> QED
        BY <2>5, <2>9, <3>2, <3>3
    <2>10. ASSUME NEW s \in Runners, NEW z \in Runners, NEW d \in Roots, NEW a \in Attempts,
                  Has(s, d, a)', Has(z, d, a)'
           PROVE  s = z
      <3>1. CASE d = c /\ a = chain[c].attempt
        <4>1. \A x \in Runners : Has(x, d, a) => x = r
          BY <2>6, <3>1
        <4> QED
          BY <2>5, <2>10, <4>1
      <3>2. CASE ~(d = c /\ a = chain[c].attempt)
        BY <2>5, <2>10, <3>2 DEF AttemptInv
      <3> QED
        BY <3>1, <3>2
    <2>11. \A s \in Runners : grant'[s] # NoGrant => grant'[s].attempt > 0
      BY <2>2 DEF AttemptInv
    <2> QED
      BY <2>9, <2>10, <2>11 DEF AttemptInv
  <1>7. ASSUME NEW r \in Runners, Finish(r) \/ Expire(r) PROVE AttemptInv'
    <2>1. UNCHANGED <<call, grant>>
      BY <1>7 DEF Finish, Expire
    <2>2. ASSUME NEW c \in Roots
          PROVE  \/ chain'[c].attempt = chain[c].attempt + 1
                 \/ chain'[c] = chain[c]
                 \/ /\ chain'[c].attempt = chain[c].attempt
                    /\ chain[c].state = "running" /\ chain'[c].state = "done"
                    /\ chain'[c].runner = chain[c].runner
      <3>1. \/ chain' = chain
            \/ \E d \in Roots : chain' = Fence(d)
            \/ \E d \in Roots :
                 /\ chain[d].state = "running"
                 /\ chain'[d] = [chain[d] EXCEPT !.state = "done"]
                 /\ \A e \in Roots \ {d} : chain'[e] = chain[e]
        BY <1>7, ExpireRow, FinishRow DEF Holds
      <3>2. ASSUME NEW d \in Roots, chain' = Fence(d)
            PROVE  chain'[c].attempt = chain[c].attempt + 1 \/ chain'[c] = chain[c]
        BY <1>0, <3>2, FenceRow
      <3>3. ASSUME NEW d \in Roots, chain[d].state = "running",
                   chain'[d] = [chain[d] EXCEPT !.state = "done"]
            PROVE  /\ chain'[d].attempt = chain[d].attempt
                   /\ chain[d].state = "running" /\ chain'[d].state = "done"
                   /\ chain'[d].runner = chain[d].runner
        BY <1>0, <3>3 DEF ChainRows
      <3> QED
        BY <3>1, <3>2, <3>3
    <2> QED
      BY <1>b, <2>1, <2>2, NoNewAttempt
  <1>8. CASE SweepStep
    <2>1. UNCHANGED <<call, grant>>
      BY <1>8 DEF SweepStep, ReadFencing, SetFenceResult, Requeue
    <2>2. ASSUME NEW c \in Roots
          PROVE  /\ chain'[c].attempt = chain[c].attempt
                 /\ chain'[c] = chain[c] \/ chain[c].state \in {"fencing", "stuck"}
      <3>1. CASE \E s \in Sweepers, d \in Roots : ReadFencing(s, d)
        BY <3>1 DEF ReadFencing
      <3>2. ASSUME NEW s \in Sweepers, NEW ok \in BOOLEAN, SetFenceResult(s, ok)
            PROVE  /\ chain'[c].attempt = chain[c].attempt
                   /\ chain'[c] = chain[c] \/ chain[c].state \in {"fencing", "stuck"}
        <4>1. \/ chain'[c] = chain[c]
              \/ /\ chain[c].state \in {"fencing", "stuck"}
                 /\ chain'[c] = [chain[c] EXCEPT !.state = IF ok THEN "fencing" ELSE "stuck",
                                                 !.clean = ok]
          BY <3>2, ResultRow
        <4>2. chain[c] \in ChainRows
          BY <1>0
        <4> QED
          BY <4>1, <4>2 DEF ChainRows
      <3>3. ASSUME NEW d \in Roots, Requeue(d)
            PROVE  /\ chain'[c].attempt = chain[c].attempt
                   /\ chain'[c] = chain[c] \/ chain[c].state \in {"fencing", "stuck"}
        <4>1. /\ chain'[d].attempt = chain[d].attempt
              /\ \A e \in Roots \ {d} : chain'[e] = chain[e]
          BY <3>3, RequeueRow
        <4>2. chain[d].state = "fencing"
          BY <3>3 DEF Requeue
        <4> QED
          BY <4>1, <4>2
      <3> QED
        BY <1>8, <3>1, <3>2, <3>3 DEF SweepStep
    <2> QED
      BY <1>b, <2>1, <2>2, NoNewAttempt
  <1> QED
    <2>1. \A r \in Runners : call[r].pinned \in BOOLEAN
      BY <1>0 DEF Calls
    <2>2. \A r \in Runners : RunnerStep(r) => AttemptInv'
      BY <1>3, <1>4, <1>5, <1>6, <1>7, <2>1 DEF RunnerStep
    <2> QED
      BY <1>1, <1>2, <1>8, <2>2 DEF HarnessNext

(* No two runners get a token for one attempt of one chain: the token that  *)
(* a lost runner keeps never lets it in again.                              *)
THEOREM AttemptStaysSole == HarnessSpec => []AttemptIsSole
<1>1. HarnessInit => AttemptInv
  <2> SUFFICES ASSUME HarnessInit PROVE AttemptInv
    OBVIOUS
  <2>1. \A r \in Runners, c \in Roots, a \in Attempts : ~Has(r, c, a)
    BY ChainIsRoot DEF HarnessInit, Has, NoGrant, NoCall
  <2>2. \A r \in Runners : grant[r] = NoGrant
    BY DEF HarnessInit
  <2> QED
    BY <2>1, <2>2 DEF AttemptInv
<1>2. HarnessTypeOK /\ HarnessInv /\ AttemptInv => AttemptIsSole
  <2> SUFFICES ASSUME HarnessTypeOK, HarnessInv, AttemptInv,
                      NEW r \in Runners, NEW s \in Runners, r # s, grant[r] # NoGrant
               PROVE  grant[r] # grant[s]
    BY DEF AttemptIsSole
  <2>1. grant[r].chain \in Roots /\ grant[r].attempt > 0
    BY DEF HarnessInv, RunnerInv, AttemptInv
  <2>2. grant[r].attempt \in Attempts
    <3>1. grant[r].attempt \in 0..MaxAttempt
      BY Rows DEF Grants
    <3> QED
      BY <2>1, <3>1, RunnersAssumption DEF Attempts
  <2>3. Has(r, grant[r].chain, grant[r].attempt)
    BY DEF Has
  <2>4. grant[r] = grant[s] => Has(s, grant[r].chain, grant[r].attempt)
    BY DEF Has
  <2> QED
    BY <2>1, <2>2, <2>3, <2>4 DEF AttemptInv
<1> QED
  BY <1>1, <1>2, AttemptKeeps, HarnessStepTypes, HarnessTyping, HarnessAlways, PTL DEF HarnessSpec
-----------------------------------------------------------------------------
(* Without SIGTERM a runner that finishes waits for no answer: it has its   *)
(* chain or none, and a running chain has its runner.                       *)
FinishInv ==
    /\ \A r \in Runners :
          /\ runner[r].state = "absent" => ~ending[r].on
          /\ ending[r].on =>
                /\ call[r].at # "poll" /\ ~(call[r].at = "deliver" /\ call[r].pinned)
                /\ Live(r) => ending[r].chain = runner[r].chain
    /\ \A c \in Roots : chain[c].state = "running" =>
          runner[chain[c].runner] = [state |-> "busy", chain |-> c]
    /\ \A c \in Roots, r \in Runners :
          chain[c].state = "done" /\ chain[c].runner = r =>
              ~(call[r].at = "deliver" /\ call[r].pinned)

LEMMA FinishKeeps ==
    ASSUME "stop" \notin Faults, HarnessTypeOK, HarnessInv, FinishInv, [HarnessNext]_vars
    PROVE  FinishInv'
  <1>0. /\ runner \in [Runners -> RunnerRows] /\ chain \in [Roots -> ChainRows]
        /\ call \in [Runners -> Calls] /\ ending \in [Runners -> Endings]
    BY Rows
  <1>1. ASSUME UNCHANGED <<runner, chain, call, ending>> PROVE FinishInv'
    BY <1>1 DEF FinishInv, Live
  <1>2. CASE UNCHANGED vars
    BY <1>1, <1>2 DEF vars, harnessVars
  <1>3. CASE \E t \in Tasks : (TaskStep(t) /\ UNCHANGED harnessVars)
                              \/ \E k \in Keys : OpenBy(t, k)
    BY <1>1, <1>3 DEF harnessVars, OpenBy
  <1>4. ASSUME NEW r \in Runners, Register(r) PROVE FinishInv'
    <2>1. /\ runner[r].state = "absent" /\ UNCHANGED <<chain, call, ending>>
          /\ \A s \in Runners \ {r} : runner'[s] = runner[s]
      BY <1>0, <1>4 DEF Register
    <2>2. runner'[r].state = "idle"
      BY <1>0, <1>4 DEF Register, RunnerRows
    <2>3. \A c \in Roots : chain[c].state = "running" => chain[c].runner \in Runners \ {r}
      BY <2>1 DEF HarnessInv, ChainInv, Pinned
    <2> QED
      BY <2>1, <2>2, <2>3 DEF FinishInv, Live
  <1>5. ASSUME NEW r \in Runners,
               Poll(r) \/ PollEnds(r) \/ LoseClaim(r) \/ Deliver(r)
                 \/ (ReleaseClaim(r) /\ ~call[r].pinned) \/ \E t \in Tasks : ClaimChild(r, t)
        PROVE  FinishInv'
    <2> USE DEF Poll, PollEnds, LoseClaim, Deliver, ReleaseClaim, ClaimChild
    <2>1. /\ UNCHANGED <<runner, chain, ending>>
          /\ \A s \in Runners \ {r} : call'[s] = call[s]
      BY <1>0, <1>5
    <2>2. ~(call'[r].at = "deliver" /\ call'[r].pinned)
          /\ (ending[r].on => call'[r].at # "poll")
      <3>1. CASE Poll(r)
        <4>1. call'[r] = [call[r] EXCEPT !.at = "poll"] /\ ~ending[r].on
          BY <1>0, <3>1
        <4> QED
          BY <1>0, <4>1 DEF Calls
      <3>2. CASE \/ PollEnds(r) \/ LoseClaim(r) \/ Deliver(r)
                 \/ (ReleaseClaim(r) /\ ~call[r].pinned)
        <4>1. call'[r] \in {NoCall, Unanswered(r)}
          BY <1>0, <3>2
        <4> QED
          BY <4>1 DEF NoCall, Unanswered
      <3>3. CASE \E t \in Tasks : ClaimChild(r, t)
        <4>1. call'[r].pinned = FALSE /\ call'[r].at = "deliver"
          BY <1>0, <3>3
        <4> QED
          BY <4>1
      <3> QED
        BY <1>5, <3>1, <3>2, <3>3
    <2> QED
      BY <2>1, <2>2 DEF FinishInv, Live
  <1>6. ASSUME NEW r \in Runners, ReleaseClaim(r), call[r].pinned PROVE FinishInv'
    <2> DEFINE c == call[r].chain
    <2>1. /\ RunnerInv(r) /\ call[r].at = "deliver" /\ ending' = ending
          /\ \A s \in Runners \ {r} : call'[s] = call[s]
      BY <1>0, <1>6 DEF HarnessInv, ReleaseClaim
    <2>2. c \in Roots /\ runner[r].chain = c /\ runner[r].state \notin {"absent", "idle"}
          /\ ~ending[r].on
      BY <1>6, <2>1 DEF RunnerInv, FinishInv
    <2>3. call'[r].at # "deliver"
      <3>1. call'[r] \in {Unanswered(r), [NoCall EXCEPT !.at = "poll"]}
        BY <1>0, <1>6 DEF ReleaseClaim
      <3> QED
        BY <3>1 DEF Unanswered, NoCall
    <2>4. /\ \A d \in Roots \ {c} : chain'[d] = chain[d]
          /\ chain[c].runner # r => chain' = chain
          /\ chain[c].runner = r => chain'[c].state \in {"queued", "done"} /\ chain'[c].runner = Nobody
          /\ \A s \in Runners \ {r} : runner'[s] = runner[s]
          /\ runner'[r].state # "absent"
      BY <1>6, <2>2, ReleaseRow
    <2> HIDE DEF c
    <2>5. ASSUME NEW d \in Roots, chain'[d].state = "running"
          PROVE  chain'[d] = chain[d] /\ chain[d].runner \in Runners \ {r}
      <3>1. chain'[d] = chain[d]
        BY <2>4, <2>5
      <3>2. chain[d].runner \in Runners
        BY <2>5, <3>1 DEF HarnessInv, ChainInv, Pinned
      <3>3. chain[d].runner = r => d = c
        BY <2>2 DEF HarnessInv, ChainInv
      <3> QED
        BY <2>4, <2>5, <3>1, <3>2, <3>3
    <2>6. ASSUME NEW d \in Roots, NEW s \in Runners, chain'[d].state = "done", chain'[d].runner = s
          PROVE  ~(call'[s].at = "deliver" /\ call'[s].pinned)
      <3>1. CASE s = r
        BY <2>3, <3>1
      <3>2. CASE s # r
        <4>1. chain'[d] = chain[d]
          BY <2>4, <2>6, <3>2, RunnersAssumption
        <4> QED
          BY <2>1, <2>6, <3>2, <4>1 DEF FinishInv
      <3> QED
        BY <3>1, <3>2
    <2>7. ASSUME NEW s \in Runners
          PROVE  /\ runner'[s].state = "absent" => ~ending'[s].on
                 /\ ending'[s].on =>
                       /\ call'[s].at # "poll" /\ ~(call'[s].at = "deliver" /\ call'[s].pinned)
                       /\ runner'[s].state \in {"idle", "busy"} =>
                              ending'[s].chain = runner'[s].chain
      BY <2>1, <2>2, <2>4 DEF FinishInv, Live
    <2>8. \A d \in Roots : chain'[d].state = "running" =>
              runner'[chain'[d].runner] = [state |-> "busy", chain |-> d]
      BY <2>4, <2>5 DEF FinishInv
    <2> QED
      BY <2>6, <2>7, <2>8 DEF FinishInv, Live
  <1>7. ASSUME NEW r \in Runners, NEW t \in Tasks, Claim(r, t) PROVE FinishInv'
    <2> DEFINE c == Chain(t)
    <2>1. /\ call[r].at = "poll" /\ runner[r].state = "idle" /\ ending' = ending
          /\ c \in Roots /\ ~ending[r].on
      BY <1>7, ChainIsRoot DEF Claim, FinishInv
    <2>2. /\ chain'[c].state = "running" /\ chain'[c].runner = r
          /\ \A d \in Roots \ {c} : chain'[d] = chain[d]
          /\ runner'[r] = [state |-> "busy", chain |-> c]
          /\ \A s \in Runners \ {r} : runner'[s] = runner[s] /\ call'[s] = call[s]
      BY <1>7, ClaimRow
    <2> HIDE DEF c
    <2>3. \A d \in Roots : chain[d].runner # r
      BY <2>1 DEF HarnessInv, ChainInv
    <2>4. ASSUME NEW d \in Roots, chain'[d].state = "running"
          PROVE  runner'[chain'[d].runner] = [state |-> "busy", chain |-> d]
      <3>1. CASE d = c
        BY <2>2, <3>1
      <3>2. CASE d # c
        <4>1. chain'[d] = chain[d] /\ chain[d].runner \in Runners
          BY <2>2, <2>4, <3>2 DEF HarnessInv, ChainInv, Pinned
        <4> QED
          BY <2>2, <2>3, <2>4, <4>1 DEF FinishInv
      <3> QED
        BY <3>1, <3>2
    <2>5. ASSUME NEW d \in Roots, NEW s \in Runners, chain'[d].state = "done", chain'[d].runner = s
          PROVE  ~(call'[s].at = "deliver" /\ call'[s].pinned)
      <3>1. d # c /\ chain'[d] = chain[d] /\ s # r
        BY <2>2, <2>3, <2>5
      <3> QED
        BY <2>2, <2>5, <3>1 DEF FinishInv
    <2>6. ASSUME NEW s \in Runners
          PROVE  /\ runner'[s].state = "absent" => ~ending'[s].on
                 /\ ending'[s].on =>
                       /\ call'[s].at # "poll" /\ ~(call'[s].at = "deliver" /\ call'[s].pinned)
                       /\ runner'[s].state \in {"idle", "busy"} =>
                              ending'[s].chain = runner'[s].chain
      BY <2>1, <2>2 DEF FinishInv, Live
    <2> QED
      BY <2>4, <2>5, <2>6 DEF FinishInv, Live
  <1>8. ASSUME NEW r \in Runners, SendFinish(r) PROVE FinishInv'
    <2>1. /\ Live(r) /\ call[r] = NoCall /\ UNCHANGED <<runner, chain, call>>
      BY <1>8 DEF SendFinish
    <2>2. /\ ending'[r].chain = runner[r].chain
          /\ \A s \in Runners \ {r} : ending'[s] = ending[s]
      BY <1>0, <1>8 DEF SendFinish
    <2> QED
      BY <2>1, <2>2 DEF FinishInv, Live, NoCall
  <1>9. ASSUME NEW r \in Runners, Finish(r) \/ Expire(r) PROVE FinishInv'
    <2>1. call' = call
      BY <1>9 DEF Finish, Expire
    <2>2. /\ \A s \in Runners \ {r} : runner'[s] = runner[s] /\ ending'[s] = ending[s]
          /\ runner'[r].state \in {"offline", "fenced"}
      BY <1>0, <1>9, FinishRow, ExpireRow DEF Finish, Expire
    <2>3. \/ chain' = chain
          \/ \E d \in Roots : Holds(r, d) /\ chain' = Fence(d)
          \/ \E d \in Roots :
               /\ Holds(r, d) /\ Finish(r)
               /\ chain'[d] = [chain[d] EXCEPT !.state = "done"]
               /\ \A e \in Roots \ {d} : chain'[e] = chain[e]
      BY <1>9, ExpireRow, FinishRow
    <2>4. ASSUME NEW c \in Roots, chain'[c] # chain[c]
          PROVE  \/ chain'[c].state = "fencing"
                 \/ Finish(r) /\ chain'[c].state = "done" /\ chain'[c].runner = r
      <3>1. ASSUME NEW d \in Roots, chain' = Fence(d) PROVE chain'[c].state = "fencing"
        BY <1>0, <2>4, <3>1, FenceRow
      <3>2. ASSUME NEW d \in Roots, Holds(r, d),
                   chain'[d] = [chain[d] EXCEPT !.state = "done"]
            PROVE  chain'[d].state = "done" /\ chain'[d].runner = r
        BY <1>0, <3>2 DEF ChainRows, Holds
      <3> QED
        BY <2>3, <2>4, <3>1, <3>2
    <2>5. ASSUME NEW c \in Roots, Holds(r, c) PROVE chain'[c].state # "running"
      <3>1. runner[r].chain = c /\ Live(r)
        <4>1. chain[c].state = "running" /\ chain[c].runner = r
          BY <2>5 DEF Holds
        <4>2. runner[chain[c].runner] = [state |-> "busy", chain |-> c]
          BY <4>1 DEF FinishInv
        <4> QED
          BY <4>1, <4>2 DEF Live
      <3>2. CASE Expire(r)
        <4>1. chain' = Fence(c)
          BY <2>5, <3>1, <3>2, ExpireRow, ChainIsRoot
        <4> QED
          BY <1>0, <4>1, FenceRow
      <3>3. CASE Finish(r)
        <4>1. ending[r].chain = c
          BY <3>1, <3>3 DEF FinishInv, Finish
        <4>2. chain' = Fence(c) \/ chain'[c] = [chain[c] EXCEPT !.state = "done"]
          BY <2>5, <3>3, <4>1, FinishRow
        <4>3. chain[c] \in ChainRows
          BY <1>0
        <4>4. chain' = Fence(c) => chain'[c].state = "fencing"
          BY <1>0, FenceRow
        <4> QED
          BY <4>2, <4>3, <4>4 DEF ChainRows
      <3> QED
        BY <1>9, <3>2, <3>3
    <2>6. ASSUME NEW c \in Roots, chain'[c].state = "running"
          PROVE  runner'[chain'[c].runner] = [state |-> "busy", chain |-> c]
      <3>1. chain'[c] = chain[c]
        BY <2>4, <2>6
      <3>2. chain[c].runner \in Runners /\ chain[c].runner # r
        BY <2>5, <2>6, <3>1 DEF HarnessInv, ChainInv, Pinned, Holds
      <3> QED
        BY <2>2, <2>6, <3>1, <3>2 DEF FinishInv
    <2>7. ASSUME NEW c \in Roots, NEW s \in Runners, chain'[c].state = "done", chain'[c].runner = s
          PROVE  ~(call'[s].at = "deliver" /\ call'[s].pinned)
      <3>1. CASE chain'[c] = chain[c]
        BY <2>1, <2>7, <3>1 DEF FinishInv
      <3>2. CASE chain'[c] # chain[c]
        <4>1. Finish(r) /\ s = r
          BY <2>4, <2>7, <3>2
        <4> QED
          BY <2>1, <4>1 DEF FinishInv, Finish
      <3> QED
        BY <3>1, <3>2
    <2>8. ASSUME NEW s \in Runners
          PROVE  /\ runner'[s].state = "absent" => ~ending'[s].on
                 /\ ending'[s].on =>
                       /\ call'[s].at # "poll" /\ ~(call'[s].at = "deliver" /\ call'[s].pinned)
                       /\ runner'[s].state \in {"idle", "busy"} =>
                              ending'[s].chain = runner'[s].chain
      <3>1. CASE s # r
        BY <2>1, <2>2, <3>1 DEF FinishInv, Live
      <3>2. CASE s = r
        <4>1. ending'[r].on => ending[r].on
          BY <1>0, <1>9 DEF Finish, Expire, NoEnding
        <4> QED
          BY <2>1, <2>2, <3>2, <4>1 DEF FinishInv
      <3> QED
        BY <3>1, <3>2
    <2> QED
      BY <2>6, <2>7, <2>8 DEF FinishInv, Live
  <1>10. ASSUME NEW s \in Sweepers, (\E c \in Roots : ReadFencing(s, c))
                                   \/ (\E ok \in BOOLEAN : SetFenceResult(s, ok))
         PROVE  FinishInv'
    <2>1. UNCHANGED <<runner, call, ending>>
      BY <1>10 DEF ReadFencing, SetFenceResult
    <2>2. \A c \in Roots : chain'[c] = chain[c] \/ chain'[c].state \in {"fencing", "stuck"}
      <3>1. ASSUME NEW ok \in BOOLEAN, SetFenceResult(s, ok), NEW c \in Roots
            PROVE  chain'[c] = chain[c] \/ chain'[c].state \in {"fencing", "stuck"}
        <4>1. chain'[c] = chain[c] \/
                 chain'[c] = [chain[c] EXCEPT !.state = IF ok THEN "fencing" ELSE "stuck",
                                             !.clean = ok]
          BY <3>1, ResultRow
        <4>2. chain[c] \in ChainRows
          BY <1>0
        <4> QED
          BY <4>1, <4>2 DEF ChainRows
      <3>2. ASSUME NEW d \in Roots, ReadFencing(s, d) PROVE chain' = chain
        BY <3>2 DEF ReadFencing
      <3> QED
        BY <1>10, <3>1, <3>2
    <2> QED
      BY <2>1, <2>2 DEF FinishInv, Live
  <1>11. ASSUME NEW c \in Roots, Requeue(c) PROVE FinishInv'
    <2>1. UNCHANGED <<call, ending>>
      BY <1>11 DEF Requeue
    <2>2. /\ chain'[c].state \in {"queued", "done"} /\ chain'[c].runner = Nobody
          /\ \A d \in Roots \ {c} : chain'[d] = chain[d]
      BY <1>11, RequeueRow
    <2>3. \A r \in Runners :
            \/ runner'[r] = runner[r]
            \/ runner[r].state = "fenced" /\ runner'[r].state = "offline"
      <3> SUFFICES ASSUME NEW r \in Runners
                   PROVE  \/ runner'[r] = runner[r]
                          \/ runner[r].state = "fenced" /\ runner'[r].state = "offline"
        OBVIOUS
      <3>1. \/ runner'[r] = runner[r]
            \/ /\ runner[r].state = "fenced"
               /\ runner'[r] = [runner[r] EXCEPT !.state = "offline"]
        BY <1>11, RequeueRow
      <3>2. runner[r] \in RunnerRows
        BY <1>0
      <3> QED
        BY <3>1, <3>2 DEF RunnerRows
    <2>4. ASSUME NEW d \in Roots, chain'[d].state = "running"
          PROVE  runner'[chain'[d].runner] = [state |-> "busy", chain |-> d]
      <3>1. chain'[d] = chain[d] /\ chain[d].runner \in Runners
        BY <2>2, <2>4 DEF HarnessInv, ChainInv, Pinned
      <3>2. runner[chain[d].runner] = [state |-> "busy", chain |-> d]
        BY <2>4, <3>1 DEF FinishInv
      <3>3. runner'[chain[d].runner] = runner[chain[d].runner]
        BY <2>3, <3>1, <3>2
      <3> QED
        BY <3>1, <3>2, <3>3
    <2>5. ASSUME NEW d \in Roots, NEW s \in Runners, chain'[d].state = "done", chain'[d].runner = s
          PROVE  ~(call'[s].at = "deliver" /\ call'[s].pinned)
      <3>1. chain'[d] = chain[d]
        BY <2>2, <2>5, RunnersAssumption
      <3> QED
        BY <2>1, <2>5, <3>1 DEF FinishInv
    <2>6. ASSUME NEW s \in Runners
          PROVE  /\ runner'[s].state = "absent" => ~ending'[s].on
                 /\ ending'[s].on =>
                       /\ call'[s].at # "poll" /\ ~(call'[s].at = "deliver" /\ call'[s].pinned)
                       /\ runner'[s].state \in {"idle", "busy"} =>
                              ending'[s].chain = runner'[s].chain
      BY <2>1, <2>3 DEF FinishInv, Live
    <2> QED
      BY <2>4, <2>5, <2>6 DEF FinishInv, Live
  <1> QED
    <2>1. \A r \in Runners : call[r].pinned \in BOOLEAN
      BY <1>0 DEF Calls
    <2>2. \A r \in Runners : RunnerStep(r) => FinishInv'
      BY <1>4, <1>5, <1>6, <1>7, <1>8, <1>9, <2>1 DEF RunnerStep
    <2>3. SweepStep => FinishInv'
      BY <1>10, <1>11 DEF SweepStep
    <2> QED
      BY <1>2, <1>3, <2>2, <2>3 DEF HarnessNext

LEMMA FinishAlways ==
    ASSUME "stop" \notin Faults
    PROVE  HarnessSpec => []FinishInv
  <1>1. HarnessInit => FinishInv
    BY DEF HarnessInit, FinishInv, NoEnding, NoCall
  <1> QED
    BY <1>1, FinishKeeps, HarnessTyping, HarnessAlways, PTL DEF HarnessSpec

(* What is to be done of a chain is within reach: no open task is left in a *)
(* chain that is done, and a running chain has a runner whose lease can     *)
(* expire; provided no runner is told to stop while it waits for a claim.   *)
THEOREM WorkStaysInReach ==
    ASSUME "stop" \notin Faults
    PROVE  HarnessSpec => []WorkIsReached
<1>1. HarnessInv /\ FinishInv => WorkIsReached
  BY DEF HarnessInv, ChainInv, FinishInv, WorkIsReached, DoneIsClosed, NoLostChain
<1> QED
  BY <1>1, HarnessAlways, FinishAlways, PTL
-----------------------------------------------------------------------------
(* The refinement. The runner of a chain has begun when it has a token for  *)
(* that chain; what each step does to the promise is shown chain by chain.  *)
Begun(c) == \E r \in Runners : chain[c].runner = r /\ grant[r].chain = c

(* The state of the promise, as Pin has it.                                 *)
Phase == [c \in Roots |-> PhaseOf[chain[c].state]]
Holder == [c \in Roots |-> chain[c].runner]
HasBegun == [c \in Roots |-> Begun(c)]
Clean == [c \in Roots |-> chain[c].clean]
Workers == [c \in Roots |-> WorkersOf(c)]

LEMMA Phases ==
    /\ PhaseOf["none"] = "free" /\ PhaseOf["queued"] = "free" /\ PhaseOf["running"] = "held"
    /\ PhaseOf["fencing"] = "draining" /\ PhaseOf["stuck"] = "draining" /\ PhaseOf["done"] = "over"
  BY DEF PhaseOf

(* Nothing of a chain changes that the promise is about.                    *)
Untouched(c) ==
    /\ PhaseOf[chain'[c].state] = PhaseOf[chain[c].state]
    /\ chain'[c].runner = chain[c].runner
    /\ Begun(c)' = Begun(c)
    /\ chain'[c].clean = chain[c].clean
    /\ WorkersOf(c)' = WorkersOf(c)

LEMMA Stutters ==
    ASSUME \A c \in Roots : Untouched(c)
    PROVE  UNCHANGED Pin!vars
  BY DEF Untouched, Pin!vars, Begun

LEMMA Takes ==
    ASSUME NEW c \in Roots, NEW r \in Runners,
           \A d \in Roots \ {c} : Untouched(d),
           chain[c].state \in {"none", "queued"}, chain'[c].state = "running",
           chain'[c].runner = r, chain'[c].clean = FALSE,
           Begun(c)' = Begun(c), WorkersOf(c)' = WorkersOf(c)
    PROVE  Pin!Take(c, r)
  <1>1. Phase[c] = "free" /\ Phase' = [Phase EXCEPT ![c] = "held"]
    BY Phases DEF Phase, Untouched
  <1>2. Holder' = [Holder EXCEPT ![c] = r]
    BY DEF Holder, Untouched
  <1>3. Clean' = [Clean EXCEPT ![c] = FALSE]
    BY DEF Clean, Untouched
  <1>4. UNCHANGED <<HasBegun, Workers>>
    BY DEF HasBegun, Workers, Untouched
  <1> QED
    BY <1>1, <1>2, <1>3, <1>4 DEF Pin!Take, Phase, Holder, Clean, HasBegun, Workers, Begun

LEMMA Begins ==
    ASSUME NEW c \in Roots,
           \A d \in Roots \ {c} : Untouched(d),
           chain' = chain, chain[c].state \in Pinned, ~Begun(c), Begun(c)',
           WorkersOf(c)' = WorkersOf(c)
    PROVE  Pin!Begin(c)
  <1>1. Phase[c] \in {"held", "draining"} /\ Phase' = Phase
    BY Phases DEF Phase, Pinned
  <1>2. UNCHANGED <<Holder, Clean, Workers>>
    BY DEF Holder, Clean, Workers, Untouched
  <1>3. ~HasBegun[c] /\ HasBegun' = [HasBegun EXCEPT ![c] = TRUE]
    BY DEF HasBegun, Untouched
  <1> QED
    BY <1>1, <1>2, <1>3 DEF Pin!Begin, Phase, Holder, Clean, HasBegun, Workers, Begun

LEMMA Works ==
    ASSUME NEW c \in Roots,
           \A d \in Roots \ {c} : Untouched(d),
           chain' = chain, grant' = grant, chain[c].state \in Pinned, Begun(c),
           WorkersOf(c)' \subseteq {chain[c].runner}
    PROVE  Pin!Work(c)
  <1>1. Phase[c] \in {"held", "draining"} /\ Phase' = Phase
    BY Phases DEF Phase, Pinned
  <1>2. UNCHANGED <<Holder, Clean, HasBegun>> /\ HasBegun[c]
    BY DEF Holder, Clean, HasBegun, Begun
  <1>3. Workers' = [Workers EXCEPT ![c] = WorkersOf(c)']
    BY DEF Workers, Untouched
  <1>4. WorkersOf(c)' \in SUBSET {Holder[c]}
    BY DEF Holder
  <1> QED
    BY <1>1, <1>2, <1>3, <1>4 DEF Pin!Work, Phase, Holder, Clean, HasBegun, Workers, Begun

LEMMA Loses ==
    ASSUME NEW c \in Roots,
           \A d \in Roots \ {c} : Untouched(d),
           chain[c].state = "running", chain'[c].state = "fencing",
           chain'[c].runner = chain[c].runner, chain'[c].clean = chain[c].clean,
           Begun(c)' = Begun(c), WorkersOf(c)' = WorkersOf(c)
    PROVE  Pin!Lose(c)
  <1>1. Phase[c] = "held" /\ Phase' = [Phase EXCEPT ![c] = "draining"]
    BY Phases DEF Phase, Untouched
  <1>2. UNCHANGED <<Holder, Clean, HasBegun, Workers>>
    BY DEF Holder, Clean, HasBegun, Workers, Untouched
  <1> QED
    BY <1>1, <1>2 DEF Pin!Lose, Phase, Holder, Clean, HasBegun, Workers, Begun

LEMMA Revokes ==
    ASSUME NEW c \in Roots, NEW ok \in BOOLEAN,
           \A d \in Roots \ {c} : Untouched(d),
           chain[c].state \in {"fencing", "stuck"}, chain'[c].state \in {"fencing", "stuck"},
           chain'[c].runner = chain[c].runner, chain'[c].clean = ok,
           Begun(c)' = Begun(c), WorkersOf(c)' = WorkersOf(c)
    PROVE  Pin!Revoke(c)
  <1>1. Phase[c] = "draining" /\ Phase' = Phase
    BY Phases DEF Phase, Untouched
  <1>2. UNCHANGED <<Holder, HasBegun, Workers>>
    BY DEF Holder, HasBegun, Workers, Untouched
  <1>3. Clean' = [Clean EXCEPT ![c] = ok]
    BY DEF Clean, Untouched
  <1> QED
    BY <1>1, <1>2, <1>3 DEF Pin!Revoke, Phase, Holder, Clean, HasBegun, Workers, Begun

LEMMA Gives ==
    ASSUME NEW c \in Roots,
           \A d \in Roots \ {c} : Untouched(d),
           \/ chain[c].state \in Pinned /\ ~Begun(c)
           \/ chain[c].state = "fencing" /\ chain[c].clean,
           chain'[c].state \in {"queued", "done"},
           chain'[c].runner = Nobody, ~Begun(c)', chain'[c].clean = chain[c].clean,
           WorkersOf(c)' = {}
    PROVE  Pin!GiveUp(c)
  <1> DEFINE p == PhaseOf[chain'[c].state]
  <1>1. \/ Phase[c] \in {"held", "draining"} /\ ~HasBegun[c]
        \/ Phase[c] = "draining" /\ Clean[c]
    BY Phases DEF Phase, Pinned, HasBegun, Clean
  <1>2. p \in {"free", "over"}
    BY Phases
  <1> HIDE DEF p
  <1>3. Phase' = [Phase EXCEPT ![c] = p]
    BY DEF Phase, Untouched, p
  <1>4. Holder' = [Holder EXCEPT ![c] = Nobody] /\ UNCHANGED Clean
    BY DEF Holder, Clean, Untouched
  <1>5. HasBegun' = [HasBegun EXCEPT ![c] = FALSE]
    <2>1. (Begun(c)') = FALSE
      BY DEF Begun
    <2> QED
      BY <2>1 DEF HasBegun, Untouched
  <1>6. Workers' = [Workers EXCEPT ![c] = {}]
    BY DEF Workers, Untouched
  <1> QED
    BY <1>1, <1>2, <1>3, <1>4, <1>5, <1>6
       DEF Pin!GiveUp, Phase, Holder, Clean, HasBegun, Workers, Begun

LEMMA Completes ==
    ASSUME NEW c \in Roots,
           \A d \in Roots \ {c} : Untouched(d),
           chain[c].state = "running", chain'[c].state = "done",
           chain'[c].runner = chain[c].runner, chain'[c].clean = chain[c].clean,
           Begun(c)' = Begun(c), WorkersOf(c) = {}, WorkersOf(c)' = {}
    PROVE  Pin!Complete(c)
  <1>1. Phase[c] = "held" /\ Phase' = [Phase EXCEPT ![c] = "over"]
    BY Phases DEF Phase, Untouched
  <1>2. UNCHANGED <<Holder, Clean, HasBegun, Workers>> /\ Workers[c] = {}
    BY DEF Holder, Clean, HasBegun, Workers, Untouched
  <1> QED
    BY <1>1, <1>2 DEF Pin!Complete, Phase, Holder, Clean, HasBegun, Workers, Begun

LEMMA QuietStep ==
    ASSUME UNCHANGED <<chain, grant, session>>
    PROVE  UNCHANGED Pin!vars
  BY DEF Pin!vars, WorkersOf

(* Who works on a chain has begun, and is the one it is pinned to.          *)
LEMMA WorkersArePinned ==
    ASSUME HarnessInv, NEW c \in Roots, NEW w \in WorkersOf(c)
    PROVE  PinnedTo(c, w) /\ w \in Runners
  <1>1. PICK t \in TasksOf(c) : session[t][w] = "open"
    BY DEF WorkersOf
  <1>2. t \in Tasks /\ Chain(t) = c /\ w \in Runners
    BY DEF TasksOf, WorkersOf
  <1>3. WorkInv(t)
    BY <1>2 DEF HarnessInv
  <1> QED
    BY <1>1, <1>2, <1>3 DEF WorkInv

LEMMA TaskPins ==
    ASSUME HarnessTypeOK, HarnessInv, HarnessInv', NEW t \in Tasks,
           TaskStep(t), UNCHANGED harnessVars
    PROVE  Pin!Work(Chain(t)) \/ UNCHANGED Pin!vars
  <1> DEFINE c == Chain(t)
  <1>1. c \in Roots
    BY ChainIsRoot
  <1>2. chain' = chain /\ grant' = grant
    BY DEF harnessVars
  <1>3. \A u \in Tasks \ {t} : session'[u] = session[u]
    BY OthersStay DEF HarnessTypeOK
  <1>4. ASSUME NEW d \in Roots \ {c} PROVE Untouched(d)
    <2>1. \A u \in TasksOf(d) : session'[u] = session[u]
      BY <1>3 DEF TasksOf
    <2>2. WorkersOf(d)' = WorkersOf(d)
      BY <2>1 DEF WorkersOf, TasksOf
    <2> QED
      BY <1>2, <2>2 DEF Untouched, Begun
  <1> HIDE DEF c
  <1>5. ASSUME NEW w \in WorkersOf(c)' PROVE PinnedTo(c, w) /\ w \in Runners
    <2>1. PICK u \in TasksOf(c) : session'[u][w] = "open"
      BY DEF WorkersOf, TasksOf
    <2>2. u \in Tasks /\ Chain(u) = c /\ w \in Runners
      BY DEF TasksOf, WorkersOf
    <2>3. WorkInv(u)'
      BY <2>2 DEF HarnessInv
    <2>4. PinnedTo(Chain(u), w)'
      BY <2>1, <2>2, <2>3 DEF WorkInv
    <2> QED
      BY <1>2, <2>2, <2>4 DEF PinnedTo
  <1>6. CASE WorkersOf(c)' = WorkersOf(c)
    <2>1. Untouched(c)
      BY <1>2, <1>6 DEF Untouched, Begun
    <2>2. \A d \in Roots : Untouched(d)
      BY <1>4, <2>1
    <2> QED
      BY <2>2, Stutters
  <1>7. CASE WorkersOf(c)' # WorkersOf(c)
    <2>1. PICK w \in Runners : PinnedTo(c, w)
      <3>1. \E w : w \in WorkersOf(c) \/ w \in WorkersOf(c)'
        BY <1>7
      <3> QED
        BY <1>1, <1>5, <3>1, WorkersArePinned
    <2>2. chain[c].state \in Pinned /\ Begun(c)
      BY <2>1 DEF PinnedTo, Begun
    <2>3. WorkersOf(c)' \subseteq {chain[c].runner}
      BY <1>5 DEF PinnedTo
    <2>4. Pin!Work(c)
      BY <1>1, <1>2, <1>4, <2>2, <2>3, Works
    <2> QED
      BY <2>4 DEF c
  <1> QED
    BY <1>6, <1>7

(* The token arrives: the runner begins, if it still holds the chain.       *)
LEMMA DeliverPins ==
    ASSUME HarnessTypeOK, HarnessInv, FinishInv, NEW r \in Runners, Deliver(r)
    PROVE  Pin!Next \/ UNCHANGED Pin!vars
  <1>0. grant \in [Runners -> Grants]
    BY Rows
  <1>1. /\ call[r].at = "deliver" /\ chain' = chain /\ session' = session
        /\ grant'[r].chain = call[r].chain /\ \A s \in Runners \ {r} : grant'[s] = grant[s]
    BY <1>0 DEF Deliver, taskVars
  <1>2. RunnerInv(r)
    BY DEF HarnessInv
  <1>3. PICK c \in Roots : c = call[r].chain
    BY <1>1, <1>2 DEF RunnerInv
  <1>4. \A d \in Roots : WorkersOf(d)' = WorkersOf(d)
    BY <1>1 DEF WorkersOf, TasksOf
  <1>5. CASE grant[r].chain = c
    <2>1. \A d \in Roots : Begun(d)' = Begun(d)
      BY <1>1, <1>3, <1>5 DEF Begun
    <2> QED
      BY <1>1, <1>4, <2>1, Stutters DEF Untouched
  <1>6. CASE grant[r].chain # c
    <2>1. grant[r] = NoGrant /\ call[r].pinned
      BY <1>1, <1>2, <1>3, <1>6 DEF RunnerInv
    <2>2. \A d \in Roots : grant[r].chain # d
      BY <2>1, ChainIsRoot DEF NoGrant
    <2>3. \A d \in Roots \ {c} : Begun(d)' = Begun(d)
      BY <1>1, <1>3, <2>2 DEF Begun
    <2>4. \A d \in Roots \ {c} : Untouched(d)
      BY <1>1, <1>4, <2>3 DEF Untouched
    <2>5. CASE chain[c].runner # r
      <3>1. Begun(c)' = Begun(c)
        BY <1>1, <2>5 DEF Begun
      <3>2. \A d \in Roots : Untouched(d)
        BY <1>1, <1>4, <2>4, <3>1 DEF Untouched
      <3> QED
        BY <3>2, Stutters
    <2>6. CASE chain[c].runner = r
      <3>1. ~Begun(c) /\ Begun(c)'
        BY <1>1, <1>3, <2>2, <2>6 DEF Begun
      <3>2. chain[c].state \in Pinned
        <4>1. chain[c].state \notin {"none", "queued"}
          BY <1>3, <2>6, RunnersAssumption DEF HarnessInv, ChainInv
        <4>2. chain[c].state # "done"
          BY <1>1, <1>3, <2>1, <2>6 DEF FinishInv
        <4>3. chain[c].state \in ChainStates
          BY <1>3, Rows DEF ChainRows
        <4> QED
          BY <4>1, <4>2, <4>3 DEF ChainStates, Pinned
      <3>3. Pin!Begin(c)
        BY <1>1, <1>3, <1>4, <2>4, <3>1, <3>2, Begins
      <3> QED
        BY <1>3, <3>3 DEF Pin!Next
    <2> QED
      BY <2>5, <2>6
  <1> QED
    BY <1>5, <1>6

(* A claim is given up before the runner has begun.                         *)
LEMMA ReleasePins ==
    ASSUME HarnessTypeOK, HarnessInv, FinishInv, NEW r \in Runners, ReleaseClaim(r), call[r].pinned
    PROVE  Pin!Next \/ UNCHANGED Pin!vars
  <1>1. /\ RunnerInv(r) /\ call[r].at = "deliver" /\ grant' = grant /\ session' = session
    BY DEF HarnessInv, ReleaseClaim, taskVars
  <1>a. call[r].chain \in Roots
    BY <1>1 DEF RunnerInv
  <1>b. PICK c \in Roots : c = call[r].chain
    BY <1>a
  <1>2. c \in Roots /\ grant[r] = NoGrant /\ c # Nobody
    BY <1>1, ChainIsRoot DEF RunnerInv
  <1>3. /\ \A d \in Roots \ {c} : chain'[d] = chain[d]
        /\ chain[c].runner # r => chain' = chain
        /\ chain[c].runner = r =>
              /\ chain'[c].state \in {"queued", "done"} /\ chain'[c].runner = Nobody
              /\ chain'[c].clean = chain[c].clean
    BY <1>a, <1>b, ReleaseRow
  <1>4. \A d \in Roots : WorkersOf(d)' = WorkersOf(d)
    BY <1>1 DEF WorkersOf, TasksOf
  <1>5. \A d \in Roots \ {c} : Untouched(d)
    BY <1>1, <1>3, <1>4 DEF Untouched, Begun
  <1>6. CASE chain[c].runner # r
    BY <1>1, <1>3, <1>6, QuietStep
  <1>7. CASE chain[c].runner = r
    <2>1. ~Begun(c) /\ ~Begun(c)'
      BY <1>1, <1>2, <1>3, <1>7, RunnersAssumption DEF Begun, NoGrant
    <2>2. WorkersOf(c) = {}
      <3>1. \A w \in WorkersOf(c) : PinnedTo(c, w) /\ w \in Runners
        BY <1>2, WorkersArePinned
      <3>2. \A w \in WorkersOf(c) : FALSE
        BY <1>2, <1>7, <3>1 DEF PinnedTo, NoGrant
      <3> QED
        BY <3>2
    <2>3. chain[c].state \in Pinned
      <3>1. chain[c].state \notin {"none", "queued"}
        BY <1>2, <1>7, RunnersAssumption DEF HarnessInv, ChainInv
      <3>2. chain[c].state # "done"
        BY <1>1, <1>2, <1>7 DEF FinishInv
      <3>3. chain[c].state \in ChainStates
        BY <1>2, Rows DEF ChainRows
      <3> QED
        BY <3>1, <3>2, <3>3 DEF ChainStates, Pinned
    <2>4. Pin!GiveUp(c)
      BY <1>2, <1>3, <1>4, <1>5, <1>7, <2>1, <2>2, <2>3, Gives
    <2> QED
      BY <1>2, <2>4 DEF Pin!Next
  <1> QED
    BY <1>6, <1>7

LEMMA ClaimPins ==
    ASSUME HarnessTypeOK, HarnessInv, NEW r \in Runners, NEW t \in Tasks, Claim(r, t)
    PROVE  Pin!Next
  <1> DEFINE c == Chain(t)
  <1>1. c \in Roots /\ c # Nobody /\ c \in Tasks
    BY ChainIsRoot
  <1>2. /\ call[r].at = "poll" /\ grant' = grant /\ session' = session
        /\ chain[c].state \in {"none", "queued"}
    BY DEF Claim, Claimable, taskVars
  <1>3. /\ chain'[c].state = "running" /\ chain'[c].runner = r /\ ~chain'[c].clean
        /\ chain' \in [Roots -> ChainRows]
        /\ \A d \in Roots \ {c} : chain'[d] = chain[d]
    BY ClaimRow
  <1> HIDE DEF c
  <1>4. chain'[c].clean = FALSE
    BY <1>1, <1>3 DEF ChainRows
  <1>5. \A d \in Roots : WorkersOf(d)' = WorkersOf(d)
    BY <1>2 DEF WorkersOf, TasksOf
  <1>6. \A d \in Roots \ {c} : Untouched(d)
    BY <1>2, <1>3, <1>5 DEF Untouched, Begun
  <1>7. grant[r] = NoGrant
    BY <1>2 DEF HarnessInv, RunnerInv
  <1>8. chain[c].runner = Nobody
    BY <1>1, <1>2 DEF HarnessInv, ChainInv
  <1>9. ~Begun(c) /\ ~Begun(c)'
    BY <1>1, <1>2, <1>3, <1>7, <1>8, RunnersAssumption DEF Begun, NoGrant
  <1>10. Begun(c)' = Begun(c)
    BY <1>9 DEF Begun
  <1>11. Pin!Take(c, r)
    BY <1>1, <1>2, <1>3, <1>4, <1>5, <1>6, <1>10, Takes
  <1> QED
    BY <1>1, <1>11 DEF Pin!Next

LEMMA EndPins ==
    ASSUME HarnessTypeOK, HarnessInv, NEW r \in Runners, Finish(r) \/ Expire(r)
    PROVE  Pin!Next \/ UNCHANGED Pin!vars
  <1>0. chain \in [Roots -> ChainRows]
    BY Rows
  <1>1. grant' = grant /\ session' = session
    BY DEF Finish, Expire, taskVars
  <1>2. \A d \in Roots : WorkersOf(d)' = WorkersOf(d)
    BY <1>1 DEF WorkersOf, TasksOf
  <1>3. \/ chain' = chain
        \/ \E c \in Roots : Holds(r, c) /\ chain' = Fence(c)
        \/ \E c \in Roots :
             /\ Holds(r, c) /\ ~ChainOpen(c)
             /\ chain'[c] = [chain[c] EXCEPT !.state = "done"]
             /\ \A d \in Roots \ {c} : chain'[d] = chain[d]
    BY ExpireRow, FinishRow
  <1>4. CASE chain' = chain
    BY <1>1, <1>4, QuietStep
  <1>5. ASSUME NEW c \in Roots, Holds(r, c), chain' = Fence(c) PROVE Pin!Next
    <2>1. /\ chain'[c].state = "fencing" /\ chain'[c].runner = chain[c].runner
          /\ chain'[c].clean = chain[c].clean
          /\ \A d \in Roots \ {c} : chain'[d] = chain[d]
      BY <1>0, <1>5, FenceRow
    <2>2. \A d \in Roots : Begun(d)' = Begun(d)
      BY <1>1, <2>1 DEF Begun
    <2>3. \A d \in Roots \ {c} : Untouched(d)
      BY <1>2, <2>1, <2>2 DEF Untouched
    <2>4. chain[c].state = "running"
      BY <1>5 DEF Holds
    <2>5. Pin!Lose(c)
      BY <1>2, <2>1, <2>2, <2>3, <2>4, Loses
    <2> QED
      BY <2>5 DEF Pin!Next
  <1>6. ASSUME NEW c \in Roots, Holds(r, c), ~ChainOpen(c),
               chain'[c] = [chain[c] EXCEPT !.state = "done"],
               \A d \in Roots \ {c} : chain'[d] = chain[d]
        PROVE  Pin!Next
    <2>1. /\ chain'[c].state = "done" /\ chain'[c].runner = chain[c].runner
          /\ chain'[c].clean = chain[c].clean
      BY <1>0, <1>6 DEF ChainRows
    <2>a. \A d \in Roots : chain'[d].runner = chain[d].runner
      <3>1. \A d \in Roots \ {c} : chain'[d] = chain[d]
        BY <1>6
      <3> QED
        BY <2>1, <3>1
    <2>2. \A d \in Roots : Begun(d)' = Begun(d)
      BY <1>1, <2>a DEF Begun
    <2>3. \A d \in Roots \ {c} : Untouched(d)
      BY <1>2, <1>6, <2>2 DEF Untouched
    <2>4. WorkersOf(c) = {}
      <3> SUFFICES ASSUME NEW w \in WorkersOf(c) PROVE FALSE
        OBVIOUS
      <3>1. PICK t \in TasksOf(c) : session[t][w] = "open" /\ w \in Runners
        BY DEF WorkersOf
      <3>2. ~Working(t) /\ t \in Tasks
        BY <1>6 DEF ChainOpen, TasksOf
      <3>3. ~SessionOpen(t)
        BY <3>2 DEF HarnessInv, TaskInv, Working
      <3> QED
        BY <3>1, <3>3, RunnersAssumption DEF SessionOpen
    <2>5. WorkersOf(c)' = {}
      BY <1>2, <2>4
    <2>6. chain[c].state = "running"
      BY <1>6 DEF Holds
    <2>7. Pin!Complete(c)
      BY <2>1, <2>2, <2>3, <2>4, <2>5, <2>6, Completes
    <2> QED
      BY <2>7 DEF Pin!Next
  <1> QED
    BY <1>3, <1>4, <1>5, <1>6

LEMMA ResultPins ==
    ASSUME HarnessTypeOK, HarnessInv, NEW s \in Sweepers, NEW ok \in BOOLEAN, SetFenceResult(s, ok)
    PROVE  Pin!Next \/ UNCHANGED Pin!vars
  <1>0. chain \in [Roots -> ChainRows]
    BY Rows
  <1>1. grant' = grant /\ session' = session
    BY DEF SetFenceResult, taskVars
  <1>2. \A d \in Roots : WorkersOf(d)' = WorkersOf(d)
    BY <1>1 DEF WorkersOf, TasksOf
  <1>3. \A d \in Roots \ {sweep[s].chain} : chain'[d] = chain[d]
    BY ResultRow
  <1>4. ASSUME NEW c \in Roots, chain'[c] # chain[c] PROVE Pin!Next
    <2>1. /\ c = sweep[s].chain /\ chain[c].state \in {"fencing", "stuck"}
          /\ chain'[c] = [chain[c] EXCEPT !.state = IF ok THEN "fencing" ELSE "stuck",
                                          !.clean = ok]
      BY <1>4, ResultRow
    <2>2. chain[c] \in ChainRows
      BY <1>0
    <2>3. /\ chain'[c].state \in {"fencing", "stuck"} /\ chain'[c].clean = ok
          /\ chain'[c].runner = chain[c].runner
      BY <2>1, <2>2 DEF ChainRows
    <2>4. \A d \in Roots \ {c} : chain'[d] = chain[d]
      BY <1>3, <2>1
    <2>a. \A d \in Roots : chain'[d].runner = chain[d].runner
      BY <2>3, <2>4
    <2>5. \A d \in Roots : Begun(d)' = Begun(d)
      BY <1>1, <2>a DEF Begun
    <2>6. \A d \in Roots \ {c} : Untouched(d)
      BY <1>2, <2>4, <2>5 DEF Untouched
    <2>7. Pin!Revoke(c)
      BY <1>2, <2>1, <2>3, <2>5, <2>6, Revokes
    <2> QED
      BY <2>7 DEF Pin!Next
  <1>5. CASE \A c \in Roots : chain'[c] = chain[c]
    <2>1. \A c \in Roots : Untouched(c)
      BY <1>1, <1>2, <1>5 DEF Untouched, Begun
    <2> QED
      BY <2>1, Stutters
  <1> QED
    BY <1>4, <1>5

LEMMA RequeuePins ==
    ASSUME HarnessTypeOK, HarnessInv, NEW c \in Roots, Requeue(c)
    PROVE  Pin!Next
  <1>1. /\ grant' = grant /\ chain[c].state = "fencing" /\ chain[c].clean
    BY DEF Requeue
  <1>2. /\ chain'[c].state \in {"queued", "done"} /\ chain'[c].runner = Nobody
        /\ chain'[c].clean = chain[c].clean
        /\ \A d \in Roots \ {c} : chain'[d] = chain[d]
    BY RequeueRow
  <1>3. \A t \in Tasks :
            IF t \in TasksOf(c) /\ Working(t)
            THEN \A k \in Keys : session'[t][k] = IF session[t][k] = "open" THEN "closed"
                                                  ELSE session[t][k]
            ELSE session'[t] = session[t]
    BY RequeueRow
  <1>4. ASSUME NEW d \in Roots \ {c} PROVE Untouched(d)
    <2>1. \A t \in TasksOf(d) : t \in Tasks /\ t \notin TasksOf(c)
      BY DEF TasksOf
    <2>2. \A t \in TasksOf(d) : session'[t] = session[t]
      BY <1>3, <2>1
    <2>3. WorkersOf(d)' = WorkersOf(d)
      BY <2>2 DEF WorkersOf, TasksOf
    <2> QED
      BY <1>1, <1>2, <2>3 DEF Untouched, Begun
  <1>5. WorkersOf(c)' = {}
    <2> SUFFICES ASSUME NEW w \in WorkersOf(c)' PROVE FALSE
      OBVIOUS
    <2>1. PICK t \in TasksOf(c) : session'[t][w] = "open" /\ w \in Keys
      BY RunnersAssumption DEF WorkersOf, TasksOf
    <2>2. t \in Tasks
      BY DEF TasksOf
    <2>3. CASE Working(t)
      BY <1>3, <2>1, <2>2, <2>3
    <2>4. CASE ~Working(t)
      <3>1. ~SessionOpen(t)
        BY <2>2, <2>4 DEF HarnessInv, TaskInv, Working
      <3>2. session'[t] = session[t]
        BY <1>3, <2>2, <2>4
      <3> QED
        BY <2>1, <3>1, <3>2 DEF SessionOpen
    <2> QED
      BY <2>3, <2>4
  <1>6. ~Begun(c)'
    BY <1>2, RunnersAssumption DEF Begun
  <1>7. Pin!GiveUp(c)
    BY <1>1, <1>2, <1>4, <1>5, <1>6, Gives
  <1> QED
    BY <1>7 DEF Pin!Next

LEMMA PinStep ==
    ASSUME "stop" \notin Faults, HarnessTypeOK, HarnessInv, FinishInv, HarnessInv',
           [HarnessNext]_vars
    PROVE  [Pin!Next]_Pin!vars
  <1>1. CASE UNCHANGED vars
    BY <1>1, QuietStep DEF vars, harnessVars, taskVars
  <1>2. ASSUME NEW t \in Tasks, (TaskStep(t) /\ UNCHANGED harnessVars)
                               \/ \E k \in Keys : OpenBy(t, k)
        PROVE  Pin!Next \/ UNCHANGED Pin!vars
    <2>1. CASE TaskStep(t) /\ UNCHANGED harnessVars
      <3>1. Pin!Work(Chain(t)) \/ UNCHANGED Pin!vars
        BY <2>1, TaskPins
      <3> QED
        BY <3>1, ChainIsRoot DEF Pin!Next
    <2>2. CASE \E k \in Keys : OpenBy(t, k)
      BY <2>2, QuietStep DEF OpenBy, SendOpen, harnessVars
    <2> QED
      BY <1>2, <2>1, <2>2
  <1>3. ASSUME NEW r \in Runners, RunnerStep(r) PROVE Pin!Next \/ UNCHANGED Pin!vars
    <2>1. CASE Register(r) \/ Poll(r) \/ PollEnds(r) \/ LoseClaim(r) \/ SendFinish(r)
               \/ (\E t \in Tasks : ClaimChild(r, t)) \/ (ReleaseClaim(r) /\ ~call[r].pinned)
      BY <2>1, QuietStep DEF Register, Poll, PollEnds, LoseClaim, SendFinish, ClaimChild,
         ReleaseClaim, taskVars
    <2>2. call[r].pinned \in BOOLEAN
      BY Rows DEF Calls
    <2> QED
      BY <1>3, <2>1, <2>2, DeliverPins, ReleasePins, ClaimPins, EndPins DEF RunnerStep
  <1>4. CASE SweepStep
    <2>1. CASE \E s \in Sweepers, c \in Roots : ReadFencing(s, c)
      BY <2>1, QuietStep DEF ReadFencing, taskVars
    <2> QED
      BY <1>4, <2>1, ResultPins, RequeuePins DEF SweepStep
  <1> QED
    BY <1>1, <1>2, <1>3, <1>4 DEF HarnessNext

(* The pool keeps its promise: a chain changes hands only when its holder   *)
(* never began, or is fenced, swept clean and out of work. Every step of    *)
(* the pool is a step of ChainPin, or changes nothing there.                *)
THEOREM PoolKeepsItsPromise ==
    ASSUME "stop" \notin Faults
    PROVE  HarnessSpec => PinSpec
<1>1. HarnessInit => Pin!Init
  <2> SUFFICES ASSUME HarnessInit PROVE Pin!Init
    OBVIOUS
  <2>1. Phase = [c \in Roots |-> "free"] /\ Holder = [c \in Roots |-> Nobody]
        /\ Clean = [c \in Roots |-> FALSE]
    BY Phases DEF HarnessInit, Phase, Holder, Clean
  <2>2. \A c \in Roots : (Begun(c) = FALSE) /\ WorkersOf(c) = {}
    BY RunnersAssumption DEF HarnessInit, TasksInit, Begun, WorkersOf, TasksOf
  <2>3. HasBegun = [c \in Roots |-> FALSE] /\ Workers = [c \in Roots |-> {}]
    BY <2>2 DEF HasBegun, Workers
  <2> QED
    BY <2>1, <2>3 DEF Pin!Init, Phase, Holder, HasBegun, Clean, Workers, Begun
<1> QED
  BY <1>1, PinStep, HarnessKeeps, HarnessTyping, HarnessAlways, FinishAlways, PTL
     DEF HarnessSpec, PinSpec, Pin!Spec
================================================================================
