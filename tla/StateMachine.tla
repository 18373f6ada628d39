---------------------------- MODULE StateMachine ----------------------------
(***************************************************************************)
(* The enclave state machine of shawncore-rtos-sync: an AtomicU8 that      *)
(* several threads advance with a compare-and-swap loop.  The exchange is  *)
(* the weak one, so it may fail although the value is the expected one.    *)
(***************************************************************************)
EXTENDS Naturals, Sequences

CONSTANTS
    Callers,
    MaxAdvances   \* bound: successful transitions explored

ASSUME AdvanceAssumption == MaxAdvances \in Nat

States == 0 .. 4
Terminal == 4

VARIABLES
    current_state,  \* the atomic
    machine_pc,     \* "idle", "load" or "exchange", of each thread
    target,         \* the state a call asks for
    current,        \* the value a call last read
    advances        \* ghost: the transitions reported Ok, in order

machineVars == <<current_state, machine_pc, target, current, advances>>

valid(from, to) ==
    <<from, to>> \in {<<0, 1>>, <<1, 2>>, <<1, 4>>, <<2, 3>>, <<2, 4>>, <<3, 4>>, <<3, 2>>}

MachineInit ==
    /\ current_state = 0
    /\ machine_pc = [t \in Callers |-> "idle"]
    /\ target = [t \in Callers |-> 0]
    /\ current = [t \in Callers |-> 0]
    /\ advances = <<>>

Call(t, s) ==
    /\ machine_pc[t] = "idle"
    /\ machine_pc' = [machine_pc EXCEPT ![t] = "load"]
    /\ target' = [target EXCEPT ![t] = s]
    /\ UNCHANGED <<current_state, current, advances>>

\* Where a call goes with the value it has just read: on to the exchange, or
\* back to its caller with Err.
Judge(t, observed) ==
    IF valid(observed, target[t])
    THEN /\ machine_pc' = [machine_pc EXCEPT ![t] = "exchange"]
         /\ current' = [current EXCEPT ![t] = observed]
         /\ UNCHANGED target
    ELSE /\ machine_pc' = [machine_pc EXCEPT ![t] = "idle"]
         /\ current' = [current EXCEPT ![t] = 0]
         /\ target' = [target EXCEPT ![t] = 0]

Load(t) ==
    /\ machine_pc[t] = "load"
    /\ Judge(t, current_state)
    /\ UNCHANGED <<current_state, advances>>

\* A plain store of the target instead of the exchange.
StoreUnchecked(t) ==
    /\ machine_pc[t] = "exchange"
    /\ Len(advances) < MaxAdvances
    /\ current_state' = target[t]
    /\ advances' = Append(advances, [from |-> current[t], to |-> target[t]])
    /\ machine_pc' = [machine_pc EXCEPT ![t] = "idle"]
    /\ current' = [current EXCEPT ![t] = 0]
    /\ target' = [target EXCEPT ![t] = 0]

Exchange(t) ==
    /\ machine_pc[t] = "exchange"
    /\ current_state = current[t]
    /\ Len(advances) < MaxAdvances
    /\ current_state' = target[t]
    /\ advances' = Append(advances, [from |-> current[t], to |-> target[t]])
    /\ machine_pc' = [machine_pc EXCEPT ![t] = "idle"]
    /\ current' = [current EXCEPT ![t] = 0]
    /\ target' = [target EXCEPT ![t] = 0]

\* The exchange fails, for a changed value or spuriously, and the loop goes
\* round with the value it returned.
ExchangeFails(t) ==
    /\ machine_pc[t] = "exchange"
    /\ Judge(t, current_state)
    /\ UNCHANGED <<current_state, advances>>

try_advance(t) == Load(t) \/ Exchange(t) \/ ExchangeFails(t)

MachineNext == \E t \in Callers : (\E s \in States : Call(t, s)) \/ try_advance(t)

MachineSpec == MachineInit /\ [][MachineNext]_machineVars

-----------------------------------------------------------------------------
\* The atomic always holds one of the five states, and a call carries states.
MachineTypeOK ==
    /\ current_state \in States
    /\ machine_pc \in [Callers -> {"idle", "load", "exchange"}]
    /\ target \in [Callers -> States]
    /\ current \in [Callers -> States]
    /\ advances \in Seq([from : States, to : States])

\* The transitions reported Ok are exactly those that happened: each is a documented
\* one and starts where the one before it ended, and the last one ended in the current
\* state.  So no two callers are both told that they left one state, nothing leaves
\* Terminal and nothing returns to Init (compare_exchange_weak in try_advance).
ReportedTransitionsChain ==
    /\ \A i \in 1 .. Len(advances) :
           /\ valid(advances[i].from, advances[i].to)
           /\ advances[i].from = IF i = 1 THEN 0 ELSE advances[i - 1].to
    /\ current_state = IF advances = <<>> THEN 0 ELSE advances[Len(advances)].to
=============================================================================
