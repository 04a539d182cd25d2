----------------------------- MODULE CallPaths ------------------------------
(***************************************************************************)
(* Runs one system call (SysPaths) or one activation of the network stack  *)
(* (its second half), every failure possible, through all it calls.        *)
(***************************************************************************)
EXTENDS SysPaths, SequencesExt, Bags

VARIABLES activations,  \* call stack: function, next step, whether it went well so far
          held,    \* object -> how many of it are held
          ptr,     \* pointer variables that were given a value
          astray,  \* history: something not held was released
          lossy,   \* history: a Lossy step went wrong
          called   \* the system call that runs, and its result

pathVars == <<activations, held, ptr, astray, lossy, called>>

Entries == DOMAIN SysEntry \cup DOMAIN NetEntry \cup DOMAIN Contract
Body(f) == CASE f \in DOMAIN SysEntry -> SysEntry[f]
             [] f \in DOMAIN NetEntry -> NetEntry[f]
             [] f \in DOMAIN SysFunction -> SysFunction[f]
             [] OTHER -> NetFunction[f]

(* The system calls that return a new descriptor. *)
Opens == {"sys_open", "sys_socket", "sys_accept"}

(* What a call starts with, and what it leaves. *)
Promise(f) == CASE f \in DOMAIN Contract -> Contract[f]
                [] f \in Opens -> Returns({"fd"})
                [] OTHER -> Returns({})

PathInit ==
  /\ called \in [f : Entries, st : {"running"}]
  /\ activations = <<[f |-> called.f, pc |-> 1, ok |-> TRUE]>>
  /\ held = SetToBag(Promise(called.f).in)
  /\ ptr = {} /\ astray = FALSE /\ lossy = FALSE

Running == activations # <<>> /\ Last(activations).pc <= Len(Body(Last(activations).f))
Now == Body(Last(activations).f)[Last(activations).pc]

(* Continue at step l of the running function; 0 is its end. *)
JumpTo(l, ok) ==
  activations' = [activations EXCEPT ![Len(activations)] =
               [@ EXCEPT !.pc = IF l = 0 THEN Len(Body(Last(activations).f)) + 1 ELSE l, !.ok = ok]]
Ahead == Last(activations).pc + 1
Good == Last(activations).ok
Holds(o) == BagIn(o, held)

Proceed ==
  /\ Running
  /\ Now.op \in {"chk", "get", "got", "skip", "again", "put", "putif", "putown", "move", "lose"}
  /\ JumpTo(Ahead, Good)
  /\ held' = CASE Now.op \in {"get", "got"} -> held (+) SetToBag({Now.o})
               [] Now.op \in {"put", "putown"} \/ (Now.op = "putif" /\ Now.o \in ptr) ->
                    held (-) SetToBag({Now.o})
               [] Now.op = "move" -> (held (-) SetToBag({Now.o})) (+) SetToBag({"fd"})
               [] OTHER -> held
  /\ ptr' = IF Now.op \in {"get", "got"} THEN ptr \cup {Now.o} ELSE ptr
  /\ LET wrong == /\ Now.op = "put" \/ (Now.op = "putif" /\ Now.o \in ptr)
                  /\ ~Holds(Now.o)
     IN  /\ astray' = (astray \/ wrong)
         /\ lossy' = (lossy \/ (Now.lossy /\ (wrong \/ (Now.op = "lose" /\ Holds(Now.o)))))
  /\ UNCHANGED called

(* Another way on: a condition that does not hold, a loop, a jump. *)
Branch ==
  /\ Running
  /\ \/ Now.op = "skip" /\ JumpTo(Ahead + Now.l, Good)
     \/ Now.op = "again" /\ JumpTo(Now.l, TRUE)
     \/ Now.op = "goto" /\ JumpTo(Now.l, Good)
     \/ Now.op = "ok" /\ JumpTo(0, TRUE)
  /\ lossy' = (lossy \/ Now.lossy)
  /\ UNCHANGED <<held, ptr, astray, called>>

Fail ==
  /\ Running /\ Now.op \in {"chk", "get", "fail"}
  /\ JumpTo(Now.l, FALSE)
  /\ lossy' = (lossy \/ Now.lossy)
  /\ UNCHANGED <<held, ptr, astray, called>>

Enter ==
  /\ Running /\ Now.op = "call" /\ Now.o \notin DOMAIN Contract
  /\ activations' = Append(activations, [f |-> Now.o, pc |-> 1, ok |-> TRUE])
  /\ UNCHANGED <<held, ptr, astray, lossy, called>>

(* A function with a contract: it takes over and leaves what it promises. *)
Trust ==
  /\ Running /\ Now.op = "call" /\ Now.o \in DOMAIN Contract
  /\ LET c == Contract[Now.o] IN
     \E out \in {"ok", "fail"} :
        /\ held' = (held (-) SetToBag(c.in)) (+) SetToBag(c[out])
        /\ astray' = (astray \/ \E o \in c.in : ~Holds(o))
        /\ IF out = "ok" THEN JumpTo(Ahead, Good) ELSE JumpTo(Now.l, FALSE)
        /\ lossy' = (lossy \/ (Now.lossy /\ out = "fail"))
  /\ UNCHANGED <<ptr, called>>

(* Back in the caller, which goes on or takes its error path. *)
Leave ==
  /\ activations # <<>> /\ ~Running
  /\ LET up == Front(activations)
         site == Body(Last(up).f)[Last(up).pc]
     IN  IF up = <<>> THEN /\ activations' = <<>>
                           /\ called' = [called EXCEPT !.st = IF Good THEN "ok" ELSE "failed"]
                           /\ UNCHANGED lossy
         ELSE /\ activations' = [up EXCEPT ![Len(up)] =
                              IF Good THEN [@ EXCEPT !.pc = @ + 1]
                              ELSE [@ EXCEPT !.pc = IF site.l = 0 THEN Len(Body(Last(up).f)) + 1
                                                    ELSE site.l, !.ok = FALSE]]
              /\ lossy' = (lossy \/ (site.lossy /\ ~Good))
              /\ UNCHANGED called
  /\ UNCHANGED <<held, ptr, astray>>

PathNext == Proceed \/ Branch \/ Fail \/ Enter \/ Trust \/ Leave

PathSpec == PathInit /\ [][PathNext]_pathVars

(* Nothing is claimed of a call that took one of the Lossy steps. *)
PathSound == ~lossy
-----------------------------------------------------------------------------
(* Whatever fails on the way, a system call or an activation of the        *)
(* network stack releases all that it and the functions below it took,     *)
(* each thing once, and leaves just what its callers count on: the         *)
(* descriptor an open returns, the buffers a contract (Promise) keeps;     *)
(* unless it went through one of the steps marked Lossy.                   *)
Balanced ==
  (called.st # "running" /\ ~lossy) =>
    /\ ~astray
    /\ held = SetToBag(Promise(called.f)[IF called.st = "ok" THEN "ok" ELSE "fail"])
=============================================================================
