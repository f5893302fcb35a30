--------------------------- MODULE SharedOwnership ---------------------------
(***************************************************************************)
(* What intrusive_ptr.h promises to a user of its handles, with no counts, *)
(* no control blocks and no atomic operations: an object lives as long as  *)
(* somebody owns it, is destroyed once nobody does, and its bookkeeping is *)
(* reclaimed once nobody watches it either.  IntrusivePtr implements this, *)
(* and so does OwnershipGraph, whose owners are members of objects.        *)
(***************************************************************************)
CONSTANTS
  Object,   \* the objects that may come to be shared
  Owner,    \* the places that hold a strong reference
  Watcher,  \* the places that hold a weak reference
  NULL

VARIABLES
  own,      \* own[x]: the object that owner x keeps alive
  watch,    \* watch[w]: the object that watcher w knows of
  stage     \* stage[o]: how far the life of o has got

svars == <<own, watch, stage>>

Stage == {"none", "live", "dead", "reclaimed"}

SharedTypeOK ==
  /\ own \in [Owner -> Object \cup {NULL}]
  /\ watch \in [Watcher -> Object \cup {NULL}]
  /\ stage \in [Object -> Stage]

SharedInit ==
  /\ own = [x \in Owner |-> NULL]
  /\ watch = [w \in Watcher |-> NULL]
  /\ stage = [o \in Object |-> "none"]

Owned(o) == \E x \in Owner : own[x] = o

Watched(o) == \E w \in Watcher : watch[w] = o

-----------------------------------------------------------------------------
Create(x, o) ==
  /\ own[x] = NULL /\ stage[o] = "none"
  /\ own' = [own EXCEPT ![x] = o]
  /\ stage' = [stage EXCEPT ![o] = "live"]
  /\ UNCHANGED watch

\* Copying an owner, and promoting a watcher: only what is owned can be shared.
\* What x owned before, it gives up.
Share(x, o) ==
  /\ Owned(o)
  /\ own' = [own EXCEPT ![x] = o]
  /\ UNCHANGED <<watch, stage>>

Observe(w, o) ==
  /\ watch[w] = NULL /\ (Owned(o) \/ Watched(o))
  /\ watch' = [watch EXCEPT ![w] = o]
  /\ UNCHANGED <<own, stage>>

Drop(x) ==
  /\ own' = [own EXCEPT ![x] = NULL]
  /\ UNCHANGED <<watch, stage>>

Forget(w) ==
  /\ watch' = [watch EXCEPT ![w] = NULL]
  /\ UNCHANGED <<own, stage>>

ExchangeOwners(x, y) ==
  /\ own' = [own EXCEPT ![x] = own[y], ![y] = own[x]]
  /\ UNCHANGED <<watch, stage>>

ExchangeWatchers(v, w) ==
  /\ watch' = [watch EXCEPT ![v] = watch[w], ![w] = watch[v]]
  /\ UNCHANGED <<own, stage>>

\* Whoever destroys o still has to give up what o knew of itself.
Destroy(o) ==
  /\ stage[o] = "live" /\ ~Owned(o)
  /\ stage' = [stage EXCEPT ![o] = "dead"]
  /\ \E w \in Watcher : watch[w] = NULL /\ watch' = [watch EXCEPT ![w] = o]
  /\ UNCHANGED own

Reclaim(o) ==
  /\ stage[o] = "dead" /\ ~Watched(o)
  /\ stage' = [stage EXCEPT ![o] = "reclaimed"]
  /\ UNCHANGED <<own, watch>>

SharedNext ==
  \/ \E x \in Owner, o \in Object : Create(x, o) \/ Share(x, o)
  \/ \E w \in Watcher, o \in Object : Observe(w, o)
  \/ \E x \in Owner : Drop(x)
  \/ \E w \in Watcher : Forget(w)
  \/ \E x, y \in Owner : ExchangeOwners(x, y)
  \/ \E v, w \in Watcher : ExchangeWatchers(v, w)
  \/ \E o \in Object : Destroy(o) \/ Reclaim(o)

SharedSpec == SharedInit /\ [][SharedNext]_svars

\* Destruction and reclamation are not left undone.
SharedFairSpec ==
  /\ SharedSpec
  /\ \A o \in Object : WF_svars(Destroy(o)) /\ WF_svars(Reclaim(o))
=============================================================================
