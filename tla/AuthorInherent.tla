--------------------------- MODULE AuthorInherent ---------------------------
(***************************************************************************)
(* pallets/author-inherent: who made the block.  The producer's node puts  *)
(* its account into the block as the call set_author, which stores it for  *)
(* the rest of the block and logs it in the header.                        *)
(*                                                                         *)
(* set_author is of class Mandatory: a block in which it fails is invalid, *)
(* as is one whose on_finalize panics.  The executive, which is a library, *)
(* then drops the block and everything it wrote; the caller of this module *)
(* restores the storage.  check_inherent accepts any claim, so the claims  *)
(* of a block are whatever its producer wrote.                             *)
(***************************************************************************)
EXTENDS Integers, Sequences

CONSTANTS
  Authors,       \* accounts a producer may claim to be
  NoAuthor,      \* Option::None
  MaxClaims      \* bound: calls of set_author in one block

ASSUME AuthorAssumption == NoAuthor \notin Authors /\ MaxClaims \in Nat

VARIABLES
  phase,         \* "between" blocks, or "executing" one
  claims,        \* the calls of set_author left in the block
  author,        \* Author
  logs           \* the author digests of the block's header

authorVars == <<phase, claims, author, logs>>

\* create_inherent: no call without inherent data.  Another producer's block
\* may hold any number of them.
CreateInherent(data) == IF data = NoAuthor THEN <<>> ELSE <<data>>

Bodies == {CreateInherent(d) : d \in Authors \cup {NoAuthor}}
            \cup UNION {[1 .. n -> Authors] : n \in 0 .. MaxClaims}

\* Author of the previous block left in place.
MutCleared == author

\* <Author<T>>::kill()
Cleared == NoAuthor

\* on_initialize; the system pallet starts the block with an empty digest.
AuthorInitialize(body) ==
  /\ phase = "between"
  /\ phase' = "executing"
  /\ claims' = body
  /\ author' = Cleared
  /\ logs' = <<>>

\* AuthorAlreadySet not checked.
MutCanSetAuthor == TRUE

\* AuthorAlreadySet
CanSetAuthor == author = NoAuthor

SetAuthor ==
  /\ phase = "executing" /\ claims # <<>>
  /\ CanSetAuthor
  /\ author' = Head(claims)
  /\ logs' = Append(logs, Head(claims))
  /\ claims' = Tail(claims)
  /\ UNCHANGED phase

\* The assertion dropped.
MutAuthorWasSet == TRUE

\* The assertion in on_finalize: "No valid author set in block".
AuthorWasSet == author # NoAuthor

AuthorFinalize ==
  /\ phase = "executing" /\ claims = <<>>
  /\ AuthorWasSet
  /\ phase' = "between"
  /\ UNCHANGED <<claims, author, logs>>

\* A failed mandatory call, or the panic in on_finalize.
Invalid ==
  /\ phase = "executing"
  /\ IF claims = <<>> THEN ~ AuthorWasSet ELSE ~ CanSetAuthor

\* find_author: the author, as far as it is known at this point of the block.
FindAuthor == author
=============================================================================
