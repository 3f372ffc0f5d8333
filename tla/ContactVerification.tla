------------------------- MODULE ContactVerification -------------------------
(* The codes sent to one e-mail address of one integration                   *)
(* (contact-verification, external-identity-store and public-rate-limit      *)
(* services).  Codes are asked for and tried by several clients at once; a   *)
(* try reads the challenge, pays its quotas, and only then compares.         *)
EXTENDS Integers, Sequences, FiniteSets

CONSTANTS
    Askers, Guessers,     \* calls of each kind that can run at once
    MaxChallenges,        \* bound on the challenges inserted
    MaxAttempts,          \* otpMaxAttempts
    RequestLimit,         \* verificationRequestsPerHour
    AttemptLimit          \* verificationAttemptsPerHour

ASSUME VerificationAssumption ==
    /\ {MaxChallenges, MaxAttempts, RequestLimit, AttemptLimit} \subseteq Nat \ {0}
    /\ IsFiniteSet(Guessers)

VARIABLES
    challenges,    \* the rows of external_verification_challenges
    asking,        \* calls of requestEmail about to begin their transaction
    guessing,      \* guessing[g]: the challenge that call g of consumeEmail has read
    quota,         \* the counters of the contact in Redis, for the current hour
    tries          \* codes compared in the current hour

verVars == <<challenges, asking, guessing, quota, tries>>

Challenge == [status: {"PENDING", "VERIFIED", "EXPIRED", "LOCKED"}, failed: 0 .. MaxAttempts,
              recent: BOOLEAN, lapsed: BOOLEAN, compared: Nat, opened: 0 .. 1]
NotGuessing == [pc |-> "idle"]
IsPending(i) == challenges[i].status = "PENDING"

VerTypeOK ==
    /\ challenges \in Seq(Challenge) /\ Len(challenges) <= MaxChallenges
    /\ \A i \in DOMAIN challenges : challenges[i].failed = MaxAttempts <=> challenges[i].status = "LOCKED"
    /\ asking \subseteq Askers
    /\ guessing \in [Guessers -> {NotGuessing} \cup [pc: {"quota", "compare"}, of: 1 .. MaxChallenges]]
    /\ quota \in [requests: 0 .. RequestLimit + 1, attempts: 0 .. AttemptLimit + 1]
    /\ tries \in Nat

VerInit ==
    /\ challenges = <<>> /\ asking = {} /\ tries = 0
    /\ guessing = [g \in Guessers |-> NotGuessing]
    /\ quota = [requests |-> 0, attempts |-> 0]

(* INCR, then the comparison with the limit, in one script: what is refused  *)
(* is counted too (a count past the limit is kept at limit + 1).             *)
Counted(n, limit) == IF n > limit THEN n ELSE n + 1

(* The hour of the counters is over.                                         *)
NextHour ==
    /\ quota' = [requests |-> 0, attempts |-> 0] /\ tries' = 0
    /\ UNCHANGED <<challenges, asking, guessing>>

-----------------------------------------------------------------------------

(* requestEmail: quotas, then the search for a code sent a moment ago.       *)
RequestEmail(a) ==
    /\ a \notin asking
    /\ quota' = [quota EXCEPT !.requests = Counted(@, RequestLimit)]
    /\ asking' = IF \/ quota'.requests > RequestLimit
                    \/ \E i \in DOMAIN challenges :
                         IsPending(i) /\ challenges[i].recent /\ ~challenges[i].lapsed
                 THEN asking ELSE asking \cup {a}
    /\ UNCHANGED <<challenges, guessing, tries>>

Sent == [status |-> "PENDING", failed |-> 0, recent |-> TRUE, lapsed |-> FALSE, compared |-> 0, opened |-> 0]

(* The transaction, under the advisory lock of the contact: the codes still  *)
(* pending expire, the new one is inserted, and sent after the commit.       *)
ReplaceCodes(a) ==
    /\ a \in asking /\ asking' = asking \ {a}
    /\ Len(challenges) < MaxChallenges
    /\ challenges' = Append(
         [i \in DOMAIN challenges |-> IF IsPending(i) THEN [challenges[i] EXCEPT !.status = "EXPIRED"]
                                      ELSE challenges[i]], Sent)
    /\ UNCHANGED <<guessing, quota, tries>>

Age(i) ==
    /\ \/ challenges[i].recent /\ challenges' = [challenges EXCEPT ![i].recent = FALSE]
       \/ ~challenges[i].lapsed /\ challenges' = [challenges EXCEPT ![i].lapsed = TRUE]
    /\ UNCHANGED <<asking, guessing, quota, tries>>

-----------------------------------------------------------------------------
(* consumeEmail.                                                             *)

FindChallenge(g, i) ==
    /\ guessing[g] = NotGuessing /\ IsPending(i)
    /\ guessing' = [guessing EXCEPT ![g] = [pc |-> "quota", of |-> i]]
    /\ UNCHANGED <<challenges, asking, quota, tries>>

PayAttempt(g) ==
    /\ guessing[g].pc = "quota"
    /\ quota' = [quota EXCEPT !.attempts = Counted(@, AttemptLimit)]
    /\ guessing' = [guessing EXCEPT ![g] = IF quota'.attempts > AttemptLimit THEN NotGuessing
                                           ELSE [@ EXCEPT !.pc = "compare"]]
    /\ UNCHANGED <<challenges, asking, tries>>

(* recordFailure and consume only touch a challenge that is still PENDING.   *)

RecordFailure(i) ==
    challenges' = [challenges EXCEPT
        ![i].compared = @ + 1,
        ![i].failed = IF IsPending(i) THEN @ + 1 ELSE @,
        ![i].status = IF IsPending(i) /\ challenges[i].failed + 1 >= MaxAttempts THEN "LOCKED" ELSE @]

Consume(i) ==
    challenges' =
      IF IsPending(i) /\ challenges[i].failed < MaxAttempts
      THEN [challenges EXCEPT ![i].compared = @ + 1, ![i].status = "VERIFIED", ![i].opened = @ + 1]
      ELSE [challenges EXCEPT ![i].compared = @ + 1]

Compare(g, right) ==
    LET i == guessing[g].of IN
    /\ guessing[g].pc = "compare" /\ ~challenges[i].lapsed
    /\ IF right THEN Consume(i) ELSE RecordFailure(i)
    /\ tries' = tries + 1
    /\ guessing' = [guessing EXCEPT ![g] = NotGuessing]
    /\ UNCHANGED <<asking, quota>>

(* expireChallenge.                                                          *)
CompareTooLate(g) ==
    LET i == guessing[g].of IN
    /\ guessing[g].pc = "compare" /\ challenges[i].lapsed
    /\ challenges' = [challenges EXCEPT ![i].status = IF IsPending(i) THEN "EXPIRED" ELSE @]
    /\ guessing' = [guessing EXCEPT ![g] = NotGuessing]
    /\ UNCHANGED <<asking, quota, tries>>

VerNext ==
    \/ \E a \in Askers : RequestEmail(a) \/ ReplaceCodes(a)
    \/ \E i \in DOMAIN challenges : Age(i) \/ \E g \in Guessers : FindChallenge(g, i)
    \/ \E g \in Guessers : PayAttempt(g) \/ CompareTooLate(g) \/ \E right \in BOOLEAN : Compare(g, right)
    \/ NextHour

VerSpec == VerInit /\ [][VerNext]_verVars

-----------------------------------------------------------------------------

(* However many requests run at once, only the code sent last can be used.   *)
OneLiveCode == \A i \in DOMAIN challenges : IsPending(i) => i = Len(challenges)

(* A code is compared MaxAttempts times, and once more by each other call    *)
(* that had read the challenge before the last failure was recorded.         *)
ComparedBounded ==
    \A i \in DOMAIN challenges : challenges[i].compared < MaxAttempts + Cardinality(Guessers)

(* Asking for a new code does not buy more tries: within an hour the contact *)
(* has its quota, and the calls that had paid in the hour before.            *)
TriesPerHour == tries <= AttemptLimit + Cardinality(Guessers)

(* A code opens one session, when tries of it succeed at the same time too.  *)
CodeOpensOneSession == \A i \in DOMAIN challenges : challenges[i].opened = 1 <=> challenges[i].status = "VERIFIED"
=============================================================================
