--------------------------- MODULE SecurityGuesses ---------------------------
(***************************************************************************)
(* SecurityAccess with a history variable: the times at which the ECU      *)
(* compared a key and found it wrong, since the last right key or reset.   *)
(* It serves to state what the counter and the lock-out are for.           *)
(***************************************************************************)
EXTENDS SecurityAccess, Sequences

VARIABLE guesses

gvars == <<vars, guesses>>

GInit == Init /\ guesses = <<>>

\* The history after security_send_key(sec, level, key, now).
RecordGuess(level, key) ==
    LET out == security_send_key(sec, level, key, now)
    IN  CASE out.rc = OK -> <<>>
          [] out.nrc \in {UDS_NRC_INVALID_KEY, UDS_NRC_EXCEEDED_NUMBER_OF_ATTEMPTS}
                -> Append(guesses, now)
          [] OTHER -> guesses

GRequestSeed(level, raw) == RequestSeed(level, raw) /\ UNCHANGED guesses

GSendKey(level, key) == SendKey(level, key) /\ guesses' = RecordGuess(level, key)

GReset == Reset /\ guesses' = <<>>

GRelock == Relock /\ UNCHANGED guesses

GTick == Tick /\ UNCHANGED guesses

GNext ==
    \/ \E level \in Levels, raw \in Entropy : GRequestSeed(level, raw)
    \/ \E level \in Levels, key \in Keys : GSendKey(level, key)
    \/ GReset
    \/ GRelock
    \/ GTick

GSpec == GInit /\ [][GNext]_gvars

-----------------------------------------------------------------------------

\* A guess and the MAX_FAILS-th one after it are a whole lock-out apart, in
\* whatever order seed requests, keys and S3 timeouts come: any window
\* shorter than SECURITY_LOCK_DURATION_MS sees at most MAX_FAILS wrong keys.
RateLimited ==
    \A i \in 1..Len(guesses) :
        i + SECURITY_MAX_FAILS <= Len(guesses) =>
            guesses[i] + SECURITY_LOCK_DURATION_MS <= guesses[i + SECURITY_MAX_FAILS]

\* What makes RateLimited inductive: the guesses of earlier rounds, all but
\* the last fail_count ones, are a delay old; and while the lock-out stands
\* it ends a delay after every guess made so far.
GuessesBehindDelay ==
    /\ guesses \in Seq(Nat)
    /\ \A i \in 1..Len(guesses) : guesses[i] <= now
    /\ sec.fail_count <= Len(guesses)
    /\ sec.fail_count < SECURITY_MAX_FAILS =>
          \A i \in 1..(Len(guesses) - sec.fail_count) :
              guesses[i] + SECURITY_LOCK_DURATION_MS <= now
    /\ sec.fail_count = SECURITY_MAX_FAILS =>
          \A i \in 1..Len(guesses) :
              guesses[i] + SECURITY_LOCK_DURATION_MS <= sec.lock_until_ms
=============================================================================
