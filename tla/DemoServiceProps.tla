-------------------------- MODULE DemoServiceProps --------------------------
(***************************************************************************)
(* What DemoService is checked for.                                        *)
(***************************************************************************)
EXTENDS DemoService, FiniteSetsExt

(* The promise about money, the same as for the two services with a broker *)
Moves ==
  {<<b, "debit", 0, saves[b]["debit"]>> : b \in {c \in Bet : saves[c]["debit"] > 0}}
    \cup {<<b, "credit", bets[b].winnings, saves[b]["credit"]>> :
            b \in {c \in Bet : saves[c]["credit"] > 0}}

Payments == INSTANCE PaymentContract WITH
  outcome <- [b \in Bet |-> OutcomeOf(bets[b])],
  moves <- Moves

\* Without a broker, claims or retries the demo keeps the same promise: however
\* its handlers interleave, fail or die, it debits and credits at most once,
\* and only for the bet it debits or credits.
ImplementsPayments == Payments!PaymentSpec

\* "Wallet already exists for user": a user has a second wallet only when two
\* calls both looked for one before either had inserted it.  A retried or
\* repeated login, a restart or a failed look-up never opens another.
SecondWalletNeedsOverlap ==
  \A k, l \in opened : k # l /\ Creator[k] = Creator[l] => {k, l} \in overlapped

\* The bets of a user with a saved transfer; his others add nothing.
PaidBets(u) == {b \in Bet : PlayerOf[b] = u /\ \E way \in Way : saves[b][way] > 0}

Debited == [b \in Bet |-> saves[b]["debit"] * RoundTrip(Amount[b])]
Credited == [b \in Bet |-> saves[b]["credit"] * RoundTrip(bets[b].winnings)]

Total(S, value) == MapThenSumSet(LAMBDA x : value[x], S)

\* What a user has in all his wallets is what they were opened with, less the
\* stakes taken and with the winnings given, over one wallet or several, unless
\* two transfers of his read a balance before the other saved.
MoneyAddsUp ==
  \A u \in Player \ raced :
    Total(WalletsOf(u), balance) + Total(PaidBets(u), Debited)
      = Total(WalletsOf(u), OpeningBalance) + Total(PaidBets(u), Credited)
=============================================================================
