------------------------------- MODULE Wallet -------------------------------
(***************************************************************************)
(* WalletInterface, PendingWallet and WalletUtils: operations that set or  *)
(* remove the password of an account wait until the wallet is open.  The   *)
(* wallet is opened asynchronously, may be refused, and may be closed by   *)
(* the user at any time; the next operation opens it again.                *)
(***************************************************************************)
EXTENDS Integers, Sequences, SequencesExt

CONSTANTS
    WalletAccounts,
    Passwords,
    MaxOperations       \* bound: operations that are started

ASSUME WalletAssumption == MaxOperations \in Nat

NoPassword == "none"

VARIABLES
    enabled,            \* the user has wallets enabled
    wallet,             \* number of the Wallet object, 0 for none
    walletState,        \* "opening", "open" or "closed"
    isOpening,
    operations,         \* sequence of SetAccountPasswordOp and RemoveAccountPasswordOp
    waiting,            \* operations whose PendingWallet is connected to the object, in order
    finished,           \* operations whose PendingWallet has finished() queued
    passwords,          \* what the wallet holds
    loginFailed,        \* accounts whose last login failed, also in the wallet
    lost                \* history: accounts of operations that ran without open wallet

walletVars == <<enabled, wallet, walletState, isOpening, operations, waiting, finished,
                passwords, loginFailed, lost>>

WalletInit ==
    /\ enabled \in BOOLEAN
    /\ wallet = 0 /\ walletState = "closed" /\ isOpening = FALSE
    /\ operations = <<>> /\ waiting = <<>> /\ finished = <<>>
    /\ passwords = [a \in WalletAccounts |-> NoPassword]
    /\ loginFailed = {} /\ lost = {}

\* Mutant: the wallet is opened again while it is being opened.
ensureWalletIsReadyAgain ==
    IF wallet = 0 \/ walletState # "open"
    THEN /\ isOpening' = TRUE
         /\ wallet' = IF enabled THEN wallet + 1 ELSE 0
         /\ walletState' = IF enabled THEN "opening" ELSE "closed"
    ELSE UNCHANGED <<wallet, walletState, isOpening>>

\* The old object is deleted.  Without wallets there is no object, and isOpening is
\* never reset.
ensureWalletIsReady ==
    IF (wallet = 0 \/ walletState # "open") /\ ~isOpening
    THEN /\ isOpening' = TRUE
         /\ wallet' = IF enabled THEN wallet + 1 ELSE 0
         /\ walletState' = IF enabled THEN "opening" ELSE "closed"
    ELSE UNCHANGED <<wallet, walletState, isOpening>>

\* What is connected to the object, if it is still the same.
Connected == IF wallet' = wallet THEN waiting ELSE <<>>

\* PendingWallet: it waits for the object, if that is not open.
PendingWallet(op) ==
    IF wallet' = 0 \/ walletState' = "open"
    THEN /\ operations' = Append(operations, op)
         /\ finished' = Append(finished, Len(operations'))
         /\ waiting' = Connected
    ELSE /\ operations' = Append(operations, [op EXCEPT !.waitsFor = wallet'])
         /\ waiting' = Append(Connected, Len(operations'))
         /\ UNCHANGED finished

\* setAccountPassword and removeAccountPassword.
startOperation(kind, a, password) ==
    /\ Len(operations) < MaxOperations
    /\ ensureWalletIsReady
    /\ PendingWallet([kind |-> kind, account |-> a, password |-> password, waitsFor |-> 0])
    /\ UNCHANGED <<enabled, passwords, loginFailed, lost>>

\* walletOpened(success) finishes all that wait for the object, in their order.
onWalletOpened(success) ==
    /\ wallet # 0 /\ walletState = "opening"
    /\ walletState' = IF success THEN "open" ELSE "closed"
    /\ isOpening' = FALSE
    /\ finished' = finished \o waiting
    /\ operations' = [i \in DOMAIN operations |->
                        IF i \in ToSet(waiting) THEN [operations[i] EXCEPT !.waitsFor = 0]
                        ELSE operations[i]]
    /\ waiting' = <<>>
    /\ UNCHANGED <<enabled, wallet, passwords, loginFailed, lost>>

walletClosed ==
    /\ walletState = "open" /\ walletState' = "closed"
    /\ UNCHANGED <<enabled, wallet, isOpening, operations, waiting, finished, passwords,
                   loginFailed, lost>>

\* setPassword, which also forgets a failed login, removePassword or removeAccount.
\* Calls on a wallet that is not open fail; nobody looks at that.
onOperationReady ==
    /\ finished # <<>>
    /\ finished' = Tail(finished)
    /\ LET op == operations[Head(finished)]
       IN IF walletState = "open"
          THEN /\ passwords' = [passwords EXCEPT ![op.account] =
                                  IF op.kind = "set" THEN op.password ELSE NoPassword]
               /\ loginFailed' = IF op.kind = "set" /\ op.password = NoPassword THEN loginFailed
                                 ELSE loginFailed \ {op.account}
               /\ lost' = lost \ {op.account}
          ELSE lost' = lost \cup {op.account} /\ UNCHANGED <<passwords, loginFailed>>
    /\ UNCHANGED <<enabled, wallet, walletState, isOpening, operations, waiting>>

\* The program that logs in reports a failure through an open wallet.
setLastLoginFailed(a) ==
    /\ walletState = "open" /\ a \notin loginFailed
    /\ loginFailed' = loginFailed \cup {a}
    /\ UNCHANGED <<enabled, wallet, walletState, isOpening, operations, waiting, finished,
                   passwords, lost>>

WalletNext ==
    \/ \E a \in WalletAccounts :
         \/ \E password \in Passwords \cup {NoPassword} : startOperation("set", a, password)
         \/ startOperation("remove", a, NoPassword)
         \/ setLastLoginFailed(a)
    \/ \E success \in BOOLEAN : onWalletOpened(success)
    \/ walletClosed
    \/ onOperationReady

-----------------------------------------------------------------------------
(* Properties.                                                             *)

WaitersAreServed ==
    \A i \in DOMAIN operations :
        operations[i].waitsFor # 0 => operations[i].waitsFor = wallet /\ walletState = "opening"

Pending(a) ==
    \E i \in DOMAIN operations :
        /\ operations[i].account = a
        /\ operations[i].waitsFor # 0 \/ i \in ToSet(finished)

PasswordIsLastSet ==
    \A a \in WalletAccounts \ lost, i \in DOMAIN operations :
        /\ ~Pending(a)
        /\ operations[i].account = a
        /\ \A k \in DOMAIN operations : i < k => operations[k].account # a
        => passwords[a] = operations[i].password

\* An operation never waits for a wallet object that was replaced, or that will not
\* say any more that it is open: that would be for ever.  When no operation of an account
\* is pending, the wallet has what the last one asked for, however often it was closed
\* and opened again and whatever waited meanwhile; unless that one ran when the wallet was
\* not open.
OperationsTakeEffect == WaitersAreServed /\ PasswordIsLastSet
=============================================================================
