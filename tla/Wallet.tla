-------------------------------- MODULE Wallet --------------------------------
(***************************************************************************)
(* The wallet notebook: its key files, the issuers imported into it, and   *)
(* the widgets that show balances and transfer assets.  Every wallet is a  *)
(* Jupyter kernel that runs one button handler at a time on what its       *)
(* widgets last showed: the fields of the transfer form, the contract      *)
(* states it has cached and the context in memory all go stale, by the     *)
(* other wallets' transfers and by the wallet's own other widgets.  The    *)
(* issuer contracts are those of module Issuer, with keys as the parties.  *)
(***************************************************************************)
EXTENDS Issuer, Sequences, Functions

CONSTANTS
  Users,        \* wallets, with their owners
  Names,        \* identities: what key files and key lists are named by
  Creator,      \* the user who issues each issuer's assets
  Handles,      \* names of assets in a wallet
  Unspecified,  \* the identity offered where there is no private key file
  OwnHandle,    \* the name 'identity', under which a wallet keeps its owner's
  FirstFiles,   \* the key files each user has to begin with
  FirstKeys,    \* the keys whose private part each user has to begin with
  Typed,        \* the names of keys and of assets each user types
  NoHandle, NoName, NoIssuer,
  MaxImports,   \* bound: imports into each wallet
  MaxKeyings,   \* bound: key files generated or uploaded
  MaxFailures   \* bound: answers, files read and files written that are lost

Kinds == {"private", "public"}

\* The directories of the key search path; new key files go to ${keys}.
SearchPath == <<"./keys", "${keys}">>
Directories == {"./keys", "${keys}"}

KeyFiles == UNION {[names -> Parties] : names \in SUBSET Names}

ASSUME WalletAssumption ==
  /\ Creator \in [Issuers -> Users]
  /\ FirstFiles \in [Users -> [Kinds -> [Directories -> KeyFiles]]]
  /\ FirstKeys \in [Users -> SUBSET Parties]
  /\ \A u \in Users : \A dir \in Directories :
       Range(FirstFiles[u]["private"][dir]) \subseteq FirstKeys[u]
  /\ Typed \in [Users -> [names : SUBSET Names, handles : SUBSET Handles]]
  /\ NoHandle \notin Handles /\ NoName \notin Names /\ NoIssuer \notin Issuers
  /\ MaxImports \in [Users -> Nat] /\ MaxKeyings \in Nat /\ MaxFailures \in Nat

VARIABLES
  files,        \* key files of each user: kind, directory, identity
  keys,         \* the keys whose private part each user has or had
  wallet,       \* each wallet's context: asset_list, and what a handle stands for
  kept,         \* the wallet's context file
  cache,        \* contract states a kernel has read
  stale,        \* cached contract states the ledger has moved on from
  form,         \* what the transfer and import widgets show
  keyings,      \* key files generated or uploaded, of those the bound admits
  failures      \* failures, of those the bound admits

walletVars == <<files, keys, wallet, kept, cache, stale, form, keyings, failures>>
vars == <<issuerVars, walletVars>>

Listed(w) == Range(w.list)

Identities == Names \cup {Unspecified}

\* What a handle stands for; the one overwritten at a start stands for nothing.
Target == [issuer : Issuers \cup {NoIssuer}, identity : Identities \cup {NoName}]
Overwritten == [issuer |-> NoIssuer, identity |-> NoName]

WalletOK(w) == w.list \in Seq(Handles) /\ w.at \in [Listed(w) -> Target]

CacheOK(c) == DOMAIN c \subseteq Issuers /\ c \in [DOMAIN c -> [Parties -> Counts]]

Form ==
  [source : Handles \cup {NoHandle}, sources : Seq(Handles), owner : Identities \cup {NoName},
   issuer : Issuers \cup {NoIssuer}, max : Counts, names : SUBSET Names,
   identities : SUBSET Identities]

NewWallet == [list |-> <<>>, at |-> <<>>]

\* The entries of f, and those of g that f has none for.
Over(f, g) == [x \in DOMAIN f \cup DOMAIN g |-> IF x \in DOMAIN f THEN f[x] ELSE g[x]]

Put(f, x, y) == Over([z \in {x} |-> y], f)

-----------------------------------------------------------------------------
(* Key files. *)

\* Mutant of KeyMap: of several files the last one in the search path counts.
KeyMapLast(u, kind) == Over(files[u][kind]["${keys}"], files[u][kind]["./keys"])

\* The identities found in the search path with their keys; of several files the
\* first one counts.
KeyMap(u, kind) == Over(files[u][kind]["./keys"], files[u][kind]["${keys}"])

\* find_file_in_path, by which commands and transactions find a key file.
FindFile(u, kind, name) ==
  LET d == Min({d \in DOMAIN SearchPath : name \in DOMAIN files[u][kind][SearchPath[d]]})
  IN files[u][kind][SearchPath[d]][name]

SaveKey(kinds, u, name, k) ==
  files' = [files EXCEPT ![u] = [kind \in Kinds |-> [dir \in Directories |->
    IF kind \in kinds /\ dir = "${keys}"
    THEN Put(files[u][kind][dir], name, k) ELSE files[u][kind][dir]]]]

\* A new pair replaces files that have its name.
GenerateKeyPair(u, name) ==
  /\ keyings < MaxKeyings /\ keyings' = keyings + 1
  /\ \E k \in Parties \ UNION {keys[v] : v \in Users} :
       /\ SaveKey(Kinds, u, name, k)
       /\ keys' = [keys EXCEPT ![u] = @ \cup {k}]
  /\ UNCHANGED <<issuerVars, wallet, kept, cache, stale, form, failures>>

\* A public key anybody has, or a private key of the user's own.
UploadKey(u, name, kind, k) ==
  /\ keyings < MaxKeyings /\ keyings' = keyings + 1
  /\ k \in (IF kind = "private" THEN keys[u] ELSE UNION {keys[v] : v \in Users})
  /\ SaveKey({kind}, u, name, k)
  /\ UNCHANGED <<issuerVars, keys, wallet, kept, cache, stale, form, failures>>

-----------------------------------------------------------------------------
(* What a kernel reads, and what the transfer form shows. *)

\* A contract state is read from the ledger unless it is cached.
Load(states, issuers) == Over(states, [i \in issuers |-> balance[i]])

GetAssetOwner(w, h) == w.at[h].identity
GetAssetType(w, h) == w.at[h].issuer

CanSign(u, name) == name \in DOMAIN KeyMap(u, "private")

\* Nothing can be asked of an issuer without one, or without a private key to sign with.
Fails(u, w, h) == GetAssetType(w, h) = NoIssuer \/ ~ CanSign(u, GetAssetOwner(w, h))

\* An identity without an entry is shown a balance of 0.
GetAssetBalance(u, w, h, states) ==
  states[GetAssetType(w, h)][FindFile(u, "private", GetAssetOwner(w, h))]

\* Mutant of UpdateSource: the asset type keeps its value.
UpdateAmount(f, u, w, h, states) ==
  [f EXCEPT !.source = h, !.owner = GetAssetOwner(w, h), !.max = GetAssetBalance(u, w, h, states)]

\* The fields that depend on the selected handle.
UpdateSource(f, u, w, h, states) ==
  [f EXCEPT !.source = h, !.owner = GetAssetOwner(w, h), !.issuer = GetAssetType(w, h),
            !.max = GetAssetBalance(u, w, h, states)]

\* What may become of the form f and the states read when h is selected.  With a handle
\* that fails, the exception leaves the amount as it was, or is one that counts as a
\* balance of 0, in which case the handler goes on (done); without an issuer it leaves
\* all the fields.
SourceShown(f, u, w, h, states) ==
  LET read == Load(states, {GetAssetType(w, h)} \ {NoIssuer})
      named == [f EXCEPT !.source = h, !.owner = GetAssetOwner(w, h), !.issuer = GetAssetType(w, h)]
  IN CASE ~ Fails(u, w, h) ->
            {[form |-> UpdateSource(f, u, w, h, read), read |-> read, done |-> TRUE]}
       [] GetAssetType(w, h) = NoIssuer ->
            {[form |-> [f EXCEPT !.source = h], read |-> states, done |-> FALSE]}
       [] OTHER ->
            [form : {named}, read : {states, read}, done : {FALSE}]
              \cup [form : {[named EXCEPT !.max = 0]}, read : {states, read}, done : {TRUE}]

\* Handles and new owners are read again and the first handle is selected; in a
\* wallet without any, the form says "unknown".
ResetWidget(f, u, w, states) ==
  LET g == [f EXCEPT !.sources = w.list]
      names == DOMAIN KeyMap(u, "public")
  IN IF w.list = <<>>
     THEN {[form |-> [g EXCEPT !.source = NoHandle, !.owner = NoName, !.issuer = NoIssuer,
                               !.max = 0, !.names = names],
            read |-> states, done |-> TRUE]}
     ELSE {[s EXCEPT !.form.names = IF s.done THEN names ELSE @] :
             s \in SourceShown(g, u, w, Head(w.list), states)}

\* Show what states say: the kernel has these, and what the form reads besides.
ShowForm(u, w, states) ==
  \E s \in ResetWidget(form[u], u, w, states) :
    /\ cache' = [cache EXCEPT ![u] = s.read]
    /\ form' = [form EXCEPT ![u] = s.form]

\* The balance table asks for one handle after the other, up to the nth: the last, or
\* one that fails, with its state read or not.
Tabled(u, w, n) ==
  n = Len(w.list) \/ \E d \in {n, n + 1} \cap DOMAIN w.list : Fails(u, w, w.list[d])

TableRead(w, n) == Load(<<>>, {GetAssetType(w, w.list[d]) : d \in 1 .. n} \ {NoIssuer})

ReadIdentities(u) ==
  LET names == DOMAIN KeyMap(u, "private") IN IF names = {} THEN {Unspecified} ELSE names

-----------------------------------------------------------------------------
(* The widgets' handlers. *)

RefreshBalances(u) ==
  /\ \E n \in 0 .. Len(wallet[u].list) :
       Tabled(u, wallet[u], n) /\ cache' = [cache EXCEPT ![u] = TableRead(wallet[u], n)]
  /\ stale' = [stale EXCEPT ![u] = {}]
  /\ UNCHANGED <<issuerVars, files, keys, wallet, kept, form, keyings, failures>>

RefreshTransfer(u) ==
  /\ ShowForm(u, wallet[u], <<>>)
  /\ stale' = [stale EXCEPT ![u] = {}]
  /\ UNCHANGED <<issuerVars, files, keys, wallet, kept, keyings, failures>>

RefreshImport(u) ==
  /\ form' = [form EXCEPT ![u].identities = ReadIdentities(u)]
  /\ UNCHANGED <<issuerVars, files, keys, wallet, kept, cache, stale, keyings, failures>>

SelectSource(u, h) ==
  /\ h \in Range(form[u].sources) /\ h # form[u].source
  /\ \E s \in SourceShown(form[u], u, wallet[u], h, cache[u]) :
       /\ cache' = [cache EXCEPT ![u] = s.read]
       /\ form' = [form EXCEPT ![u] = s.form]
  /\ UNCHANGED <<issuerVars, files, keys, wallet, kept, stale, keyings, failures>>

\* The submit button, with an amount on the slider and a new owner of the list.
\* The handle says which issuer to call, the form which identity signs.
Submitted(u, count, to) ==
  /\ form[u].source # NoHandle /\ to \in form[u].names
  /\ count \in 1 .. form[u].max

TargetIssuer(u) == GetAssetType(wallet[u], form[u].source)
Signed(u) == TargetIssuer(u) # NoIssuer /\ CanSign(u, form[u].owner)
Payer(u) == FindFile(u, "private", form[u].owner)

\* The contract moves the assets, if the state the kernel has is the current one.
TransferAssets(u, count, to) ==
  LET i == TargetIssuer(u) payee == FindFile(u, "public", to) IN
  /\ Signed(u) /\ i \notin stale[u]
  /\ \/ Transfer(i, Payer(u), payee, count)
     \/ payee = Payer(u) /\ UNCHANGED issuerVars

MovedOn(i, others) ==
  stale' = [v \in Users |->
    IF v \in others /\ i \in DOMAIN cache'[v] /\ balance'[i] # balance[i]
    THEN stale[v] \cup {i} ELSE stale[v]]

Submit(u, count, to) ==
  /\ Submitted(u, count, to)
  /\ TransferAssets(u, count, to)
  /\ LET i == TargetIssuer(u) IN
       /\ ShowForm(u, wallet[u], Put(cache[u], i, balance'[i]))
       /\ MovedOn(i, Users \ {u})
  /\ UNCHANGED <<files, keys, wallet, kept, keyings, failures>>

\* The transfer is made but the call fails: the kernel may or may not have the
\* contract's new state, and the form stays as it is.
SubmitUnanswered(u, count, to) ==
  LET i == TargetIssuer(u) IN
  /\ failures < MaxFailures
  /\ Submitted(u, count, to)
  /\ Signed(u) /\ i \notin stale[u]
  /\ Transfer(i, Payer(u), FindFile(u, "public", to), count)
  /\ \E others \in {Users \ {u}, Users} :
       /\ cache' = [cache EXCEPT ![u] =
            IF u \in others THEN Load(@, {i}) ELSE Put(@, i, balance'[i])]
       /\ MovedOn(i, others)
  /\ failures' = failures + 1
  /\ UNCHANGED <<files, keys, wallet, kept, form, keyings>>

\* The state is not the current one, the contract refuses, or there is nobody to sign:
\* nothing to undo.
SubmitRefused(u, count, to) ==
  /\ Submitted(u, count, to)
  /\ ~ ENABLED TransferAssets(u, count, to)
  /\ \E issuers \in {{TargetIssuer(u)} \ {NoIssuer}} \cup (IF Signed(u) THEN {} ELSE {{}}) :
       cache' = [cache EXCEPT ![u] = Load(@, issuers)]
  /\ UNCHANGED <<issuerVars, files, keys, wallet, kept, stale, form, keyings, failures>>

\* The command of the issuer notebook.
IssueAssets(i, to, count) ==
  /\ to \in DOMAIN KeyMap(Creator[i], "public")
  /\ Issue(i, FindFile(Creator[i], "public", to), count)
  /\ UNCHANGED <<files, keys, wallet, kept, cache, form, keyings, failures>>
  /\ MovedOn(i, Users)

-----------------------------------------------------------------------------
(* The wallet's context and its file. *)

\* Mutant of Remember: the handle takes the place of the others.
RememberAlone(w, h, i, name) ==
  [list |-> <<h>>, at |-> Put(<<>>, h, [issuer |-> i, identity |-> name])]

\* A handle that is in use changes its meaning, and is listed once more.
Remember(w, h, i, name) ==
  [list |-> Append(w.list, h), at |-> Put(w.at, h, [issuer |-> i, identity |-> name])]

SaveContextFile(u) == kept' = [kept EXCEPT ![u] = wallet'[u]]

\* Mutant of ImportIssuer: any identity with a public key will do.
ImportUnderAnyName(u, h, i, name) ==
  /\ name \in DOMAIN KeyMap(u, "public")
  /\ Len(wallet[u].list) < MaxImports[u]
  /\ wallet' = [wallet EXCEPT ![u] = Remember(@, h, i, name)]
  /\ SaveContextFile(u) /\ UNCHANGED failures
  /\ UNCHANGED <<issuerVars, files, keys, cache, stale, form, keyings>>

\* The issuer's contract file, under an identity of the list, which may be the one that
\* stands for none.  The other widgets do not notice.  The file may fail to be written,
\* and the context stays changed.
ImportIssuer(u, h, i, name) ==
  /\ name \in form[u].identities
  /\ Len(wallet[u].list) < MaxImports[u]
  /\ wallet' = [wallet EXCEPT ![u] = Remember(@, h, i, name)]
  /\ \/ SaveContextFile(u) /\ UNCHANGED failures
     \/ failures < MaxFailures /\ failures' = failures + 1 /\ UNCHANGED kept
  /\ UNCHANGED <<issuerVars, files, keys, cache, stale, form, keyings>>

\* The wallet's own identity takes the place of what a handle of this name stood for.
Personalize(w) ==
  [list |-> w.list, at |-> [h \in DOMAIN w.at |-> IF h = OwnHandle THEN Overwritten ELSE w.at[h]]]

NoForm(u) ==
  [source |-> NoHandle, sources |-> <<>>, owner |-> NoName, issuer |-> NoIssuer, max |-> 0,
   names |-> {}, identities |-> ReadIdentities(u)]

\* A new kernel: the notebook initializes its context, writes the file, and makes
\* its widgets, which read what they show.  A handle that fails may keep the transfer
\* form from being made, or the cell after the balance table's from being run.
OpenWith(u, w) ==
  /\ wallet' = [wallet EXCEPT ![u] = Personalize(w)]
  /\ SaveContextFile(u)
  /\ \E n \in 0 .. Len(w.list) :
       /\ Tabled(u, wallet'[u], n)
       /\ LET states == TableRead(wallet'[u], n) IN
            \/ \E s \in ResetWidget(NoForm(u), u, wallet'[u], states) :
                 /\ cache' = [cache EXCEPT ![u] = s.read]
                 /\ form' = [form EXCEPT ![u] = IF s.done THEN s.form ELSE NoForm(u)]
            \/ /\ \E h \in Listed(w) : Fails(u, wallet'[u], h)
               /\ cache' = [cache EXCEPT ![u] = states]
               /\ form' = [form EXCEPT ![u] = NoForm(u)]
  /\ stale' = [stale EXCEPT ![u] = {}]
  /\ UNCHANGED <<issuerVars, files, keys, keyings>>

Open(u) == OpenWith(u, kept[u]) /\ UNCHANGED failures

\* A context file that cannot be read is taken for one that does not exist yet.
OpenUnread(u) ==
  /\ failures < MaxFailures /\ failures' = failures + 1
  /\ OpenWith(u, NewWallet)

-----------------------------------------------------------------------------
(* The specification. *)

\* The wallets open on ledgers with whatever the issuers issued before.
\* Any part of what the bounds admit may have been used up.
WalletInit ==
  /\ IssuerTypeOK
  /\ files = FirstFiles
  /\ keys = FirstKeys
  /\ wallet = [u \in Users |-> NewWallet]
  /\ kept = wallet
  /\ cache = [u \in Users |-> <<>>]
  /\ stale = [u \in Users |-> {}]
  /\ form = [u \in Users |-> [NoForm(u) EXCEPT !.names = DOMAIN KeyMap(u, "public")]]
  /\ keyings \in 0 .. MaxKeyings
  /\ failures \in 0 .. MaxFailures

WalletTypeOK ==
  /\ files \in [Users -> [Kinds -> [Directories -> KeyFiles]]]
  /\ keys \in [Users -> SUBSET Parties]
  /\ {DOMAIN wallet, DOMAIN kept, DOMAIN cache, DOMAIN stale} = {Users}
  /\ \A u \in Users :
       /\ WalletOK(wallet[u]) /\ WalletOK(kept[u])
       /\ CacheOK(cache[u]) /\ stale[u] \subseteq DOMAIN cache[u]
  /\ form \in [Users -> Form]
  /\ keyings \in 0 .. MaxKeyings /\ failures \in 0 .. MaxFailures

Widgets(u) ==
  \/ \E name \in Typed[u].names : GenerateKeyPair(u, name)
  \/ \E name \in Typed[u].names, kind \in Kinds, k \in Parties : UploadKey(u, name, kind, k)
  \/ RefreshBalances(u) \/ RefreshTransfer(u) \/ RefreshImport(u)
  \/ \E h \in Handles : SelectSource(u, h)
  \/ \E count \in 1 .. IntMax, to \in Names :
       Submit(u, count, to) \/ SubmitUnanswered(u, count, to) \/ SubmitRefused(u, count, to)
  \/ \E h \in Typed[u].handles, i \in Issuers, name \in Identities : ImportIssuer(u, h, i, name)

WalletNext ==
  \/ \E u \in Users : Widgets(u) \/ Open(u) \/ OpenUnread(u)
  \/ \E i \in Issuers, to \in Names, count \in 1 .. IntMax : IssueAssets(i, to, count)

WalletSpec == WalletInit /\ [][WalletNext]_vars

-----------------------------------------------------------------------------
(* Properties. *)

BeganKeyless(u) == \A dir \in Directories : DOMAIN FirstFiles[u]["private"][dir] = {}

\* Every handle a wallet lists, in memory and in its file, stands for an issuer under
\* an identity the user can sign with, whatever was imported, lost or reopened, with
\* two exceptions: a user who began without any private key may have imported it as
\* 'unspecified', and the handle 'identity' is overwritten at the next start.
ListedUsable ==
  \A u \in Users : \A w \in {wallet[u], kept[u]} : \A h \in Listed(w) :
    \/ ~ Fails(u, w, h)
    \/ GetAssetOwner(w, h) = Unspecified /\ BeganKeyless(u)
    \/ h = OwnHandle /\ w.at[h] = Overwritten

\* An imported asset stays in the wallet for as long as nothing fails, over any number
\* of imports and restarts, in the file and in memory.
ImportsKept ==
  [][failures' = failures =>
       \A u \in Users : /\ Listed(kept[u]) \subseteq Listed(kept'[u])
                        /\ Listed(kept[u]) \subseteq Listed(wallet'[u])]_vars

\* Assets change hands: balances change, and not by an issue.
Moves(i) == balance'[i] # balance[i] /\ supply'[i] = supply[i]

\* Whenever assets change hands, a user pays them from the form it looks at, no more
\* than the form offers, out of an account whose private key it has, to the key that
\* the key list shows under one of the names the form offers; nobody else's balance
\* changes.  Key files may be shadowed, replaced or uploaded at any time before.
PaidToListed ==
  [][\A i \in Issuers : Moves(i) =>
       \E u \in {v \in Users : form[v].source # NoHandle /\ CanSign(v, form[v].owner)} :
       \E to \in form[u].names, count \in 1 .. form[u].max :
         LET k == KeyMap(u, "private")[form[u].owner] IN
         /\ k \in keys[u]
         /\ balance'[i] = [balance[i] EXCEPT
              ![k] = @ - count, ![KeyMap(u, "public")[to]] = Plus(@, count)]]_vars

\* The assets that move are those the form shows, of its owner and its type, though the
\* form, the caches and the wallet are refreshed apart; unless the form has not read
\* the wallet's latest import, which may have given the handle another meaning.
PaidAsShown ==
  [][\A i \in Issuers : Moves(i) =>
       \E u \in Users :
         /\ form[u].source # NoHandle /\ Signed(u)
         /\ balance'[i][Payer(u)] < balance[i][Payer(u)]
         /\ i = form[u].issuer \/ wallet[u].list # form[u].sources]_vars

-----------------------------------------------------------------------------
(* The inductive invariant behind them. *)

\* Private key files hold keys whose private part the user has, and stay.
KeysInv ==
  \A u \in Users : \A dir \in Directories :
    /\ Range(files[u]["private"][dir]) \subseteq keys[u]
    /\ DOMAIN FirstFiles[u]["private"][dir] \subseteq DOMAIN files[u]["private"][dir]

\* What a form offers stays in the wallet and among the key files, and what it shows of
\* the selected handle's issuer is right until an import, unless the handle has none.
Offers(f, u, w) ==
  /\ Range(f.sources) \subseteq Listed(w)
  /\ Len(f.sources) <= Len(w.list)
  /\ f.names \subseteq DOMAIN KeyMap(u, "public")
  /\ \A name \in f.identities : CanSign(u, name) \/ (name = Unspecified /\ BeganKeyless(u))
  /\ f.source # NoHandle =>
       /\ f.source \in Range(f.sources)
       /\ GetAssetType(w, f.source) \in {f.issuer, NoIssuer} \/ w.list # f.sources

FormInv == \A u \in Users : Offers(form[u], u, wallet[u])

\* The context file is behind the context.
FileInv == \A u \in Users : Listed(kept[u]) \subseteq Listed(wallet[u])

WalletInv == IssuerTypeOK /\ WalletTypeOK /\ KeysInv /\ FormInv /\ FileInv /\ ListedUsable
=============================================================================
