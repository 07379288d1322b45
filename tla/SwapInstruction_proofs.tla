-------------------------- MODULE SwapInstruction_proofs --------------------------
(***************************************************************************)
(* Lemmas about the two builders: what the program reads when the halves   *)
(* are for one instruction, and that it does not take halves of different  *)
(* ones for an instruction.                                                *)
(***************************************************************************)
EXTENDS SwapInstruction, SequenceTheorems, TLAPS

Names ==
    {"token_program", "program_authority", "user_transfer_authority",
     "user_source_token_account", "source_token_account", "program_source_token_account",
     "user_destination_token_account", "program_destination_token_account",
     "destination_token_account", "source_mint", "destination_mint",
     "platform_fee_account", "token_2022_program", "token_ledger",
     "event_authority", "program"}

AccountMeta(K) == [pubkey : K, is_writable : BOOLEAN]

(* How long a list is. *)
Size(variant) ==
    CASE variant = "Route" -> 9
      [] variant = "RouteWithTokenLedger" -> 10
      [] variant = "ExactOutRoute" -> 11
      [] variant = "SharedAccountsRoute" -> 13
      [] variant = "SharedAccountsExactOutRoute" -> 13
      [] OTHER -> 14

VariantNames ==
    {"Route", "RouteWithTokenLedger", "ExactOutRoute", "SharedAccountsRoute",
     "SharedAccountsExactOutRoute", "SharedAccountsRouteWithTokenLedger"}

(* There are six instructions. *)
LEMMA SixVariants == Variants = VariantNames
BY DEF Variants, IdlAccounts, VariantNames

(* The lists are sequences of names, and the event authority stands next   *)
(* to last in each of them and nowhere else.                               *)
LEMMA ListsOfNames ==
    ASSUME NEW v \in VariantNames
    PROVE  /\ IdlAccounts[v] \in Seq(Names)
           /\ Len(IdlAccounts[v]) = Size(v)
           /\ DOMAIN IdlAccounts[v] = 1 .. Size(v)
<1>1. CASE v = "Route"
  BY <1>1 DEF IdlAccounts, Size, Names
<1>2. CASE v = "RouteWithTokenLedger"
  BY <1>2 DEF IdlAccounts, Size, Names
<1>3. CASE v = "ExactOutRoute"
  BY <1>3 DEF IdlAccounts, Size, Names
<1>4. CASE v = "SharedAccountsRoute"
  BY <1>4 DEF IdlAccounts, Size, Names
<1>5. CASE v = "SharedAccountsExactOutRoute"
  BY <1>5 DEF IdlAccounts, Size, Names
<1>6. CASE v = "SharedAccountsRouteWithTokenLedger"
  BY <1>6 DEF IdlAccounts, Size, Names
<1> QED BY <1>1, <1>2, <1>3, <1>4, <1>5, <1>6 DEF VariantNames

LEMMA EventPosition ==
    ASSUME NEW v \in VariantNames
    PROVE  \A i \in 1 .. Size(v) :
               IdlAccounts[v][i] = "event_authority" <=> i = Size(v) - 1
<1>1. CASE v = "Route"
  BY <1>1 DEF IdlAccounts, Size
<1>2. CASE v = "RouteWithTokenLedger"
  BY <1>2 DEF IdlAccounts, Size
<1>3. CASE v = "ExactOutRoute"
  BY <1>3 DEF IdlAccounts, Size
<1>4. CASE v = "SharedAccountsRoute"
  BY <1>4 DEF IdlAccounts, Size
<1>5. CASE v = "SharedAccountsExactOutRoute"
  BY <1>5 DEF IdlAccounts, Size
<1>6. CASE v = "SharedAccountsRouteWithTokenLedger"
  BY <1>6 DEF IdlAccounts, Size
<1> QED BY <1>1, <1>2, <1>3, <1>4, <1>5, <1>6 DEF VariantNames

--------------------------------------------------------------------------------
(* The metas of an instruction, followed by others.                        *)

LEMMA FunctionIsSeq ==
    ASSUME NEW S, NEW n \in Nat, NEW f \in [1 .. n -> S]
    PROVE  f \in Seq(S) /\ Len(f) = n
<1>1. f \in Seq(S)
  BY SeqDef
<1>2. Len(f) \in Nat /\ DOMAIN f = 1 .. Len(f)
  BY <1>1, LenProperties
<1>3. 1 .. Len(f) = 1 .. n
  BY <1>2
<1> QED BY <1>1, <1>2, <1>3

LEMMA MetasOfRoles ==
    ASSUME NEW v \in VariantNames, NEW K, NEW roles \in [Names -> K]
    PROVE  /\ to_account_metas(v, roles) \in Seq(AccountMeta(K))
           /\ Len(to_account_metas(v, roles)) = Size(v)
           /\ \A i \in 1 .. Size(v) :
                 to_account_metas(v, roles)[i].pubkey = roles[IdlAccounts[v][i]]
<1> DEFINE metas == to_account_metas(v, roles)
<1>1. Size(v) \in Nat
  BY DEF Size, VariantNames
<1>2. DOMAIN IdlAccounts[v] = 1 .. Size(v)
  BY ListsOfNames
<1>3. \A i \in 1 .. Size(v) : IdlAccounts[v][i] \in Names
  BY ListsOfNames, <1>1, <1>2, ElementOfSeq
<1>4. metas = [i \in 1 .. Size(v) |->
                  [pubkey |-> roles[IdlAccounts[v][i]],
                   is_writable |-> IdlAccounts[v][i] \in Writable]]
  BY <1>2 DEF to_account_metas
<1>5. \A i \in 1 .. Size(v) :
          /\ roles[IdlAccounts[v][i]] \in K
          /\ (IdlAccounts[v][i] \in Writable) \in BOOLEAN
  BY <1>3
<1>6. metas \in [1 .. Size(v) -> AccountMeta(K)]
  BY <1>4, <1>5 DEF AccountMeta
<1>7. \A i \in 1 .. Size(v) : metas[i].pubkey = roles[IdlAccounts[v][i]]
  BY <1>4
<1> HIDE DEF metas
<1>8. metas \in Seq(AccountMeta(K)) /\ Len(metas) = Size(v)
  BY <1>1, <1>6, FunctionIsSeq
<1> QED BY <1>7, <1>8 DEF metas

IsJoined(both, v, roles, extra) ==
    /\ Len(extra) \in Nat
    /\ DOMAIN both = 1 .. Size(v) + Len(extra)
    /\ \A i \in 1 .. Size(v) : both[i].pubkey = roles[IdlAccounts[v][i]]
    /\ \A i \in 1 .. Len(extra) : both[Size(v) + i] = extra[i]

LEMMA MetasJoined ==
    ASSUME NEW v \in VariantNames, NEW K, NEW roles \in [Names -> K],
           NEW extra \in Seq(AccountMeta(K))
    PROVE  IsJoined(to_account_metas(v, roles) \o extra, v, roles, extra)
<1> DEFINE metas == to_account_metas(v, roles)
           both == metas \o extra
<1>1. Size(v) \in Nat
  BY DEF Size, VariantNames
<1>2. /\ metas \in Seq(AccountMeta(K))
      /\ Len(metas) = Size(v)
      /\ \A i \in 1 .. Size(v) : metas[i].pubkey = roles[IdlAccounts[v][i]]
  BY MetasOfRoles
<1> HIDE DEF metas
<1>4. /\ both \in Seq(AccountMeta(K))
      /\ Len(both) = Len(metas) + Len(extra)
      /\ \A i \in 1 .. Len(metas) + Len(extra) :
            both[i] = IF i <= Len(metas) THEN metas[i] ELSE extra[i - Len(metas)]
  BY <1>2, ConcatProperties
<1> HIDE DEF both
<1>5. Len(extra) \in Nat /\ DOMAIN both = 1 .. Len(both)
  BY <1>4, LenProperties
<1>6. /\ DOMAIN both = 1 .. Size(v) + Len(extra)
      /\ \A i \in 1 .. Size(v) : both[i] = metas[i]
      /\ \A i \in 1 .. Len(extra) : both[Size(v) + i] = extra[i]
  BY <1>1, <1>2, <1>4, <1>5
<1>7. \A i \in 1 .. Size(v) : both[i].pubkey = roles[IdlAccounts[v][i]]
  BY <1>2, <1>6
<1>8. IsJoined(both, v, roles, extra)
  BY <1>5, <1>6, <1>7 DEF IsJoined
<1> QED BY <1>8 DEF both, metas

(* Whatever follows it, a role an instruction lists is read as it was put. *)
ReadsAsPut(ix, v, roles) ==
    \A role : Lists(v, role) => Reads(ix, role) = roles[role]

LEMMA ListedIsRead ==
    ASSUME NEW v \in VariantNames, NEW roles, NEW extra, NEW ix,
           IsJoined(ix.accounts, v, roles, extra),
           ix.data.variant = v
    PROVE  ReadsAsPut(ix, v, roles)
<1> SUFFICES ASSUME NEW role, Lists(v, role)
             PROVE  Reads(ix, role) = roles[role]
  BY DEF ReadsAsPut
<1> DEFINE i == Position(v, role)
<1>1. i \in DOMAIN IdlAccounts[v] /\ IdlAccounts[v][i] = role
  BY DEF Lists, Position
<1>2. i \in 1 .. Size(v) /\ Size(v) \in Nat
  BY <1>1, ListsOfNames DEF Size, VariantNames
<1> HIDE DEF i
<1>3. /\ i \in DOMAIN ix.accounts
      /\ ix.accounts[i].pubkey = roles[role]
  BY <1>1, <1>2 DEF IsJoined
<1> QED BY <1>3 DEF Reads, ReadAt, i

(* Read as another instruction, the accounts are refused: only lists of    *)
(* the same length have the event authority in the same place.             *)
LEMMA AcceptedIsSameSize ==
    ASSUME NEW v \in VariantNames, NEW w \in VariantNames,
           NEW K, NEW roles \in [Names -> K],
           \A n \in Names : roles[n] = EventAuthority => n = "event_authority",
           NEW extra \in Seq(AccountMeta(K)),
           \A j \in 1 .. Len(extra) : extra[j].pubkey # EventAuthority,
           NEW ix, ix.accounts = to_account_metas(v, roles) \o extra,
           ix.data.variant = w,
           Accepted(ix)
    PROVE  Size(v) = Size(w)
<1> DEFINE i == Position(w, "event_authority")
           both == to_account_metas(v, roles) \o extra
<1>1. Size(v) \in Nat /\ Size(w) \in Nat /\ Size(w) > 2
  BY DEF Size, VariantNames
<1>2. i = Size(w) - 1
  BY <1>1, EventPosition, ListsOfNames DEF Position
<1>3. i \in DOMAIN both /\ both[i].pubkey = EventAuthority
  BY InstructionAssumption DEF Accepted, Reads, ReadAt
<1>5. \A j \in 1 .. Size(v) : IdlAccounts[v][j] \in Names
  BY ListsOfNames, <1>1, ElementOfSeq
<1>0. IsJoined(both, v, roles, extra)
  BY MetasJoined
<1> HIDE DEF both, i
<1>4. /\ Len(extra) \in Nat
      /\ DOMAIN both = 1 .. Size(v) + Len(extra)
      /\ \A j \in 1 .. Size(v) : both[j].pubkey = roles[IdlAccounts[v][j]]
      /\ \A j \in 1 .. Len(extra) : both[Size(v) + j] = extra[j]
  BY <1>0 DEF IsJoined
<1>6. i \in 1 .. Size(v)
  <2> SUFFICES ASSUME i \notin 1 .. Size(v)
               PROVE  FALSE
    OBVIOUS
  <2>1. i - Size(v) \in 1 .. Len(extra)
    BY <1>1, <1>2, <1>3, <1>4
  <2>2. both[i] = extra[i - Size(v)]
    BY SMTT(30), <1>1, <1>2, <1>4, <2>1
  <2> QED BY <1>3, <2>1, <2>2
<1>7. IdlAccounts[v][i] = "event_authority"
  BY <1>3, <1>4, <1>5, <1>6
<1> QED BY <1>1, <1>2, <1>6, <1>7, EventPosition

--------------------------------------------------------------------------------
(* The builders.                                                           *)

AccountKeys == Keys \cup {Jupiter, SplToken, EventAuthority, None}

(* Nothing a caller names is the event authority. *)
LEMMA RolesOfRequest ==
    ASSUME NEW p \in BuildSwapAccountsParams
    PROVE  /\ Roles(p) \in [Names -> AccountKeys]
           /\ \A n \in Names : Roles(p)[n] = EventAuthority => n = "event_authority"
<1>1. /\ p.user \in Keys /\ p.program_authority \in Keys
      /\ p.user_source_token_account \in Keys /\ p.source_token_account \in Keys
      /\ p.user_destination_token_account \in Keys /\ p.destination_token_account \in Keys
      /\ p.destination_token_program \in Keys \cup {SplToken}
      /\ p.input_mint \in Keys /\ p.output_mint \in Keys
      /\ p.token_ledger \in Keys \cup {None}
      /\ p.platform_fee_account \in Keys \cup {None}
      /\ p.optional_destination_token_account \in Keys \cup {None}
      /\ p.token2022_program \in Keys \cup {None}
  BY DEF BuildSwapAccountsParams
<1>2. EventAuthority \notin Keys \cup {Jupiter, SplToken, None}
  BY InstructionAssumption
<1>3. /\ \A o \in Keys \cup {None}, d \in Keys \cup {Jupiter} :
             unwrap_or(o, d) \in Keys \cup {Jupiter}
  BY DEF unwrap_or
<1>4. DOMAIN Roles(p) = Names
  BY DEF Roles, Names
<1>5. \A n \in Names : n # "event_authority" =>
          Roles(p)[n] \in Keys \cup {Jupiter, SplToken, None}
  BY <1>1, <1>3 DEF Roles, Names
<1>6. Roles(p)["event_authority"] = EventAuthority
  BY DEF Roles
<1>7. \A n \in Names : Roles(p)[n] \in AccountKeys
  BY <1>5, <1>6 DEF AccountKeys
<1>8. Roles(p) = [n \in DOMAIN Roles(p) |-> Roles(p)[n]]
  BY DEF Roles
<1>9. Roles(p) \in [Names -> AccountKeys]
  BY <1>4, <1>7, <1>8
<1> QED BY <1>2, <1>5, <1>9

(* The instruction for a kind of swap. *)
KindOf(shared, mode, ledger) ==
    IF mode = "ExactOut"
    THEN IF shared THEN "SharedAccountsExactOutRoute" ELSE "ExactOutRoute"
    ELSE IF shared
         THEN IF ledger THEN "SharedAccountsRouteWithTokenLedger" ELSE "SharedAccountsRoute"
         ELSE IF ledger THEN "RouteWithTokenLedger" ELSE "Route"

LEMMA KindIsVariant ==
    ASSUME NEW shared, NEW mode, NEW ledger
    PROVE  KindOf(shared, mode, ledger) \in VariantNames
BY DEF KindOf, VariantNames

(* Both builders choose the instruction of the kind they are asked for,    *)
(* or the accounts are refused: exact-out with a ledger.                   *)
LEMMA AccountsVariantIsKind ==
    ASSUME NEW p, p.use_shared_accounts \in BOOLEAN, p.swap_mode \in SwapModes
    PROVE  AccountsVariant(p) =
               IF p.swap_mode = "ExactOut" /\ p.token_ledger # None THEN "Refused"
               ELSE KindOf(p.use_shared_accounts, p.swap_mode, p.token_ledger # None)
<1>1. CASE p.swap_mode = "ExactOut"
  BY <1>1 DEF AccountsVariant, KindOf
<1>2. CASE p.swap_mode = "ExactIn"
  BY <1>2 DEF AccountsVariant, KindOf
<1> QED BY <1>1, <1>2 DEF SwapModes

LEMMA DataVariantIsKind ==
    ASSUME NEW d, d.use_shared_accounts \in BOOLEAN, d.swap_mode \in SwapModes,
           d.use_token_ledger \in BOOLEAN
    PROVE  DataVariant(d) = KindOf(d.use_shared_accounts, d.swap_mode, d.use_token_ledger)
<1>1. CASE d.swap_mode = "ExactOut"
  BY <1>1 DEF DataVariant, KindOf
<1>2. CASE d.swap_mode = "ExactIn"
  BY <1>2 DEF DataVariant, KindOf
<1> QED BY <1>1, <1>2 DEF SwapModes

(* What the lists have and have not. *)
Shared(v) ==
    v \in {"SharedAccountsRoute", "SharedAccountsExactOutRoute",
           "SharedAccountsRouteWithTokenLedger"}

ListedRoles(v) ==
    {"user_transfer_authority", "destination_token_account", "event_authority"}
        \cup (IF Shared(v)
              THEN {"program_authority", "source_token_account",
                    "program_source_token_account", "program_destination_token_account"}
              ELSE {"user_source_token_account"})
        \cup (IF v \in {"RouteWithTokenLedger", "SharedAccountsRouteWithTokenLedger"}
              THEN {"token_ledger"} ELSE {})

LEMMA ListsIndex ==
    ASSUME NEW v \in VariantNames, NEW role, NEW i \in 1 .. Size(v),
           IdlAccounts[v][i] = role
    PROVE  Lists(v, role)
BY ListsOfNames DEF Lists

LEMMA KindLists ==
    ASSUME NEW v \in VariantNames
    PROVE  /\ \A role \in ListedRoles(v) : Lists(v, role)
           /\ "token_ledger" \notin ListedRoles(v) => ~Lists(v, "token_ledger")
<1> DEFINE At(role, i) == i \in 1 .. Size(v) /\ IdlAccounts[v][i] = role
<1>0. \A role, i : At(role, i) => Lists(v, role)
  BY ListsIndex
<1>1. CASE v = "Route"
  <2>1. /\ At("user_transfer_authority", 2)
        /\ At("destination_token_account", 5)
        /\ At("event_authority", 8)
        /\ At("user_source_token_account", 3)
    BY <1>1 DEF IdlAccounts, Size
  <2>2. ListedRoles(v) = {"user_transfer_authority",
                          "destination_token_account", "event_authority",
                          "user_source_token_account"}
    BY <1>1 DEF ListedRoles, Shared
  <2>3. ~Lists(v, "token_ledger")
    BY <1>1, ListsOfNames DEF Lists, IdlAccounts, Size
  <2> HIDE DEF At
  <2> QED BY <1>0, <2>1, <2>2, <2>3
<1>2. CASE v = "RouteWithTokenLedger"
  <2>1. /\ At("user_transfer_authority", 2)
        /\ At("destination_token_account", 5)
        /\ At("event_authority", 9)
        /\ At("user_source_token_account", 3)
        /\ At("token_ledger", 8)
    BY <1>2 DEF IdlAccounts, Size
  <2>2. ListedRoles(v) = {"user_transfer_authority",
                          "destination_token_account", "event_authority",
                          "user_source_token_account", "token_ledger"}
    BY <1>2 DEF ListedRoles, Shared
  <2> HIDE DEF At
  <2> QED BY <1>0, <2>1, <2>2
<1>3. CASE v = "ExactOutRoute"
  <2>1. /\ At("user_transfer_authority", 2)
        /\ At("destination_token_account", 5)
        /\ At("event_authority", 10)
        /\ At("user_source_token_account", 3)
    BY <1>3 DEF IdlAccounts, Size
  <2>2. ListedRoles(v) = {"user_transfer_authority",
                          "destination_token_account", "event_authority",
                          "user_source_token_account"}
    BY <1>3 DEF ListedRoles, Shared
  <2>3. ~Lists(v, "token_ledger")
    BY <1>3, ListsOfNames DEF Lists, IdlAccounts, Size
  <2> HIDE DEF At
  <2> QED BY <1>0, <2>1, <2>2, <2>3
<1>4. CASE v = "SharedAccountsRoute"
  <2>1. /\ At("user_transfer_authority", 3)
        /\ At("destination_token_account", 7)
        /\ At("event_authority", 12)
        /\ At("program_authority", 2)
        /\ At("source_token_account", 4)
        /\ At("program_source_token_account", 5)
        /\ At("program_destination_token_account", 6)
    BY <1>4 DEF IdlAccounts, Size
  <2>2. ListedRoles(v) = {"user_transfer_authority",
                          "destination_token_account", "event_authority",
                          "program_authority", "source_token_account",
                          "program_source_token_account",
                          "program_destination_token_account"}
    BY <1>4 DEF ListedRoles, Shared
  <2>3. ~Lists(v, "token_ledger")
    BY <1>4, ListsOfNames DEF Lists, IdlAccounts, Size
  <2> HIDE DEF At
  <2> QED BY <1>0, <2>1, <2>2, <2>3
<1>5. CASE v = "SharedAccountsExactOutRoute"
  <2>1. /\ At("user_transfer_authority", 3)
        /\ At("destination_token_account", 7)
        /\ At("event_authority", 12)
        /\ At("program_authority", 2)
        /\ At("source_token_account", 4)
        /\ At("program_source_token_account", 5)
        /\ At("program_destination_token_account", 6)
    BY <1>5 DEF IdlAccounts, Size
  <2>2. ListedRoles(v) = {"user_transfer_authority",
                          "destination_token_account", "event_authority",
                          "program_authority", "source_token_account",
                          "program_source_token_account",
                          "program_destination_token_account"}
    BY <1>5 DEF ListedRoles, Shared
  <2>3. ~Lists(v, "token_ledger")
    BY <1>5, ListsOfNames DEF Lists, IdlAccounts, Size
  <2> HIDE DEF At
  <2> QED BY <1>0, <2>1, <2>2, <2>3
<1>6. CASE v = "SharedAccountsRouteWithTokenLedger"
  <2>1. /\ At("user_transfer_authority", 3)
        /\ At("destination_token_account", 7)
        /\ At("event_authority", 13)
        /\ At("program_authority", 2)
        /\ At("source_token_account", 4)
        /\ At("program_source_token_account", 5)
        /\ At("program_destination_token_account", 6)
        /\ At("token_ledger", 12)
    BY <1>6 DEF IdlAccounts, Size
  <2>2. ListedRoles(v) = {"user_transfer_authority",
                          "destination_token_account", "event_authority",
                          "program_authority", "source_token_account",
                          "program_source_token_account",
                          "program_destination_token_account", "token_ledger"}
    BY <1>6 DEF ListedRoles, Shared
  <2> HIDE DEF At
  <2> QED BY <1>0, <2>1, <2>2
<1> QED BY <1>1, <1>2, <1>3, <1>4, <1>5, <1>6 DEF VariantNames

================================================================================
