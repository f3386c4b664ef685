------------------------- MODULE ConnectorAccounts -------------------------
(***************************************************************************)
(* connector_accounts.py, swiggy_oauth.py and the connect endpoints of     *)
(* app.py for one owner: the account row of each connector, the OAuth      *)
(* attempts that are under way, and the token a call may use.              *)
(*                                                                         *)
(* A token is a number, in the order of their issue; a stored token        *)
(* remembers the encryption key it was stored under.  Attempts live in     *)
(* memory, accounts in a database.                                         *)
(***************************************************************************)
EXTENDS Naturals

CONSTANTS
  Connectors,
  OAuthConnectors,      \* those with the connect flow
  CredentialConnectors, \* those with auth "connector_account"
  States,               \* OAuth states (uuid4)
  Keys,                 \* values of CONNECTOR_TOKEN_KEY
  Addresses,
  MaxTokens,            \* bound on tokens issued
  Nil

VARIABLES
  account,      \* per connector: its row, Nil when there is none
  pending,      \* _PENDING_SWIGGY_AUTH: the connector of a state, Nil when unknown
  exchanging,   \* states whose code is being exchanged, with their connector
  tokens,       \* tokens issued so far
  key           \* CONNECTOR_TOKEN_KEY, Nil when it is not set

accountVars == <<account, pending, exchanging, tokens, key>>

Expired(row) == row.expired

\* is_connected: what the row says, not whether its token can be decrypted.
IsConnected(c) == account[c] # Nil /\ account[c].status = "CONNECTED" /\ ~Expired(account[c])

HasToken(c) == account[c] # Nil /\ account[c].token # Nil /\ ~Expired(account[c])

\* A token that another key encrypted is no token; without any key, asking raises.
BearerToken(c) == IF HasToken(c) /\ account[c].key = key THEN account[c].token ELSE Nil

AskingRaises(c) == HasToken(c) /\ key = Nil

\* A row keeps its default address and its last health through everything.
StoreToken(c, lasts) ==
  LET kept == IF account[c] = Nil THEN [address |-> Nil, health |-> Nil]
              ELSE [address |-> account[c].address, health |-> account[c].health]
  IN  /\ tokens < MaxTokens /\ tokens' = tokens + 1
      /\ account' = [account EXCEPT ![c] =
           [status |-> "CONNECTED", token |-> tokens', key |-> key, lasts |-> lasts,
            expired |-> FALSE, address |-> kept.address, health |-> kept.health]]

\* connect_connector: the client is registered, then the attempt is remembered.
Connect(c, state) ==
  /\ c \in OAuthConnectors /\ pending[state] = Nil
  /\ \A e \in exchanging : e.state # state
  /\ pending' = [pending EXCEPT ![state] = c]
  /\ UNCHANGED <<account, exchanging, tokens, key>>

\* swiggy_oauth_callback: the state is spent before the code is exchanged.
Callback(state) ==
  /\ pending[state] # Nil
  /\ exchanging' = exchanging \cup {[state |-> state, connector |-> pending[state]]}
  /\ pending' = [pending EXCEPT ![state] = Nil]
  /\ UNCHANGED <<account, tokens, key>>

\* Whatever became of the account meanwhile; without a key nothing is stored.
ExchangeSucceeds(e) ==
  /\ e \in exchanging /\ key # Nil
  /\ exchanging' = exchanging \ {e}
  /\ \E lasts \in BOOLEAN : StoreToken(e.connector, lasts)
  /\ UNCHANGED <<pending, key>>

\* Refused, not reached in three attempts, a code spent by an attempt whose answer was
\* lost, or an answer that could not be encrypted.
ExchangeFails(e) ==
  /\ e \in exchanging
  /\ exchanging' = exchanging \ {e}
  /\ UNCHANGED <<account, pending, tokens, key>>

\* connect_with_credential, connect_with_manual_token (which never expires).
Credential(c, lasts) ==
  /\ c \in CredentialConnectors /\ key # Nil
  /\ StoreToken(c, lasts)
  /\ UNCHANGED <<pending, exchanging, key>>

Disconnect(c) ==
  /\ account[c] # Nil
  /\ account' = [account EXCEPT ![c].status = "DISCONNECTED", ![c].token = Nil]
  /\ UNCHANGED <<pending, exchanging, tokens, key>>

\* set_connector_default_address.
SetDefaultAddress(c, address) ==
  /\ IsConnected(c)
  /\ account' = [account EXCEPT ![c].address = address]
  /\ UNCHANGED <<pending, exchanging, tokens, key>>

\* record_mcp_status, once per connector a turn reported on: never makes a row.
RecordMcpStatus(statuses) ==
  account' = [c \in Connectors |->
    IF account[c] # Nil /\ c \in DOMAIN statuses
    THEN [account[c] EXCEPT !.health = statuses[c]]
    ELSE account[c]]

\* expires_at passes.
Expires(c) ==
  /\ account[c] # Nil /\ account[c].token # Nil /\ ~account[c].lasts /\ ~account[c].expired
  /\ account' = [account EXCEPT ![c].expired = TRUE]
  /\ UNCHANGED <<pending, exchanging, tokens, key>>

\* The process comes back, maybe with another key; attempts start over.
RestartAccounts ==
  /\ pending' = [state \in States |-> Nil]
  /\ exchanging' = {}
  /\ key' \in Keys \cup {Nil}
  /\ UNCHANGED <<account, tokens>>

\* Accounts outlive the process: one may be there from an earlier run.
AccountsInit ==
  /\ key \in Keys
  /\ account \in [Connectors -> {Nil}] \cup
       {[c \in Connectors |->
           IF c \in CredentialConnectors
           THEN [status |-> "CONNECTED", token |-> 0, key |-> key, lasts |-> FALSE,
                 expired |-> FALSE, address |-> Nil, health |-> Nil]
           ELSE Nil]}
  /\ pending = [state \in States |-> Nil]
  /\ exchanging = {} /\ tokens = 0

\* What the owner and time do.
AccountsEvent ==
  \E c \in Connectors :
    \/ \E state \in States : Connect(c, state)
    \/ \E lasts \in BOOLEAN : Credential(c, lasts)
    \/ Disconnect(c) \/ Expires(c)
    \/ \E address \in Addresses : SetDefaultAddress(c, address)

\* How an attempt goes on.
AttemptsGoOn ==
  \/ \E state \in States : Callback(state)
  \/ \E e \in exchanging : ExchangeSucceeds(e) \/ ExchangeFails(e)
=============================================================================
