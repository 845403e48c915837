---------------------------- MODULE ClaimMapping ----------------------------
(***************************************************************************)
(* The roles that the adapters take from a token.  A text is the sequence  *)
(* of its pieces between commas; the empty text has one piece, the empty   *)
(* one.  Values that are no text are Other.                                *)
(***************************************************************************)
EXTENDS Integers, SequencesExt

CONSTANTS
  Pieces,   \* of texts; "" among them
  Other,    \* a value of another type: a number, an object, ...
  MaxLen    \* bound on the roles and the attributes of a token

ASSUME PiecesAssumption == "" \in Pieces /\ Other \notin Seq(Pieces)
ASSUME LenAssumption == MaxLen \in Nat \ {0}

Empty == <<"">>

-----------------------------------------------------------------------------
(* The JWT adapter.                                                        *)

\* A claim is of the kind "text" or "list", or of another one; its items are
\* the text or the values of the list.

\* strings.Split at the commas.
Split(text) == [i \in DOMAIN text |-> <<text[i]>>]

\* The texts among the values, in their order.
Texts(values) ==
  LET result[i \in 0..Len(values)] ==
        IF i = 0 THEN <<>>
        ELSE IF values[i] = Other THEN result[i - 1]
        ELSE Append(result[i - 1], values[i])
  IN result[Len(values)]

ExtractStringSlice(c) ==
  CASE c.kind = "list" -> Texts(c.items)
    [] c.kind = "text" -> Split(c.items[1])
    [] OTHER -> <<>>

-----------------------------------------------------------------------------
(* The SAML adapter.                                                       *)

Named(attributes, name) ==
  {i \in DOMAIN attributes : attributes[i].name = name /\ attributes[i].values # <<>>}

\* The values of the last attribute with this name that has any, joined by
\* commas; the empty text when there is none.
AttributeText(attributes, name) ==
  LET named == Named(attributes, name)
  IN IF named = {} THEN Empty ELSE FlattenSeq(attributes[Max(named)].values)

Coalesce(t, u) == IF t # Empty THEN t ELSE u

SAMLRoles(attributes) ==
  Split(Coalesce(AttributeText(attributes, "roles"),
                 AttributeText(attributes, "role")))

-----------------------------------------------------------------------------
(* What an assertion states, without regard to the adapters.              *)

RoleNames == {"roles", "role"}

AllTexts   == BoundedSeq(Pieces, MaxLen) \ {<<>>}
ValueLists == BoundedSeq(AllTexts, MaxLen)
Assertions == BoundedSeq([name : RoleNames \union {"org"}, values : ValueLists],
                         MaxLen)

\* The attributes that state roles, and the values of all of them.
Telling(attributes) ==
  {i \in DOMAIN attributes :
     attributes[i].name \in RoleNames /\ attributes[i].values # <<>>}
Stated(attributes) ==
  FlattenSeq([i \in DOMAIN attributes |->
    IF attributes[i].name \in RoleNames THEN attributes[i].values ELSE <<>>])

JWTList(values) == ExtractStringSlice([kind |-> "list", items |-> values])
JWTText(text)   == ExtractStringSlice([kind |-> "text", items |-> <<text>>])

\* Whether an identity's roles depend on the adapter it came through: an
\* assertion and a JWT with the same values, one by one, give the same roles,
\* in the same order, just when one attribute alone states them and no value
\* has a comma in it.  Without roles the assertion gives the empty role and
\* the JWT none, of several attributes the assertion gives one only, and what
\* has a comma falls into pieces.  As one text the two give the same always,
\* and what is no text in a JWT's list counts for nothing
\* (saml_adapter.go:99-149, jwt_adapter.go:108-131).
RolesAgree ==
  /\ \A a \in Assertions :
       SAMLRoles(a) = JWTList(Stated(a)) <=>
         \E i \in DOMAIN a :
           /\ Telling(a) = {i}
           /\ \A j \in DOMAIN a[i].values : Len(a[i].values[j]) = 1
  /\ \A t \in AllTexts, name \in RoleNames :
       SAMLRoles(<<[name |-> name, values |-> <<t>>]>>) = JWTText(t)
  /\ \A v \in ValueLists : \A p \in 1..Len(v) + 1 :
       JWTList(InsertAt(v, p, Other)) = v
=============================================================================
