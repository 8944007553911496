SPECIFICATION Spec
CONSTANTS
  k1 = k1
  u1 = u1
  Conversations = {k1}
  Briefs = {b1}
  Uploads = {u1, u2}
  Reports = {r1}
  ConversationOf <- OneConversation
  Kept = {u1, u2}
  Prompts <- OnePrompt
  Cents <- Values
  UserOf <- OneContributor
  Funded <- Two
  MaxCount <- Two
  MaxOwn <- One
  Elsewhere <- SomeElsewhere
INVARIANTS
  TypeOK
  Consented
  SoldAsValued
  Lineage
  Evaluated
  ToldAsIs
PROPERTY SoldIsFinal
