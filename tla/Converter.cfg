SPECIFICATION Spec
CONSTANT Entries <- MCEntries
INVARIANT StaysWhereItBegan
PROPERTY ReturnsUnchanged
