\* A file, its read and its write.
SPECIFICATION Spec
INVARIANT RequestsWillEnd
