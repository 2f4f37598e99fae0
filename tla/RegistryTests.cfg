SPECIFICATION TestSpec
INVARIANT FoundValuesEqualCreated
